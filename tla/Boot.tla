-------------------------------- MODULE Boot --------------------------------
(* kmain's process as a whole: the loader, the modules' Inits it calls, the*)
(* shell and what follows it, with the user typing, the drives and the     *)
(* devices of PS/2 answering meanwhile.  One process, so at any moment one *)
(* component moves and leaves the variables of the others alone.           *)
EXTENDS Loader, Shell

\* A machine that says what its volumes are loads fat behind ide behind pci,
\* and has drives that answer without faults, behind one controller.  What
\* its volumes are is what their makers say of those its drives hold.
Loads(m, o, name) ==
    /\ m.tags[o].type = "module" /\ m.tags[o].image.name = name
    /\ m.tags[o].image.elf /\ m.tags[o].image.type = "rel"
    /\ FindSymbol(m.tags[o].image, "Init") # 0
    /\ \A k \in DOMAIN Relocs(m.tags[o].image) :
        SymAddr(m.tags[o].image, Relocs(m.tags[o].image)[k]) # -1
FatComesLast(m) ==
    \A o \in DOMAIN m.tags : m.tags[o].type = "module" /\ m.tags[o].image.name = "fat" =>
        \E p, q \in DOMAIN m.tags : p < q /\ q < o /\ Loads(m, p, "pci") /\ Loads(m, q, "ide")
VolumesOf(m, slots) ==
    LET found == {s \in 0 .. 3 : slots[s].kind \in {"ata", "atapi", "hung"}}
        is(s, v) == v.n = Cardinality({t \in found : t < s}) /\ MadeOn(slots[s], v)
    IN  /\ \A s \in 0 .. 3 : ~slots[s].faults
        /\ \A s \in found : HasVolume(slots[s]) => \E v \in m.volumes : is(s, v)
        /\ \A v \in m.volumes : \E s \in found : HasVolume(slots[s]) /\ is(s, v)

ASSUME VolumesAssumption ==
    \A m \in Machines : m.volumes # {} =>
        /\ FatComesLast(m)
        /\ \E c \in m.pci : {d \in m.pci : d.class = "ide"} = {c} /\ VolumesOf(m, c.slots)

shVars == <<sh, ttyVars, cwd, kmVars>>
vars == <<shared, loaderVars, pciVars, ideVars, xferVars, fatVars, ps2Vars, shVars>>

Init ==
    /\ MachineInit
    /\ LoaderInit /\ PCIInit /\ ATAInit /\ MountInit /\ PS2Init /\ ShellInit

\* The framebuffer's module: ParseMBI walks the tags as the loader does.
VGAInit ==
    /\ Going /\ running = "vga"
    /\ Register([name |-> "framebuffer", kind |-> "framebuffer"])
    /\ Return
    /\ UNCHANGED <<machine, stopped, uart, typed, ints, loaderVars>>

\* hello's Init creates the process that prints and exits: Sched.tla's Create.
HelloInit ==
    /\ Going /\ running = "hello"
    /\ Return
    /\ UNCHANGED <<machine, stopped, devs, uart, typed, ints, loaderVars>>

Load == /\ LoaderNext \/ VGAInit \/ HelloInit
        /\ UNCHANGED <<pciVars, ideVars, xferVars, fatVars, ps2Vars, shVars>>
Enumerate == /\ PCINext
             /\ UNCHANGED <<loaderVars, ideVars, xferVars, fatVars, ps2Vars, shVars>>
Detect == /\ IDENext
          /\ UNCHANGED <<loaderVars, pciVars, xferVars, fatVars, ps2Vars, shVars>>
Transfer == /\ XferNext
            /\ UNCHANGED <<loaderVars, pciVars, ideVars, fatVars, ps2Vars, shVars>>
Mount == /\ MountNext
         /\ UNCHANGED <<loaderVars, pciVars, ideVars, ps2Vars, shVars>>
Converse == /\ PS2Next
            /\ UNCHANGED <<loaderVars, pciVars, ideVars, xferVars, fatVars, shVars>>
Interact == /\ Prompt \/ TtyRead \/ TtyHalt \/ ShellNext
               \/ KmainLine \/ KmainSample \/ KmainWait
            /\ UNCHANGED <<loaderVars, pciVars, ideVars, xferVars, fatVars, ps2Vars>>
TypeDevice == /\ TypeMouse \/ TypeKeyboard
              /\ UNCHANGED <<loaderVars, pciVars, ideVars, xferVars, fatVars>>

\* The steps of the boot process, and those of the world around it.
Process ==
    \/ Load \/ Enumerate \/ Detect \/ Transfer \/ Mount \/ Converse
    \/ Interact \/ TypeDevice

Answer1 == DriveAnswers /\ UNCHANGED <<loaderVars, pciVars, ideVars, fatVars, ps2Vars, shVars>>
Types == TypeKey
         /\ UNCHANGED <<loaderVars, pciVars, ideVars, xferVars, fatVars, ps2Vars, shVars>>
Reported == Reports
            /\ UNCHANGED <<loaderVars, pciVars, ideVars, xferVars, fatVars, shVars>>

Next == Process \/ Answer1 \/ Types \/ Reported

Spec == Init /\ [][Next]_vars /\ WF_vars(Process) /\ WF_vars(Answer1)
-----------------------------------------------------------------------------
(* Every node of /dev that a driver registered stands for a device of this *)
(* machine: the nodes of drives lead to the drives that answered, those of *)
(* PS/2 to a keyboard and a mouse that are there.                          *)
NodesReal == NodesAreDrives /\ Ps2NodesReal

AtPrompt == running \in {"shell", "kmain"} /\ sh = "read"

\* IDEAccess waits for a drive that never stops being busy, ps2's Init for a
\* controller whose status never changes; neither wait has an end.
AwaitsDrive == xfer.at = "command" /\ ~Packet /\ SlotOf(xfer.n).kind = "hung"
AwaitsController == running = "ps2" /\ line > 0 /\ machine.ps2.stuck # {}

(* A boot comes to where it waits for a line, or ends for a reason it      *)
(* names; only the device it is waiting for in the end, a drive that stays *)
(* busy or a PS/2 controller that does not answer, can keep it from that.  *)
(* (kmain, LoadModules and every Init on the way.)                         *)
BootCompletes ==
    <>(AtPrompt \/ stopped # "no") \/ <>[](AwaitsDrive \/ AwaitsController)
=============================================================================
