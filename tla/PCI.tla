-------------------------------- MODULE PCI --------------------------------
(* The PCI module (modules/pci/main.c): its Init publishes /dev/pci and    *)
(* then walks the configuration space, one slot of one bus after another,  *)
(* and lists what it finds in a page that AllocatePage has cleared.        *)
(* machine.pci holds the functions that exist.                             *)
EXTENDS Machine

CONSTANTS
    Buses, Slots,   \* 256 buses of 32 slots
    Functions,      \* of 8 functions each
    MaxDevices      \* The length of the list, 128.

SameSlot(d, e) == d.bus = e.bus /\ d.slot = e.slot

\* External: what a bus is.  No two functions have one address, a slot has a
\* function 0 if it has any, which says that there are others, and a device
\* that answers under all eight numbers has no others.
IsBus(functions) ==
    /\ IsFiniteSet(functions)
    /\ \A d \in functions :
        /\ d.bus \in 0 .. Buses - 1 /\ d.slot \in 0 .. Slots - 1 /\ d.func \in 0 .. Functions - 1
        /\ d.class # "none"
        /\ d.func # 0 => \E e \in functions : SameSlot(d, e) /\ e.func = 0 /\ e.multi
        /\ d.aliases => ~d.multi
    /\ \A d, e \in functions : SameSlot(d, e) /\ d.func = e.func => d = e

ASSUME BusAssumption ==
    /\ Buses \in Nat /\ Slots \in Nat \ {0} /\ Functions \in Nat \ {0} /\ MaxDevices \in Nat
    /\ \A m \in Machines : IsBus(m.pci)

VARIABLES
    pciDev,         \* Dev: the list, from index 0
    pciCount,       \* Count
    pciAt           \* The function the walk is at; of bus -1 before Init

pciVars == <<pciDev, pciCount, pciAt>>

NoFunction == [class |-> "none"]

\* The function that answers at an address.  A device with one function may
\* answer under all eight numbers.
Answer(bus, slot, func) ==
    LET at(f) == {d \in machine.pci : d.bus = bus /\ d.slot = slot /\ d.func = f} IN
    IF at(func) # {} THEN CHOOSE d \in at(func) : TRUE
    ELSE IF \E d \in at(0) : d.aliases THEN CHOOSE d \in at(0) : TRUE
    ELSE NoFunction

PCIDeviceExists(bus, slot, func) == Answer(bus, slot, func) # NoFunction

\* A bug: all eight functions of every slot are asked.
EveryFunction(bus, slot) == Functions

\* Bit 7 of the header type of function 0 says whether there are others.
FuncLimit(bus, slot) == IF Answer(bus, slot, 0).multi THEN Functions ELSE 1

\* Dev[Count++]; the list is not checked for its end.  Entry MaxDevices is
\* Count itself, the ones after it lie outside the page.
PCIRegister(d) ==
    IF pciCount < MaxDevices
    THEN /\ pciDev' = [pciDev EXCEPT ![pciCount] = d]
         /\ pciCount' = pciCount + 1
         /\ UNCHANGED stopped
    ELSE stopped' = "wild" /\ UNCHANGED <<pciDev, pciCount>>

\* Where the loops go on after the last function of a slot.
NextSlot == IF pciAt.slot + 1 < Slots
            THEN [bus |-> pciAt.bus, slot |-> pciAt.slot + 1, func |-> 0]
            ELSE [bus |-> pciAt.bus + 1, slot |-> 0, func |-> 0]
-----------------------------------------------------------------------------
PCIInit ==
    /\ pciDev = [i \in 0 .. MaxDevices - 1 |-> NoFunction]
    /\ pciCount = 0
    /\ pciAt = [bus |-> -1, slot |-> 0, func |-> 0]

\* Init: the node is there before the list is.
PCIPublish ==
    /\ Going /\ running = "pci" /\ pciAt.bus < 0
    /\ Register([name |-> "pci", kind |-> "pci"])
    /\ pciCount' = 0
    /\ pciAt' = [pciAt EXCEPT !.bus = 0]
    /\ UNCHANGED <<pciDev, machine, running, stopped, uart, typed, ints>>

\* PCIEnumeratePci: one turn of its loops.  A slot whose function 0 does not
\* answer is passed over, and so is any other function that does not.
PCIScan ==
    /\ Going /\ running = "pci" /\ pciAt.bus \in 0 .. Buses - 1
    /\ IF PCIDeviceExists(pciAt.bus, pciAt.slot, pciAt.func)
       THEN PCIRegister(Answer(pciAt.bus, pciAt.slot, pciAt.func))
       ELSE UNCHANGED <<pciDev, pciCount, stopped>>
    /\ pciAt' = IF /\ PCIDeviceExists(pciAt.bus, pciAt.slot, 0)
                   /\ pciAt.func + 1 < FuncLimit(pciAt.bus, pciAt.slot)
                THEN [pciAt EXCEPT !.func = @ + 1] ELSE NextSlot
    /\ UNCHANGED <<machine, running, devs, uart, typed, ints>>

PCIReturn ==
    /\ Going /\ running = "pci" /\ pciAt.bus = Buses
    /\ Return
    /\ UNCHANGED <<pciVars, machine, stopped, devs, uart, typed, ints>>

PCINext == PCIPublish \/ PCIScan \/ PCIReturn
-----------------------------------------------------------------------------
\* In the order of the walk, of two functions or of one and where it is.
Before(d, e) ==
    \/ d.bus < e.bus
    \/ d.bus = e.bus /\ d.slot < e.slot
    \/ d.bus = e.bus /\ d.slot = e.slot /\ d.func < e.func

\* The functions the walk has passed.
Walked == {d \in machine.pci : Before(d, pciAt)}

(* What the list shows at any moment, also to a reader of /dev/pci who     *)
(* comes while Init still walks: each function already passed exactly once,*)
(* in the order of their addresses.  (PCIEnumeratePci, PCIRegister.)       *)
BusListed ==
    Going /\ pciAt.bus >= 0 =>
        /\ pciCount = Cardinality(Walked)
        /\ \A d \in Walked :
            \E i \in 0 .. pciCount - 1 :
                /\ pciDev[i] = d
                /\ \A j \in 0 .. i - 1 : Before(pciDev[j], d)
=============================================================================
