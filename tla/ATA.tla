-------------------------------- MODULE ATA --------------------------------
(* How the IDE module finds its drives and talks to them                   *)
(* (modules/ide/main.c): Init looks for controllers in PCI's list,         *)
(* IDEInitialise probes the four slots of one, and IDEReadFunction moves a *)
(* sector by polling.  IDE.tla has the arithmetic of sectors and offsets,  *)
(* this module the conversation with the drive.  A controller's slots are  *)
(* 2 * channel + drive; a unit is 512 bytes, four of them a sector of a CD.*)
EXTENDS PCI

\* External: what answers at a slot.  "none" shows a status of 0, "floating"
\* one of 255, "refusing" an error that is no packet drive's.  An entry of a
\* partition table has a type and a first sector.
IsSlot(slot) ==
    /\ slot.kind \in {"none", "floating", "refusing", "atapi", "ata", "hung"}
    /\ slot.size \in Nat
    /\ \A u \in DOMAIN slot.units : slot.units[u].parts \in Seq([type : Nat, lba : Nat])

ASSUME DriveAssumption ==
    \A m \in Machines : \A d \in m.pci :
        d.class = "ide" => \A s \in 0 .. 3 : IsSlot(d.slots[s])

VARIABLES
    ideAt,      \* Where Init's loops are: an index of the list and a slot.
    ideCtl,     \* IDEState.Dev, the controller found last.
    ideDev,     \* IDEState.IDEDev
    ideCount,   \* count of IDEInitialise
    xfer,       \* The read in progress, or the last one.
    signal      \* What the drive spoken to shows: "idle", "busy", "drq"...

ideVars == <<ideAt, ideCtl, ideDev, ideCount>>
xferVars == <<xfer, signal>>

ALTSTATUS == 12
SERIAL_PORT == 1016

\* The bases of a channel's registers: those of the controller's bars, or
\* the old fixed ones where a bar is 0.
Base(d, channel) == IF channel = 0 THEN (IF d.bar[1] = 0 THEN 496 ELSE d.bar[1])
                    ELSE IF d.bar[3] = 0 THEN 368 ELSE d.bar[3]
Ctrl(d, channel) == IF channel = 0 THEN (IF d.bar[2] = 0 THEN 1014 ELSE d.bar[2])
                    ELSE IF d.bar[4] = 0 THEN 886 ELSE d.bar[4]

\* The port IDERead and IDEWrite use for a register.
Port(d, channel, reg) ==
    CASE reg < 8 -> Base(d, channel) + reg
      [] reg \in 8 .. 11 -> Base(d, channel) + reg - 6
      [] reg \in 12 .. 13 -> Ctrl(d, channel) + reg - 10
      [] OTHER -> d.bar[5] + 8 * channel + reg - 14

\* Reads of the alternate status.  With the fixed bases its port is COM1's
\* data port, and each read takes a character out of the receiver.
Swallow(channel, n) ==
    uart' = IF Port(ideCtl, channel, ALTSTATUS) = SERIAL_PORT
            THEN SubSeq(uart, n + 1, Len(uart)) ELSE uart

SlotOf(n) == ideCtl.slots[2 * ideDev[n].Channel + ideDev[n].Drive]

\* IsDrivePresent: a status of 0 or 0xFF is no drive.
IsDrivePresent(n) == ideDev[n].Reserved /\ SlotOf(n).kind \notin {"none", "floating"}

\* What the probe of a slot ends in.  No status: next slot.  An error with
\* a packet drive's signature: a CD; without it ("refusing", or a bus that
\* floats and shows every bit set): next slot.  A drive that stays busy is
\* given up after 100000 polls, and listed all the same.
Probed(slot) ==
    CASE slot.kind \in {"none", "floating", "refusing"} -> "none"
      [] slot.kind = "atapi" -> "atapi"
      [] slot.kind \in {"ata", "hung"} -> "ata"

UnitsPerSector(type) == IF type = "atapi" THEN 4 ELSE 1
Unit(slot, u) == IF u \in DOMAIN slot.units THEN slot.units[u] ELSE ZeroSector

\* A bug: a drive without data to give is taken for one with it.
LaxPollError(s) == CASE s = "err" -> 2 [] s = "fault" -> 1 [] OTHER -> 0

\* IDEPolling with advanced_check, once the drive is not busy any more.
PollError(s) == CASE s = "err" -> 2 [] s = "fault" -> 1 [] s = "nothing" -> 3 [] OTHER -> 0

\* IDEPrintErr: of several bits in the error register the last one counts.
IDEPrintErr(err, bits) ==
    CASE err = 0 -> 0
      [] err = 1 -> 19
      [] err = 3 -> 23
      [] err = 2 /\ "BBK" \in bits -> 13
      [] err = 2 /\ "BBK" \notin bits /\ "UNC" \in bits -> 22
      [] err = 2 /\ bits \intersect {"BBK", "UNC"} = {} /\ "MC" \in bits -> 3
      [] err = 2 /\ bits = {"ABRT"} -> 20
      [] OTHER -> 2

ErrorBits == {{}, {"ABRT"}, {"MC", "ABRT"}, {"UNC", "BBK"}}
-----------------------------------------------------------------------------
NoDrive == [Reserved |-> FALSE, Channel |-> 0, Drive |-> 0, Type |-> "ata", Size |-> 0]

ATAInit ==
    /\ ideAt = [pci |-> -1, slot |-> 4]
    /\ ideCtl = NoFunction
    /\ ideDev = [n \in 0 .. 3 |-> NoDrive]
    /\ ideCount = 0
    /\ xfer = [at |-> "idle"]
    /\ signal = "idle"

ideRest == <<machine, stopped, uart, typed, ints>>

\* Init looks for /dev/pci; RelativeFind panics where it does not find it.
IDEStart ==
    /\ Going /\ running = "ide" /\ ideAt.pci < 0
    /\ IF Nodes("pci") = {} THEN Panic /\ UNCHANGED ideAt
       ELSE ideAt' = [ideAt EXCEPT !.pci = 0] /\ UNCHANGED <<stopped, ints>>
    /\ UNCHANGED <<ideCtl, ideDev, ideCount, devs, machine, running, uart, typed>>

\* The loop over PCI's list: IDEFind for every IDE controller.  The state is
\* one for all of them.  (PCIGetOriginalDevice has no entry MaxDevices.)
IDEFind ==
    /\ Going /\ running = "ide" /\ ideAt.pci \in 0 .. pciCount - 1 /\ ideAt.slot = 4
    /\ IF ideAt.pci < MaxDevices /\ pciDev[ideAt.pci].class = "ide"
       THEN /\ ideCtl' = pciDev[ideAt.pci]
            /\ ideCount' = 0
            /\ ideAt' = [ideAt EXCEPT !.slot = 0]
       ELSE /\ ideAt' = [ideAt EXCEPT !.pci = @ + 1]
            /\ UNCHANGED <<ideCtl, ideCount>>
    /\ UNCHANGED <<ideDev, running, devs, ideRest>>

\* The entry of a drive found in slot s by a probe that ended in how.
Entry(s, how) == [Reserved |-> TRUE, Channel |-> s \div 2, Drive |-> s % 2,
                  Type |-> how, Size |-> ideCtl.slots[s].size]

\* One slot of IDEInitialise.  A slot passed over does not use up a name.
IDEProbe ==
    /\ Going /\ running = "ide" /\ ideAt.slot < 4
    /\ LET how == Probed(ideCtl.slots[ideAt.slot]) IN
       IF how = "none"
       THEN /\ ideDev' = [ideDev EXCEPT ![ideCount].Reserved = FALSE]
            /\ UNCHANGED <<ideCount, devs>>
       ELSE /\ ideDev' = [ideDev EXCEPT ![ideCount] = Entry(ideAt.slot, how)]
            /\ Register([name |-> "hd", kind |-> "hd", n |-> ideCount])
            /\ ideCount' = ideCount + 1
    /\ ideAt' = IF ideAt.slot = 3 THEN [pci |-> ideAt.pci + 1, slot |-> 4]
                ELSE [ideAt EXCEPT !.slot = @ + 1]
    /\ UNCHANGED <<ideCtl, running, ideRest>>

IDEReturn ==
    /\ Going /\ running = "ide" /\ ideAt = [pci |-> pciCount, slot |-> 4]
    /\ Return
    /\ UNCHANGED <<ideVars, devs, ideRest>>

IDENext == IDEStart \/ IDEFind \/ IDEProbe \/ IDEReturn
-----------------------------------------------------------------------------
\* A caller's ReadFunction(Buf, 512, 1, Node) at a unit of drive n.
StartRead(n, unit) ==
    xfer' = [at |-> "select", n |-> n, unit |-> unit, moved |-> "no",
             package |-> 0, data |-> ZeroSector]

xferRest == <<machine, running, stopped, devs, typed, ints>>
At(phase) == Going /\ xfer.at = phase
Packet == ideDev[xfer.n].Type = "atapi"
Channel == ideDev[xfer.n].Channel

\* No drive there, or a sector it does not have: zeros.
XferSelect ==
    /\ At("select")
    /\ xfer' = [xfer EXCEPT !.at =
            IF /\ IsDrivePresent(xfer.n)
               /\ xfer.unit \div UnitsPerSector(ideDev[xfer.n].Type) < ideDev[xfer.n].Size
            THEN "command" ELSE "done"]
    /\ UNCHANGED <<signal, uart, xferRest>>

\* IDEAccess waits for a drive that is not busy, for ever if need be;
\* IDEAtaPIRead does not wait but reads the alternate status four times.
XferCommand ==
    /\ At("command")
    /\ ~Packet => SlotOf(xfer.n).kind # "hung"
    /\ IF Packet THEN Swallow(Channel, 4) ELSE UNCHANGED uart
    /\ signal' = "busy"
    /\ xfer' = [xfer EXCEPT !.at = "settle"]
    /\ UNCHANGED xferRest

\* The drive comes to an end with a command.
DriveAnswers ==
    /\ Going /\ signal = "busy"
    /\ signal' \in IF SlotOf(xfer.n).faults THEN {"drq", "err", "fault", "nothing"}
                   ELSE {"drq"}
    /\ UNCHANGED <<xfer, uart, xferRest>>

\* IDEPolling, before and after it waits.  A packet drive is polled twice:
\* for the packet, and ("answer") for the data.
XferSettle ==
    /\ At("settle") \/ At("answer")
    /\ Swallow(Channel, 4)
    /\ xfer' = [xfer EXCEPT !.at = IF @ = "settle" THEN "poll" ELSE "data"]
    /\ UNCHANGED <<signal, xferRest>>

XferPoll ==
    /\ At("poll") \/ At("data")
    /\ signal # "busy"
    /\ IF PollError(signal) # 0
       THEN /\ \E bits \in ErrorBits :
                xfer' = [xfer EXCEPT !.at = "done",
                                     !.package = IDEPrintErr(PollError(signal), bits)]
            /\ signal' = "idle"
       ELSE IF Packet /\ xfer.at = "poll"
       THEN xfer' = [xfer EXCEPT !.at = "answer"] /\ signal' = "busy"
       ELSE /\ xfer' = [xfer EXCEPT !.at = "done", !.moved = signal,
                                    !.data = Unit(SlotOf(xfer.n), xfer.unit)]
            /\ signal' = "idle"
    /\ UNCHANGED <<uart, xferRest>>

\* IDEReadFunction gives zeros for what package reports as failed.
Buffer == IF xfer.package # 0 THEN ZeroSector ELSE xfer.data

XferNext == XferSelect \/ XferCommand \/ XferSettle \/ XferPoll
-----------------------------------------------------------------------------
Controllers == {d \in machine.pci : d.class = "ide"}

(* With one controller, every drive that answered its probe is behind      *)
(* exactly one node, and the entry a node leads to is that of its drive,   *)
(* also when slots before it were empty or gave up late.  (A second        *)
(* controller overwrites the entries the first one's nodes lead to.)       *)
NodesAreDrives ==
    Cardinality(Controllers) = 1 /\ running # "ide" /\ ideAt.pci >= 0 =>
        LET slots == (CHOOSE d \in Controllers : TRUE).slots
            found == {s \in 0 .. 3 : slots[s].kind \in {"ata", "atapi", "hung"}}
            order(s) == Cardinality({t \in found : t < s})
        IN  /\ Cardinality(Nodes("hd")) = Cardinality(found)
            /\ \A s \in found : \E i \in Nodes("hd") :
                /\ devs[i].n = order(s)
                /\ SlotOf(devs[i].n) = slots[s]
                /\ IsDrivePresent(devs[i].n)
                /\ (ideDev[devs[i].n].Type = "atapi") = (slots[s].kind = "atapi")

(* A read takes words from the drive only while the drive offers them for  *)
(* this very command, and what it returns is the sector asked for or zeros,*)
(* never what a refused command left.  (IDEAccess, IDEAtaPIRead,           *)
(* IDEPolling, IDEPrintErr.)                                               *)
AccessHonest ==
    xfer.at = "done" =>
        /\ xfer.moved \in {"no", "drq"}
        /\ (xfer.moved = "drq") = (xfer.package = 0 /\ IsDrivePresent(xfer.n)
                                   /\ xfer.unit < ideDev[xfer.n].Size
                                                    * UnitsPerSector(ideDev[xfer.n].Type))
        /\ Buffer = IF xfer.moved = "drq" THEN Unit(SlotOf(xfer.n), xfer.unit) ELSE ZeroSector
=============================================================================
