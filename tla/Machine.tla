------------------------------ MODULE Machine ------------------------------
(* What the modules of a boot share: the machine they run on, the module   *)
(* whose code the boot process is in, how it came to a stop, the nodes of  *)
(* /dev, the serial port's receiver and the interrupt flag.  kmain calls   *)
(* the loader, the loader the Init of one module after another, the last   *)
(* one is the shell: one process, which finds what the ones before left.   *)
EXTENDS Integers, Sequences, FiniteSets

CONSTANT Machines   \* The configurations the kernel is booted on.

VARIABLES
    machine,    \* The configuration of this boot.
    running,    \* Whose code the boot process executes.
    stopped,    \* "no", or what ended the process: "divide", "panic"...
    devs,       \* The nodes of /dev, the newest first.
    uart,       \* Characters received on COM1 and not read yet.
    typed,      \* How many characters the user has typed.
    ints        \* The interrupt flag.

shared == <<machine, running, stopped, devs, uart, typed, ints>>

Going == stopped = "no"

\* A sector of zeros, as a partition table and as a boot record.
ZeroSector ==
    [magic |-> FALSE, parts |-> <<>>, BytesPerSector |-> 0, SectorsPerCluster |-> 0,
     ReservedSectors |-> 0, FATCount |-> 0, RootDirectoryEntries |-> 0,
     TotalSectorsInVolume |-> 0, ExtendedSectorCount |-> 0, SectorsPerFAT |-> 0,
     SectorsPerFAT32 |-> 0, Signature16 |-> FALSE, Signature32 |-> FALSE]

\* VFSCreateDevices and CreateSerialDevice leave these in /dev.
FirstDevs == <<[name |-> "random", kind |-> "random"],
               [name |-> "tty0", kind |-> "tty"],
               [name |-> "null", kind |-> "null"]>>

MachineInit ==
    /\ machine \in Machines
    /\ running = "loader"
    /\ stopped = "no"
    /\ devs = FirstDevs
    /\ uart = <<>>
    /\ typed = 0
    /\ ints = TRUE          \* kmain calls ArchSti before LoadModules.

\* RegisterChildVNode puts a new node in front of its siblings.
Register(node) == devs' = <<node>> \o devs

Nodes(kind) == {i \in DOMAIN devs : devs[i].kind = kind}

\* Init returns to the loader.
Return == running' = "loader"

\* PanicImpl masks interrupts and does not return.
Panic == stopped' = "panic" /\ ints' = FALSE

\* The user types the next character; the receiver queues it.
TypeKey ==
    /\ typed < Len(machine.typing)
    /\ uart' = Append(uart, machine.typing[typed + 1])
    /\ typed' = typed + 1
    /\ UNCHANGED <<machine, running, stopped, devs, ints>>
=============================================================================
