------------------------------- MODULE MCBoot -------------------------------
(* Small machines to boot: each brings out one part, the last ones all of  *)
(* them together.  A machine is NoMachine with its own fields.             *)
EXTENDS Boot

\* A tag of 8 * n - 3 bytes, and the information they are laid out in.
MCTag(n, image) == [type |-> "module", size |-> 8 * n - 3, image |-> image]
MCTags(list) ==
    LET all == list \o <<[type |-> "end", size |-> 8]>>
        at[n \in 1 .. Len(all)] ==
            IF n = 1 THEN 8 ELSE at[n - 1] + 8 * ((all[n - 1].size + 7) \div 8)
        places == {at[n] : n \in 1 .. Len(all)}
    IN  [o \in places |-> all[CHOOSE n \in 1 .. Len(all) : at[n] = o]]
MCMap == [type |-> "other", size |-> 28]

MCSection(at) == [type |-> "progbits", alloc |-> TRUE, at |-> at]
MCDebug == [type |-> "progbits", alloc |-> FALSE, at |-> 0]
MCTable(kind, info, entries) ==
    [type |-> kind, alloc |-> FALSE, at |-> 0, info |-> info, entries |-> entries]
MCArray(at, count) == [type |-> "init", alloc |-> TRUE, at |-> at, count |-> count]
MCSym(name, shndx, value) == [name |-> name, shndx |-> shndx, value |-> value]
MCRel(at, type, sym, addend) == [at |-> at, type |-> type, sym |-> sym, addend |-> addend]

\* The usual module: nothing to relocate, Init at its beginning.
MCImage(name) ==
    [name |-> name, arch |-> "ia32", elf |-> TRUE, type |-> "rel", base |-> 1000,
     secs |-> <<MCSection(0)>>, syms |-> <<MCSym("Init", 1, 0)>>, words |-> 0 :> 0]

\* hello with a table of each kind, a debug section and an array.
MCRelImage ==
    [MCImage("hello") EXCEPT
        !.secs = <<MCSection(0), MCSection(4), MCArray(7, 2), MCDebug,
                   MCTable("rel", 1, <<MCRel(0, "abs", 2, 0), MCRel(1, "pc", 3, 0),
                                       MCRel(2, "sym", 3, 0), MCRel(3, "gotpc", 3, 0)>>),
                   MCTable("rel", 3, <<MCRel(0, "abs", 1, 0)>>),
                   MCTable("rel", 4, <<MCRel(0, "abs", 4, 0)>>),
                   MCTable("rel", 2, <<MCRel(0, "abs", 3, 0), MCRel(1, "pc", 2, 0)>>)>>,
        !.syms = <<MCSym("Init", 1, 2), MCSym("Data", 2, 1), MCSym("SerialPrint", SHN_UNDEF, 0),
                   MCSym("Nowhere", 4, 0)>>,
        !.words = [c \in 0 .. 8 |-> IF c = 8 THEN 0 ELSE 2 * c + 3]]

MCRelaImage(arch) ==
    [MCImage("hello") EXCEPT
        !.arch = arch,
        !.secs = <<MCSection(0), MCArray(8, 1),
                   MCTable("rela", 1, <<MCRel(0, "abs", 2, 5), MCRel(2, "pc", 3, -4),
                                        MCRel(3, "relative", 0, 1), MCRel(5, "sym", 3, 0),
                                        MCRel(6, "got32", 3, 9)>>),
                   MCTable("rela", 2, <<MCRel(0, "abs", 1, 0)>>)>>,
        !.syms = <<MCSym("Init", 1, 3), MCSym("Version", SHN_ABS, 77),
                   MCSym("NewVNode", SHN_UNDEF, 0)>>,
        !.words = [c \in 0 .. 9 |-> 0]]

MCRel64 ==
    [MCImage("hello") EXCEPT
        !.arch = "amd64",
        !.secs = <<MCSection(0), MCTable("rel", 1, <<MCRel(0, "abs", 2, 0), MCRel(2, "pc", 3, 0),
                                                     MCRel(3, "sym", 3, 0)>>)>>,
        !.syms = <<MCSym("Init", 1, 1), MCSym("Data", 1, 9), MCSym("NewVNode", SHN_UNDEF, 0)>>,
        !.words = [c \in 0 .. 4 |-> c]]

\* Unresolved, the first of two relocations done before it is noticed.
MCBroken ==
    [MCImage("hello") EXCEPT
        !.secs = <<MCSection(0),
                   MCTable("rel", 1, <<MCRel(0, "abs", 1, 0), MCRel(1, "abs", 2, 0)>>)>>,
        !.syms = <<MCSym("Init", 1, 0), MCSym("kreallocarray", SHN_UNDEF, 0)>>,
        !.words = [c \in 0 .. 1 |-> 0]]

MCNames(names) == MCTags([n \in DOMAIN names |-> MCTag(n + 1, MCImage(names[n]))])
-----------------------------------------------------------------------------
MCPad(kbd, mouse) ==
    [kbd |-> kbd, mouse |-> mouse, replaces |-> FALSE, slow |-> FALSE, stuck |-> {},
     config |-> 71, bytes |-> <<>>]
NoMachine ==
    [tags |-> MCTags(<<>>), pci |-> {}, volumes |-> {},
     typing |-> <<>>, cpu |-> "intel", ps2 |-> MCPad(FALSE, FALSE)]

MCDevice(bus, slot, func, multi, aliases) ==
    [class |-> "other", bus |-> bus, slot |-> slot, func |-> func, multi |-> multi,
     aliases |-> aliases]
MCDrive(kind, size, units) == [kind |-> kind, size |-> size, units |-> units, faults |-> FALSE]
MCNone == MCDrive("none", 0, <<>>)
MCFloating == MCDrive("floating", 0, <<>>)
MCRefusing == MCDrive("refusing", 0, <<>>)
MCHung == MCDrive("hung", 0, <<>>)
MCFaulty(d) == [d EXCEPT !.faults = TRUE]
MCNative == <<1, 2, 3, 4, 5>>
MCCompat == <<0, 0, 0, 0, 0>>
MCController(slot, bar, a, b, c, d) ==
    [class |-> "ide", bus |-> 0, slot |-> slot, func |-> 1, multi |-> TRUE, aliases |-> FALSE,
     bar |-> bar, slots |-> (0 :> a @@ 1 :> b @@ 2 :> c @@ 3 :> d)]
MCBridge(slot) == MCDevice(0, slot, 0, TRUE, FALSE)

\* Volumes as mkfs makes them, and what their makers say of them.
MCFloppy ==
    [ZeroSector EXCEPT !.magic = TRUE, !.BytesPerSector = 512, !.SectorsPerCluster = 1,
        !.ReservedSectors = 1, !.FATCount = 2, !.RootDirectoryEntries = 220,
        !.TotalSectorsInVolume = 2880, !.SectorsPerFAT = 9, !.Signature16 = TRUE]
MCFloppyReport(n) ==
    [n |-> n, type |-> "FAT12", fat |-> 1, root |-> 19, data |-> 33, clusters |-> 2847]
MCDisk16 ==
    [ZeroSector EXCEPT !.magic = TRUE, !.BytesPerSector = 512, !.SectorsPerCluster = 4,
        !.ReservedSectors = 1, !.FATCount = 2, !.RootDirectoryEntries = 512,
        !.TotalSectorsInVolume = 20480, !.SectorsPerFAT = 20, !.Signature16 = TRUE]
MCDisk16Report(n) ==
    [n |-> n, type |-> "FAT16", fat |-> 1, root |-> 41, data |-> 73, clusters |-> 5101]
MCDisk32 ==
    [ZeroSector EXCEPT !.magic = TRUE, !.BytesPerSector = 512, !.SectorsPerCluster = 8,
        !.ReservedSectors = 32, !.FATCount = 2, !.ExtendedSectorCount = 600000,
        !.SectorsPerFAT32 = 586, !.Signature32 = TRUE]
MCDisk32Report(n) ==
    [n |-> n, type |-> "FAT32", fat |-> 32, root |-> 1204, data |-> 1204, clusters |-> 74849]
MCTableOf(parts) == [ZeroSector EXCEPT !.magic = TRUE, !.parts = parts]
MCPart(type, lba) == [type |-> type, lba |-> lba]

MCFloppyDrive == MCDrive("ata", 2880, 0 :> MCFloppy)
MCDrive16 == MCDrive("ata", 30000, 0 :> MCTableOf(<<MCPart(131, 40), MCPart(6, 63)>>)
                                   @@ 40 :> MCFloppy @@ 63 :> MCDisk16)
MCDrive32 == MCDrive("ata", 700000, 0 :> MCTableOf(<<MCPart(12, 2048), MCPart(4, 63)>>)
                                    @@ 2048 :> MCDisk32)
MCBlank == MCDrive("ata", 100, <<>>)
MCGrub == MCDrive("ata", 100, 0 :> MCTableOf(<<MCPart(131, 1)>>))
MCDisc == MCDrive("atapi", 100, 0 :> MCFloppy)
MCSilent == [MCDisc EXCEPT !.size = 0]      \* does not say its size
-----------------------------------------------------------------------------
LoaderMachines ==
    {[NoMachine EXCEPT !.tags =
        MCTags(<<MCTag(2, MCRelImage), MCMap, MCTag(5, MCRelaImage("ia32")),
                 MCTag(3, [MCImage("hello") EXCEPT !.elf = FALSE]), MCTag(1, MCRelImage)>>)],
     [NoMachine EXCEPT !.tags =
        MCTags(<<MCMap, MCTag(4, MCRelaImage("amd64")),
                 MCTag(2, MCRel64)>>)],
     [NoMachine EXCEPT !.tags =
        MCTags(<<MCTag(2, MCBroken), MCTag(1, [MCImage("hello") EXCEPT !.type = "exec"]),
                 MCTag(3, [MCRelImage EXCEPT !.syms[1].name = "Main"]),
                 MCTag(2, [MCImage("hello") EXCEPT !.syms[1].shndx = SHN_UNDEF])>>)]}

PCIMachines ==
    {[NoMachine EXCEPT !.tags = MCNames(<<"pci">>), !.pci = functions] :
        functions \in {{}, {MCBridge(0), MCDevice(0, 0, 2, FALSE, FALSE),
                            MCDevice(1, 0, 0, FALSE, TRUE), MCDevice(1, 1, 0, FALSE, FALSE)},
                       {MCBridge(1)} \union {MCDevice(0, 1, f, TRUE, FALSE) : f \in 1 .. 3}
                            \union {MCDevice(1, 1, 0, FALSE, TRUE)}}}

Ide(functions, volumes) ==
    [NoMachine EXCEPT !.tags = MCNames(<<"pci", "ide", "fat">>), !.pci = functions,
                      !.volumes = volumes]

DriveMachines ==
    {Ide({MCBridge(0), MCController(0, MCNative, MCNone, MCDrive16, MCFloating, MCDisc)},
         {MCDisk16Report(0), MCFloppyReport(1)}),
     Ide({MCBridge(0), MCController(0, MCNative, MCDrive32, MCRefusing, MCFloppyDrive, MCBlank)},
         {MCDisk32Report(0), MCFloppyReport(1)}),
     Ide({MCBridge(0), MCController(0, MCNative, MCFaulty(MCDisc), MCNone, MCFaulty(MCDrive16),
                                    MCBlank)}, {}),
     Ide({MCBridge(0), MCController(0, MCNative, MCSilent, MCNone, MCNone, MCFloppyDrive)},
         {MCFloppyReport(1)}),
     Ide({MCBridge(0), MCController(0, MCNative, MCBlank, MCHung, MCNone, MCNone)}, {}),
     Ide({MCBridge(0), MCController(0, MCNative, MCGrub, MCNone, MCNone, MCNone)}, {}),
     Ide({MCBridge(0), MCController(0, MCNative, MCFloppyDrive, MCNone, MCNone, MCNone),
          MCBridge(1), MCController(1, MCNative, MCNone, MCNone, MCBlank, MCNone)}, {}),
     [NoMachine EXCEPT !.tags = MCNames(<<"ide", "fat">>)]}

PadMachines ==
    {[NoMachine EXCEPT !.tags = MCNames(<<"ps2">>),
                       !.ps2 = [MCPad(kbd, mouse) EXCEPT !.replaces = replaces, !.slow = slow]] :
        kbd \in BOOLEAN, mouse \in BOOLEAN, replaces \in BOOLEAN, slow \in BOOLEAN}

MCMoved(v) == [v |-> v, aux |-> TRUE]
MCKey(v) == [v |-> v, aux |-> FALSE]

\* A key typed at any moment, one whose code is an identity among them, and
\* controllers that do not answer.
KeyMachines ==
    {[NoMachine EXCEPT !.tags = MCNames(<<"ps2", "shell">>), !.typing = <<"m", NL>>,
                       !.ps2 = [MCPad(TRUE, mouse) EXCEPT !.replaces = replaces, !.bytes = bytes]] :
        mouse \in BOOLEAN, replaces \in BOOLEAN,
        bytes \in {<<MCKey(3), MCKey(131)>>, <<MCMoved(9), MCKey(3)>>}}
    \union
    {[NoMachine EXCEPT !.tags = MCNames(<<"ps2">>), !.ps2.stuck = s] :
        s \in {{"input"}, {"input", "output"}}}

ShellMachines ==
    {[NoMachine EXCEPT !.tags = MCNames(<<"ps2", "vga", "shell">>), !.typing = keys,
                       !.ps2 = [MCPad(kbd, ~kbd) EXCEPT !.replaces = TRUE, !.bytes = bytes]] :
        keys \in {<<"m", NL, "m", NL, "m", NL, "m", "CR", "l", NL>>, <<"k", NL, "x">>},
        kbd \in BOOLEAN,
        bytes \in {<<MCMoved(8), MCMoved(3), MCMoved(250), MCMoved(9), MCMoved(1)>>,
                   <<MCKey(42), MCKey(29), MCKey(170), MCKey(157), MCKey(30)>>}}
    \union
    {[NoMachine EXCEPT !.tags = MCNames(<<"vga", "shell">>), !.typing = keys] :
        keys \in {<<"a", "b", BS, BS, BS, NL, "x", NL>>, <<"d", NL, "l", NL, "n", NL, "r">>,
                  <<"z", NL>>, <<"u", NL, "d", NL, "u", NL, "l", NL>>,
                  <<"d", NL, "u", NL, "d", NL, "l", NL>>, <<"d", NL, "u", NL, "u", NL>>,
                  <<"d", NL, "u", NL, "n", NL>>, <<"f", NL>>, <<"m", NL>>,
                  <<"a", "b", "c", BS, BS, "d", "e", "f">>, <<"r", NL, "x", "CR", "a", NL>>}}

\* Slow answers can leave both devices with a node.
BothMachines ==
    {[NoMachine EXCEPT !.tags = MCNames(<<"ps2", "shell">>),
                       !.typing = <<"m", NL, "k", NL>>,
                       !.ps2 = [MCPad(TRUE, TRUE) EXCEPT !.replaces = TRUE, !.slow = TRUE,
                                            !.bytes = <<MCMoved(9), MCMoved(4), MCKey(30)>>]]}

\* All of it, as grub.cfg loads it: the drives at the old ports.
WholeMachines ==
    {[NoMachine EXCEPT !.tags = MCNames(<<"hello", "pci", "ide", "fat", "ps2", "vga", "shell">>),
                       !.pci = {MCBridge(0), MCController(0, MCCompat, a, MCNone, MCDisc, MCNone)},
                       !.volumes = {MCFloppyReport(0), MCFloppyReport(1)},
                       !.ps2 = MCPad(TRUE, TRUE), !.typing = <<"n", NL, "x", NL, "l", NL>>,
                       !.cpu = cpu] :
        a \in {MCFloppyDrive}, cpu \in {"amd", "other"}}

MCMachines == LoaderMachines \union PCIMachines \union DriveMachines \union PadMachines
                \union KeyMachines \union ShellMachines \union BothMachines \union WholeMachines
MCKernel == [name \in {"SerialPrint", "NewVNode"} |->
                IF name = "SerialPrint" THEN 700 ELSE 40001]
MCReadings ==
    {[vendor |-> "intel", tjmax |-> 100, away |-> a] : a \in {0, 10, 60}}
    \union {[vendor |-> "amd", valid |-> v, eighths |-> 400] : v \in BOOLEAN}
    \union {[vendor |-> "other"]}
=============================================================================
