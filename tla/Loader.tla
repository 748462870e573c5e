------------------------------- MODULE Loader -------------------------------
(* The module loader (ia32/module.c, amd64/module.c) and the walk over the *)
(* tags of the boot information that feeds it (ia32/arch.c).  A module is  *)
(* a relocatable object: LoadModule patches it in place, calls its Init    *)
(* and then its constructors.  A word of memory has Word values, an        *)
(* address of amd64 takes two words, the low one first.                    *)
EXTENDS Machine

CONSTANTS
    Word,       \* The values of a 32-bit word.
    Kernel,     \* The kernel's symbols: a function from names to addresses.
    TagAlign    \* Tags start at multiples of this (8 bytes).

VARIABLES
    offset,     \* Of the tag LoadModules looks at.
    lphase,     \* "tags", "relocate" or "ctors" (Init called).
    entry,      \* The relocation RelocateModule is at.
    mem,        \* The words of the module being loaded.
    called      \* The addresses LoadModule called, Init first.

loaderVars == <<offset, lphase, entry, mem, called>>

SHN_UNDEF == 0
SHN_ABS == 65521

Tag == machine.tags[offset]
Image == Tag.image

Aligned(size) == ((size + TagAlign - 1) \div TagAlign) * TagAlign

FindKernelSymbol(name) == IF name \in DOMAIN Kernel THEN Kernel[name] ELSE 0

\* Symbol 0 of a table is the nameless undefined one.
Symbol(img, i) ==
    IF i = 0 THEN [name |-> "", shndx |-> SHN_UNDEF, value |-> 0] ELSE img.syms[i]

IsSection(img, shndx) == shndx \in DOMAIN img.secs

\* The relocations in the order of the two loops: sections whose target is
\* not loaded are passed over, and so is what is not REL or RELA.
Relocs(img) ==
    LET Of(s) == IF s.type \in {"rel", "rela"} /\ img.secs[s.info].alloc
                 THEN [j \in DOMAIN s.entries |->
                         [kind |-> s.type, at |-> img.secs[s.info].at + s.entries[j].at,
                          type |-> s.entries[j].type, sym |-> s.entries[j].sym,
                          addend |-> s.entries[j].addend]]
                 ELSE <<>>
        upTo[i \in 0 .. Len(img.secs)] ==
            IF i = 0 THEN <<>> ELSE LET before == upTo[i - 1] IN before \o Of(img.secs[i])
    IN  upTo[Len(img.secs)]

\* A bug: a symbol nobody defines is taken as address 0.
LenientResolve(img, s, abs) ==
    IF IsSection(img, s.shndx) THEN img.base + img.secs[s.shndx].at + s.value
    ELSE FindKernelSymbol(s.name)

\* The address of a symbol; -1 for one that is not resolved.
Resolve(img, s, abs) ==
    IF IsSection(img, s.shndx)
    THEN IF img.secs[s.shndx].alloc
         THEN img.base + img.secs[s.shndx].at + s.value ELSE s.value
    ELSE IF s.shndx = SHN_UNDEF /\ s.name # ""
         THEN IF FindKernelSymbol(s.name) = 0 THEN -1 ELSE FindKernelSymbol(s.name)
    ELSE IF s.shndx = SHN_ABS /\ abs THEN s.value
    ELSE 0

\* The index of a symbol is checked but in ia32's loop over REL, which also
\* does without absolute symbols.
SymAddr32(img, r) ==
    IF r.kind = "rela" /\ r.sym \notin 1 .. Len(img.syms) THEN 0
    ELSE Resolve(img, Symbol(img, r.sym), r.kind = "rela")

SymAddr64(img, r) ==
    IF r.sym \notin 1 .. Len(img.syms) THEN 0
    ELSE Resolve(img, Symbol(img, r.sym), r.kind = "rela")

SymAddr(img, r) == IF img.arch = "ia32" THEN SymAddr32(img, r) ELSE SymAddr64(img, r)

Words(img, r) == IF img.arch = "amd64" /\ r.type # "pc" THEN 2 ELSE 1

Fetch(m, at, words) == IF words = 1 THEN m[at] ELSE m[at] + Word * m[at + 1]

Store(m, at, words, v) ==
    [c \in DOMAIN m |->
        IF c = at THEN v % Word
        ELSE IF c = at + 1 /\ words = 2 THEN (v \div Word) % Word ELSE m[c]]

\* The addend of a REL entry is what the place holds.
Addend(img, r) ==
    IF r.kind = "rela" THEN r.addend ELSE Fetch(mem, r.at, Words(img, r))

\* "abs" is R_386_32 or R_X86_64_64, "pc" PC32 or PLT32, "sym" GLOB_DAT or
\* JUMP_SLOT.  What is not handled is reported and left as it is.
Handled(img, r) ==
    \/ r.type \in {"abs", "pc", "sym"}
    \/ r.type \in {"got32", "copy"} /\ r.kind = "rela" /\ img.arch = "ia32"
    \/ r.type = "relative" /\ r.kind = "rela" /\ (r.sym = 0 \/ img.arch = "amd64")

\* A relocatable file as a linker leaves it: what is relocated has words of
\* its own and stands for nothing, a symbol of the kernel or of a loaded
\* section, or in a RELA table for an absolute one; an Init it has is its own.
Relocations == [kind : {"rel", "rela"}, at : Nat, type : STRING, sym : Nat, addend : Int]
Patch(img, r) == r.at .. (r.at + Words(img, r) - 1)
IsTarget(img, r) ==
    LET s == img.syms[r.sym] IN
    \/ r.sym = 0
    \/ s.shndx = SHN_UNDEF /\ s.name # ""
    \/ s.shndx = SHN_ABS /\ r.kind = "rela"
    \/ IsSection(img, s.shndx) /\ img.secs[s.shndx].alloc
IsImage(img) ==
    /\ img.base \in Nat /\ \A c \in DOMAIN img.words : img.words[c] \in Nat
    /\ DOMAIN img.secs \subseteq 1 .. (SHN_ABS - 1)
    /\ \A n \in DOMAIN img.secs : img.secs[n].at \in Nat
    /\ img.syms \in Seq([name : STRING, shndx : Nat, value : Nat])
    /\ \A n \in DOMAIN img.syms :
        img.syms[n].name = "Init" =>
            IsSection(img, img.syms[n].shndx) \/ img.syms[n].shndx = SHN_UNDEF
    /\ Relocs(img) \in Seq(Relocations)
    /\ \A k \in DOMAIN Relocs(img) :
        LET r == Relocs(img)[k] IN
        /\ r.sym \in 0 .. Len(img.syms) /\ IsTarget(img, r)
        /\ Handled(img, r) =>
            /\ Patch(img, r) \subseteq DOMAIN img.words
            /\ \A j \in DOMAIN Relocs(img) \ {k} :
                Handled(img, Relocs(img)[j]) => Patch(img, r) \cap Patch(img, Relocs(img)[j]) = {}

\* No tag lies in the header, and each but the last ends less than an
\* alignment before the next.
ASSUME LoaderAssumption ==
    /\ Word \in Nat \ {0} /\ TagAlign \in Nat \ {0}
    /\ \A name \in DOMAIN Kernel : Kernel[name] \in Nat
    /\ \A m \in Machines :
        /\ TagAlign \in DOMAIN m.tags
        /\ \A o \in DOMAIN m.tags :
            /\ o % TagAlign = 0 /\ o \in Nat /\ o >= TagAlign /\ m.tags[o].size \in Nat
            /\ m.tags[o].type # "end" =>
                \E p \in DOMAIN m.tags :
                    /\ p - o \in m.tags[o].size .. (m.tags[o].size + TagAlign - 1)
                    /\ \A q \in DOMAIN m.tags : q <= o \/ q >= p
            /\ m.tags[o].type = "module" /\ m.tags[o].image.elf /\ m.tags[o].image.type = "rel"
                => IsImage(m.tags[o].image)

Patched(img, r) ==
    CASE r.type = "relative" -> img.base + r.addend
      [] r.type = "abs" -> SymAddr(img, r) + Addend(img, r)
      [] r.type = "pc" -> SymAddr(img, r) + Addend(img, r) - (img.base + r.at)
      [] OTHER -> SymAddr(img, r)

\* FindSymbol: the first symbol of that name; an undefined one is not there.
FindSymbol(img, name) ==
    LET hits == {i \in DOMAIN img.syms : img.syms[i].name = name} IN
    IF hits = {} THEN 0
    ELSE LET s == img.syms[CHOOSE i \in hits : \A j \in hits : i <= j] IN
         CASE s.shndx = SHN_ABS -> s.value
           [] s.shndx = SHN_UNDEF -> 0
           [] IsSection(img, s.shndx) -> img.base + img.secs[s.shndx].at + s.value
           [] OTHER -> img.base + s.value

\* The words of the loaded arrays of constructors, without the null ones.
Constructors(img) ==
    LET words == IF img.arch = "amd64" THEN 2 ELSE 1
        In(s) == [c \in 1 .. s.count |-> Fetch(mem, s.at + (c - 1) * words, words)]
        upTo[i \in 0 .. Len(img.secs)] ==
            IF i = 0 THEN <<>>
            ELSE LET before == upTo[i - 1]
                     s == img.secs[i]
                 IN  before \o IF s.type = "init" /\ s.alloc THEN In(s) ELSE <<>>
    IN  SelectSeq(upTo[Len(img.secs)], LAMBDA f : f # 0)
-----------------------------------------------------------------------------
LoaderInit ==
    /\ offset = TagAlign           \* behind the header of the information
    /\ lphase = "tags"
    /\ entry = 0
    /\ mem = <<>>
    /\ called = <<>>

Loading(ph) == Going /\ running = "loader" /\ lphase = ph

NextTag == offset' = offset + Aligned(Tag.size)

\* LoadModules stops at the tag of type 0 and skips what is no module.
EndOfTags ==
    /\ Loading("tags") /\ Tag.type = "end"
    /\ running' = "kmain"
    /\ UNCHANGED <<loaderVars, machine, stopped, devs, uart, typed, ints>>

SkipTag ==
    /\ Loading("tags") /\ Tag.type = "other"
    /\ NextTag
    /\ UNCHANGED <<lphase, entry, mem, called, shared>>

\* LoadModule: only a relocatable ELF file is taken.
OpenModule ==
    /\ Loading("tags") /\ Tag.type = "module" /\ Image.elf /\ Image.type = "rel"
    /\ lphase' = "relocate" /\ entry' = 1
    /\ mem' = Image.words
    /\ called' = <<>>
    /\ UNCHANGED <<offset, shared>>

RejectModule ==
    /\ Loading("tags") /\ Tag.type = "module" /\ ~(Image.elf /\ Image.type = "rel")
    /\ NextTag
    /\ UNCHANGED <<lphase, entry, mem, called, shared>>

\* One turn of RelocateModule's inner loops.
Relocate ==
    /\ Loading("relocate") /\ entry <= Len(Relocs(Image))
    /\ LET r == Relocs(Image)[entry] IN
       /\ SymAddr(Image, r) # -1
       /\ mem' = IF Handled(Image, r)
                 THEN Store(mem, r.at, Words(Image, r), Patched(Image, r)) ELSE mem
    /\ entry' = entry + 1
    /\ UNCHANGED <<offset, lphase, called, shared>>

\* An unresolved symbol: the module is left as it is, the next tag follows.
Unresolved ==
    /\ Loading("relocate") /\ entry <= Len(Relocs(Image))
    /\ SymAddr(Image, Relocs(Image)[entry]) = -1
    /\ lphase' = "tags" /\ NextTag
    /\ UNCHANGED <<entry, mem, called, shared>>

\* All entries done: Init is looked up and, if there is one, called.
CallInit ==
    /\ Loading("relocate") /\ entry > Len(Relocs(Image))
    /\ LET init == FindSymbol(Image, "Init") IN
       IF init # 0
       THEN called' = <<init>> /\ running' = Image.name
       ELSE UNCHANGED <<called, running>>
    /\ lphase' = "ctors"
    /\ UNCHANGED <<offset, entry, mem, machine, stopped, devs, uart, typed, ints>>

\* The constructors come after Init, whatever it returned.
CallConstructors ==
    /\ Loading("ctors")
    /\ called' = called \o Constructors(Image)
    /\ lphase' = "tags" /\ NextTag
    /\ UNCHANGED <<entry, mem, shared>>

LoaderNext ==
    \/ EndOfTags \/ SkipTag \/ OpenModule \/ RejectModule
    \/ Relocate \/ Unresolved \/ CallInit \/ CallConstructors
-----------------------------------------------------------------------------
\* What the ABI says a relocation stands for, from the file's own words.
Meaning(img, r) ==
    LET s == Symbol(img, r.sym)
        S == IF r.sym = 0 THEN 0
             ELSE IF s.shndx = SHN_ABS THEN s.value
             ELSE IF s.shndx = SHN_UNDEF THEN FindKernelSymbol(s.name)
             ELSE img.base + img.secs[s.shndx].at + s.value
        A == IF r.kind = "rela" THEN r.addend
             ELSE Fetch(img.words, r.at, Words(img, r))
    IN  CASE r.type = "relative" -> img.base + A
          [] r.type = "abs" -> S + A
          [] r.type = "pc" -> S + A - (img.base + r.at)
          [] OTHER -> S

Linked(img, m) ==
    /\ \A i \in DOMAIN Relocs(img) :
        LET r == Relocs(img)[i] IN
        Handled(img, r) =>
            Fetch(m, r.at, Words(img, r))
                = Meaning(img, r) % (IF Words(img, r) = 2 THEN Word * Word ELSE Word)
    /\ \A i \in DOMAIN Relocs(img) :
        Symbol(img, Relocs(img)[i].sym).shndx = SHN_UNDEF /\ Relocs(img)[i].sym # 0
            => Symbol(img, Relocs(img)[i].sym).name \in DOMAIN Kernel

(* A module's code runs only when every one of its relocations, whose      *)
(* addends a second pass would read wrong, says what the ABI says, against *)
(* a kernel that has all its symbols; what is called first is its Init.    *)
(* (RelocateModule, FindSymbol, CallConstructors.)                         *)
InitRunsLinked ==
    called # <<>> /\ lphase = "ctors" =>
        /\ Image.elf /\ Image.type = "rel"
        /\ Linked(Image, mem)
        /\ \E i \in DOMAIN Image.syms :
            LET s == Image.syms[i] IN
            /\ s.name = "Init" /\ IsSection(Image, s.shndx)
            /\ called[1] = Image.base + Image.secs[s.shndx].at + s.value
=============================================================================
