------------------------------- MODULE Shell -------------------------------
(* The terminal and the shell (kernel/vfs/dev/serial.c,                    *)
(* modules/shell/main.c), what its commands call in other modules, and     *)
(* kmain after it (kernel/kmain.c).  A command with its argument is one    *)
(* character here: "m" is `type /dev/ps2_mouse', Menu lists them.          *)
EXTENDS FATMount, PS2, SequencesExt

CONSTANTS
    BufSize,    \* 256 in the shell, 15 in kmain
    Readings,   \* What the sensors of the processors may say
    SampleDelay \* 1000

ASSUME BufSizeAssumption == BufSize \in Nat \ {0}

VARIABLES
    sh,         \* "off", "prompt", "read", "run", "type", "exit"
    i, buf,     \* SerialReadFunction's index and buffer; buf[-1] lies before
    text,       \* The characters of this read, as taken from the port.
    cwd,        \* The task's BaseDir: "root", "dev", null ("none") or "wild"
    wait,       \* kmain's WaitTimeRemaining, -1 before the first sample
    every       \* kmain's SampleDelay

ttyVars == <<i, buf, text>>
kmVars == <<wait, every>>

NUL == "0"
NL == "NL"
BS == "BS"
EmptyBuffer == [c \in -1 .. BufSize - 1 |-> NUL]

Menu ==
    "n" :> [cmd |-> "type", kind |-> "null"] @@ "r" :> [cmd |-> "type", kind |-> "random"]
    @@ "m" :> [cmd |-> "type", kind |-> "mouse"] @@ "k" :> [cmd |-> "type", kind |-> "kbd"]
    @@ "f" :> [cmd |-> "type", kind |-> "framebuffer"]
    @@ "d" :> [cmd |-> "cd", to |-> "dev"] @@ "u" :> [cmd |-> "cd", to |-> "up"]
    @@ "z" :> [cmd |-> "cd", to |-> "missing"]
    @@ "l" :> [cmd |-> "ls"] @@ "x" :> [cmd |-> "exit"]

\* Parse and the comparisons of SystemCommand, up to the first NUL: what is
\* not on the menu does nothing.
Command == IF buf[0] \in DOMAIN Menu /\ (BufSize = 1 \/ buf[1] = NUL)
           THEN Menu[buf[0]] ELSE [cmd |-> "none"]
-----------------------------------------------------------------------------
ShellInit ==
    /\ sh = "off"
    /\ i = 0 /\ buf = EmptyBuffer /\ text = <<>>
    /\ cwd = "root"
    /\ wait = -1 /\ every = SampleDelay

Reading == Going /\ sh = "read"

\* Before a line: the shell clears its buffer; kmain's is clear.
Prompt ==
    /\ Going /\ running \in {"shell", "kmain"} /\ sh \in {"off", "prompt"}
    /\ running = "kmain" => wait < 0
    /\ sh' = "read"
    /\ i' = 0 /\ buf' = EmptyBuffer /\ text' = <<>>
    /\ UNCHANGED <<cwd, kmVars, shared>>

\* A bug: the index goes back by one, and then on by one.
ShortStep(c) ==
    IF c = BS /\ i > 0 THEN [at |-> i, buf |-> buf]
    ELSE [at |-> i + 1, buf |-> [buf EXCEPT ![i] = c]]

\* One character of SerialReadFunction that does not end the line.  After a
\* backspace i is one less; the character before the erased one is cleared.
Edit(c) ==
    IF c = BS /\ i > 0 THEN [at |-> i - 1, buf |-> [buf EXCEPT ![i - 2] = NUL]]
    ELSE [at |-> i + 1, buf |-> [buf EXCEPT ![i] = c]]

TtyRead ==
    /\ Reading /\ uart # <<>> /\ i < BufSize
    /\ LET c == IF Head(uart) = "CR" THEN NL ELSE Head(uart) IN
       IF c = NL
       THEN sh' = "run" /\ UNCHANGED ttyVars
       ELSE /\ i' = Edit(c).at /\ buf' = Edit(c).buf
            /\ text' = Append(text, c)
            /\ sh' = IF Edit(c).at = BufSize THEN "run" ELSE sh
    /\ uart' = Tail(uart)
    /\ UNCHANGED <<cwd, kmVars, machine, running, stopped, devs, typed, ints>>

\* SerialWaitForInput halts until an interrupt; with the flag off for good.
TtyHalt ==
    /\ Reading /\ uart = <<>> /\ ~ints
    /\ stopped' = "halted"
    /\ UNCHANGED <<sh, ttyVars, cwd, kmVars, machine, running, devs, uart, typed, ints>>
-----------------------------------------------------------------------------
Running(cmd) == Going /\ running = "shell" /\ sh = "run" /\ Command.cmd = cmd
shRest == <<ttyVars, kmVars, machine, devs, uart, typed>>

Placed == cwd \in {"root", "dev"}
Wild == stopped' = "wild" /\ UNCHANGED ints
GoesOn(state) == sh' = state /\ UNCHANGED <<stopped, ints>>

\* The root is its own parent and no other node has one: RelativeFind then
\* reads the flags at null, and returns null or what lies there as a link.
Up == IF cwd = "root" THEN {"root"} ELSE {"none", "wild"}

ShellNothing ==
    /\ Running("none") /\ sh' = "prompt"
    /\ UNCHANGED <<cwd, running, stopped, ints, shRest>>

\* chdir looks up from the current directory, which must not be null, and
\* stores what it finds; a missing name is a panic of RelativeFind.  The
\* path of "dev" begins at the root, wherever the current directory is.
ShellCd ==
    /\ Running("cd")
    /\ \/ (cwd = "none" \/ Command.to = "missing") /\ Panic /\ UNCHANGED <<cwd, sh>>
       \/ cwd # "none" /\ Command.to = "dev" /\ cwd' = "dev" /\ GoesOn("prompt")
       \/ Placed /\ Command.to = "up" /\ cwd' \in Up /\ GoesOn("prompt")
       \/ cwd = "wild" /\ Command.to = "up" /\ Wild /\ UNCHANGED <<cwd, sh>>
    /\ UNCHANGED <<running, shRest>>

\* The current directory is used unlooked at: its function is called.
ShellLs ==
    /\ Running("ls")
    /\ IF Placed THEN GoesOn("prompt") ELSE Wild /\ UNCHANGED sh
    /\ UNCHANGED <<cwd, running, shRest>>

\* random writes four bytes where there is room for one; a missing name and
\* the framebuffer's read panic.  PS/2's are read until they give nothing.
ShellType ==
    /\ Running("type")
    /\ \/ ~Placed /\ Wild /\ UNCHANGED sh
       \/ /\ Placed /\ (Nodes(Command.kind) = {} \/ Command.kind = "framebuffer")
          /\ Panic /\ UNCHANGED sh
       \/ /\ Placed /\ Nodes(Command.kind) # {}
          /\ \/ Command.kind \in {"null", "random"} /\ GoesOn("prompt")
             \/ Command.kind = "random" /\ Wild /\ sh' = "prompt"
             \/ Command.kind \in {"mouse", "kbd"} /\ GoesOn("type")
    /\ UNCHANGED <<cwd, running, shRest>>

\* ps2_mouse_read for one byte: that of the flags of a complete packet.
TypeMouse ==
    /\ Going /\ sh = "type" /\ Command.kind = "mouse"
    /\ \E got \in BOOLEAN : MouseRead(got) /\ sh' = IF got THEN "type" ELSE "prompt"
    /\ UNCHANGED <<line, config, sent, shifted, ctrl, cwd, running, stopped, shRest>>

\* ps2_keyboard_read echoes the first character through the default write
\* function of a node, which panics.
TypeKeyboard ==
    /\ Going /\ sh = "type" /\ Command.kind = "kbd"
    /\ \E hit \in BOOLEAN :
        /\ KeyFetch(hit)
        /\ IF hit THEN Panic ELSE ints' = TRUE /\ UNCHANGED stopped
    /\ UNCHANGED <<line, config, sent, packet_index, packet_data, sh, cwd, running, shRest>>

ShellExit ==
    /\ Running("exit")
    /\ Return
    /\ sh' = "off"
    /\ UNCHANGED <<cwd, stopped, ints, shRest>>

ShellNext ==
    \/ ShellNothing \/ ShellCd \/ ShellLs \/ ShellType \/ ShellExit
-----------------------------------------------------------------------------
\* kmain has its line: the loop over the temperature begins.
KmainLine ==
    /\ Going /\ running = "kmain" /\ sh = "run"
    /\ wait' = 0 /\ sh' = "off"
    /\ UNCHANGED <<ttyVars, cwd, every, shared>>

\* ArchGetTemperatureMC: -1 where there is no sensor, where an AMD one is not
\* valid and where an Intel one is 0 degrees away from the highest.
ArchGetTemperatureMC(r) ==
    CASE r.vendor = "intel" /\ r.away # 0 -> (r.tjmax - r.away) * 1000
      [] r.vendor = "amd" /\ r.valid -> r.eighths * 125
      [] OTHER -> -1

Forever == SampleDelay + 1      \* SampleDelay = -1, the largest value.

\* One turn: a sample when the time is up, and a critical one is the end.
\* A reading of -1, on Intel also that of the highest temperature, makes
\* the delay the largest there is, whatever is read later.
KmainSample ==
    /\ Going /\ running = "kmain" /\ wait = 0
    /\ \E r \in {s \in Readings : s.vendor = machine.cpu} :
        LET t == ArchGetTemperatureMC(r) IN
        /\ IF t > 85000 THEN Panic ELSE UNCHANGED <<stopped, ints>>
        /\ every' = IF t = -1 THEN Forever ELSE every
        /\ wait' = every'
    /\ UNCHANGED <<sh, ttyVars, cwd, machine, running, devs, uart, typed>>

KmainWait ==
    /\ Going /\ running = "kmain" /\ wait > 0
    /\ wait' = wait - 1
    /\ UNCHANGED <<sh, ttyVars, cwd, every, shared>>
-----------------------------------------------------------------------------
\* What an editor would have: a backspace takes the last character, on an
\* empty line it is one.
Retyped(s, c) == IF c = BS /\ s # <<>> THEN SubSeq(s, 1, Len(s) - 1) ELSE Append(s, c)
Edited == FoldLeft(Retyped, <<>>, text)

(* While a line is read, the index is the length of the text as edited and *)
(* every cell below it holds its character, but that a backspace may have  *)
(* cleared the cell before the one it erased; no character of a line       *)
(* without backspaces is lost.  (SerialReadFunction.)                      *)
LineAsEdited ==
    /\ i = Len(Edited)
    /\ \A c \in 1 .. i :
        \/ buf[c - 1] = Edited[c]
        \/ buf[c - 1] = NUL /\ BS \in {text[k] : k \in DOMAIN text}
=============================================================================
