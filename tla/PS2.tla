-------------------------------- MODULE PS2 --------------------------------
(* The PS/2 module (modules/ps2/main.c).  Its Init talks to the controller *)
(* with interrupts off; the conversation is a script of the routines it    *)
(* calls one after another, each line one access, one wait or a loop of    *)
(* reads, with the line to go on at when it fails.  Nothing keeps a device *)
(* from sending bytes of its own meanwhile.  After Init the two read       *)
(* functions take bytes from the same output buffer, which holds those of  *)
(* both devices, every one marked with the device it came from.            *)
EXTENDS Machine

VARIABLES
    line,           \* Of the script; 0 before and after Init.
    out,            \* The controller's output: bytes not read yet.
    config,         \* Its configuration byte.
    moved,          \* How many bytes the devices have sent unasked.
    unasked,        \* History: one of them came while Init ran.
    packet_index, packet_data,
    recent,         \* The mouse's last bytes taken out, up to three.
    shifted, ctrl

sent == <<moved, unasked>>
padVars == <<packet_index, packet_data, recent, shifted, ctrl>>
ps2Vars == <<line, out, config, sent, padVars>>

ACK == 250
AnyByte == 0 .. 255
Bit(v, b) == (v \div 2 ^ b) % 2 = 1
SetBit(v, b) == IF Bit(v, b) THEN v ELSE v + 2 ^ b

Do(op, v, fail) == [op |-> op, v |-> v, fail |-> fail]

\* "cmd" is ps2_write_command, "key" ps2_write_data, "aux" a byte to port
\* 2, "need" ps2_wait_output, "get" ps2_read_data and what is accepted;
\* "drain" reads while the buffer is full, "flush" while a wait finds it so.
KeyboardPresent ==
    <<Do("drain", 0, ""),
      Do("key", 238, ""), Do("need", 0, "mouse"), Do("get", {238}, "mouse"),
      Do("key", 255, ""), Do("need", 0, "mouse"), Do("get", {ACK}, "mouse"),
      Do("need", 0, "mouse"), Do("get", {170}, "mouse")>>

KeyboardInitialise ==
    <<Do("cmd", 174, ""),
      Do("key", 255, ""), Do("need", 0, "node"), Do("get", {ACK, 170}, "node"),
      Do("flush", 0, ""), Do("key", 240, ""), Do("key", 2, ""), Do("key", 244, ""),
      Do("key", 243, ""), Do("key", 32, "")>>

\* A bug: any identity is good enough.
LaxMousePresent ==
    <<Do("cmd", 168, ""), Do("cmd", 32, ""), Do("need", 0, "done"),
      Do("cmd", 32, ""), Do("config", 0, ""),
      Do("cmd", 169, ""), Do("need", 0, "done"), Do("get", {0}, "done"),
      Do("aux", 242, ""), Do("need", 0, "done"), Do("get", {ACK}, "done"),
      Do("need", 0, "done"), Do("get", AnyByte, "done"), Do("opt", 0, "")>>

MousePresent ==
    <<Do("cmd", 168, ""), Do("cmd", 32, ""), Do("need", 0, "done"),
      Do("cmd", 32, ""), Do("config", 0, ""),
      Do("cmd", 169, ""), Do("need", 0, "done"), Do("get", {0}, "done"),
      Do("aux", 242, ""), Do("need", 0, "done"), Do("get", {ACK}, "done"),
      Do("need", 0, "done"), Do("get", {0, 3, 4}, "done"), Do("opt", 0, "")>>

MouseInitialise ==
    <<Do("cmd", 168, ""), Do("aux", 255, ""), Do("opt", 0, ""),
      Do("aux", 244, ""), Do("opt", 0, ""), Do("aux", 243, ""), Do("opt", 0, ""),
      Do("aux", 100, ""), Do("opt", 0, "")>>

ForKeyboard == KeyboardPresent \o KeyboardInitialise \o <<Do("node", "kbd", "")>>
Script == ForKeyboard \o MousePresent \o MouseInitialise
              \o <<Do("node", "mouse", ""), Do("sti", 0, "")>>
Step == Script[line]
Target(name) == CASE name = "node" -> Len(ForKeyboard)
                  [] name = "mouse" -> Len(ForKeyboard) + 1
                  [] name = "done" -> Len(Script)

\* External: what the devices answer.  A second answer of the controller
\* queues behind the first, or takes the place of what was not read.
Byte(v, aux) == [v |-> v, aux |-> aux]
FromKeyboard(v) ==
    IF ~machine.ps2.kbd THEN <<>>
    ELSE CASE v = 238 -> <<Byte(238, FALSE)>>
           [] v = 255 -> <<Byte(ACK, FALSE), Byte(170, FALSE)>>
           [] OTHER -> <<Byte(ACK, FALSE)>>
FromMouse(v) ==
    IF ~machine.ps2.mouse THEN <<>>
    ELSE CASE v = 242 -> <<Byte(ACK, TRUE), Byte(0, TRUE)>>
           [] v = 255 -> <<Byte(ACK, TRUE), Byte(170, TRUE), Byte(0, TRUE)>>
           [] OTHER -> <<Byte(ACK, TRUE)>>
Replaced(b) == <<b>> \o SubSeq(out, 2, Len(out))
FromController(v) ==
    LET answer == Byte(IF v = 32 THEN config ELSE 0, FALSE) IN
    IF v \notin {32, 169} THEN out
    ELSE IF machine.ps2.replaces THEN Replaced(answer) ELSE Append(out, answer)

\* External: a status bit that stays set, where no controller answers or it
\* hangs: reads find no end of bytes, writes never a free input buffer.
Writable == "input" \notin machine.ps2.stuck
Readable == "output" \notin machine.ps2.stuck

Goto(l) == line' = l
ps2Rest == <<machine, stopped, uart, typed>>
Scripted(op) == Going /\ running = "ps2" /\ line > 0 /\ Step.op = op
-----------------------------------------------------------------------------
PS2Init ==
    /\ line = 0
    /\ out = <<>>
    /\ config = machine.ps2.config
    /\ moved = 0 /\ unasked = FALSE
    /\ packet_index = 0 /\ packet_data = <<0, 0, 0>> /\ recent = <<>>
    /\ shifted = FALSE /\ ctrl = FALSE

PS2Start ==
    /\ Going /\ running = "ps2" /\ line = 0
    /\ ints' = FALSE
    /\ Goto(1)
    /\ UNCHANGED <<out, config, sent, padVars, running, devs, ps2Rest>>

\* A command or a byte for a device is written, once the controller takes
\* it, and answered; "opt" takes an answer if there is one.
PS2Write ==
    /\ \/ Scripted("cmd") /\ Writable /\ out' = FromController(Step.v)
       \/ Scripted("key") /\ Writable /\ out' = out \o FromKeyboard(Step.v)
       \/ Scripted("aux") /\ Writable /\ out' = out \o FromMouse(Step.v)
       \/ Scripted("opt") /\ out # <<>> /\ out' = Tail(out)
       \/ Scripted("opt") /\ (out = <<>> \/ machine.ps2.slow) /\ UNCHANGED out
    /\ Goto(line + 1)
    /\ UNCHANGED <<config, sent, padVars, ints, running, devs, ps2Rest>>

\* One turn of a loop that empties the buffer.
PS2Drain ==
    /\ \/ (Scripted("drain") \/ Scripted("flush")) /\ out # <<>>
          /\ out' = Tail(out) /\ UNCHANGED line
       \/ Scripted("drain") /\ out = <<>> /\ Readable /\ Goto(line + 1) /\ UNCHANGED out
       \/ Scripted("flush") /\ (out = <<>> \/ machine.ps2.slow)
          /\ Goto(line + 1) /\ UNCHANGED out
    /\ UNCHANGED <<config, sent, padVars, ints, running, devs, ps2Rest>>

\* A bug: the wait has no bound.
WaitForever ==
    /\ Scripted("need") /\ out # <<>> /\ Goto(line + 1)
    /\ UNCHANGED <<out, config, sent, padVars, ints, running, devs, ps2Rest>>

\* ps2_wait_output: an answer of a slow device may come too late.
PS2Wait ==
    /\ Scripted("need")
    /\ \/ out # <<>> /\ Goto(line + 1)
       \/ (out = <<>> \/ machine.ps2.slow) /\ Goto(Target(Step.fail))
    /\ UNCHANGED <<out, config, sent, padVars, ints, running, devs, ps2Rest>>

PS2Get ==
    /\ Scripted("get") /\ out # <<>>
    /\ Goto(IF Head(out).v \in Step.v THEN line + 1 ELSE Target(Step.fail))
    /\ out' = Tail(out)
    /\ UNCHANGED <<config, sent, padVars, ints, running, devs, ps2Rest>>

\* The configuration read back with bit 5 set is written, whatever byte it
\* was that came first.
PS2Config ==
    /\ Scripted("config") /\ out # <<>>
    /\ config' = SetBit(Head(out).v, 5)
    /\ out' = Tail(out)
    /\ Goto(line + 1)
    /\ UNCHANGED <<sent, padVars, ints, running, devs, ps2Rest>>

PS2Node ==
    /\ Scripted("node")
    /\ Register([name |-> Step.v, kind |-> Step.v])
    /\ Goto(line + 1)
    /\ UNCHANGED <<out, config, sent, padVars, ints, running, ps2Rest>>

\* A bug: without a mouse Init returns before ArchSti.
EarlyReturn ==
    /\ Scripted("sti")
    /\ ints' = (Nodes("mouse") # {})
    /\ Return
    /\ Goto(0)
    /\ UNCHANGED <<out, config, sent, padVars, devs, ps2Rest>>

PS2Return ==
    /\ Scripted("sti")
    /\ ints' = TRUE
    /\ Return
    /\ Goto(0)
    /\ UNCHANGED <<out, config, sent, padVars, devs, ps2Rest>>

PS2Next ==
    PS2Start \/ PS2Write \/ PS2Drain \/ PS2Wait \/ PS2Get \/ PS2Config \/ PS2Node \/ PS2Return
-----------------------------------------------------------------------------
\* External: a byte nobody asked for, of a key at any time, or of the mouse
\* once MouseInitialise has enabled its reports.
Reporting == Nodes("mouse") # {} \/ line > Len(ForKeyboard \o MousePresent) + 4
Reports ==
    /\ moved < Len(machine.ps2.bytes)
    /\ LET b == machine.ps2.bytes[moved + 1] IN
       /\ IF b.aux THEN machine.ps2.mouse /\ Reporting ELSE machine.ps2.kbd
       /\ out' = Append(out, b)
    /\ moved' = moved + 1
    /\ unasked' = (unasked \/ line > 0)
    /\ UNCHANGED <<line, config, padVars, ints, running, devs, ps2Rest>>

\* A bug: the packet is complete one byte too late.
LateIndex(index) == IF index + 1 > 3 THEN 0 ELSE index + 1

\* The index after a byte has been stored.
NextIndex(index) == IF index + 1 >= 3 THEN 0 ELSE index + 1

Takes(v) == LET all == Append(recent, v) IN
            recent' = SubSeq(all, IF Len(all) > 3 THEN 2 ELSE 1, Len(all))

(* ps2_read_mouse_packet: interrupts go off, and come back only when the   *)
(* byte was stored and the packet is not complete.  Each branch names what *)
(* the function returns.                                                   *)
MouseByte == out # <<>> /\ Head(out).aux

Nothing(got) ==
    /\ ~got
    /\ \/ ~MouseByte /\ UNCHANGED <<out, recent>>
       \/ /\ MouseByte /\ packet_index = 0 /\ ~Bit(Head(out).v, 3)
          /\ out' = Tail(out) /\ Takes(Head(out).v)
    /\ ints' = FALSE
    /\ UNCHANGED <<packet_index, packet_data>>

Stored(got) ==
    /\ MouseByte /\ (packet_index = 0 => Bit(Head(out).v, 3))
    /\ packet_data' = [packet_data EXCEPT ![packet_index + 1] = Head(out).v]
    /\ packet_index' = NextIndex(packet_index)
    /\ got = (packet_index + 1 >= 3)
    /\ out' = Tail(out) /\ Takes(Head(out).v)
    /\ ints' = ~got

MouseRead(got) == Nothing(got) \/ Stored(got)

(* One call of ps2_keyboard_fetch: bytes of the mouse are thrown away, the *)
(* keys that shift are remembered, any other key pressed is a hit.         *)
KeyFetch(hit) ==
    LET here == out # <<>>
        code == Head(out).v
        kbd == here /\ ~Head(out).aux
    IN  /\ out' = IF here THEN Tail(out) ELSE out
        /\ shifted' = IF kbd /\ code \in {42, 54} THEN TRUE
                      ELSE IF kbd /\ code \in {170, 182} THEN FALSE ELSE shifted
        /\ ctrl' = IF kbd /\ code = 29 THEN TRUE
                   ELSE IF kbd /\ code = 157 THEN FALSE ELSE ctrl
        /\ hit = (kbd /\ code < 128 /\ code \notin {42, 54, 29})
        /\ IF here /\ ~kbd THEN Takes(code) ELSE UNCHANGED recent
-----------------------------------------------------------------------------
(* Unless a device sends a byte of its own while Init runs, a node of the  *)
(* module stands for a device that is there: no answer of the other device,*)
(* of the controller or to an earlier question is taken for the one a      *)
(* detection waits for.  (A key typed meanwhile can be: the digit 2 is     *)
(* scancode 3, the identity of a mouse with a wheel.)                      *)
Ps2NodesReal ==
    ~unasked =>
        /\ Nodes("kbd") # {} => machine.ps2.kbd
        /\ Nodes("mouse") # {} => machine.ps2.mouse

(* Without a mouse node to read, interrupts are on whenever other code than*)
(* the module's Init runs: no path of the detection or of the keyboard     *)
(* leaves them off, and with them the timer that every wait depends on.    *)
InterruptsComeBack ==
    Going /\ running # "ps2" /\ Nodes("mouse") = {} => ints

(* Without a keyboard to read, which throws the mouse's bytes away, what   *)
(* has been collected of a packet is the last the mouse sent, no byte lost *)
(* or kept from before, and begins with the mark of a first one; a packet  *)
(* that is complete waits for nothing.  (ps2_read_mouse_packet.)           *)
PacketsFramed ==
    /\ packet_index \in 0 .. 2
    /\ packet_index > 0 /\ Nodes("kbd") = {} =>
        /\ Bit(packet_data[1], 3)
        /\ \A b \in 1 .. packet_index :
            packet_data[b] = recent[Len(recent) - packet_index + b]
=============================================================================
