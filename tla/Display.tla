------------------------------- MODULE Display -------------------------------
(***************************************************************************)
(* The messages on the display (display.c), with thread_io (main.c).       *)
(*                                                                         *)
(* Every thread announces what happens with WriteDisplayBuf, which puts    *)
(* the text and a 0 into a ring of MAXDISPLAYBUFFER bytes; GestDisplay, on *)
(* thread_io, takes one text out of it with ReadDisplayBuf, lets it stand  *)
(* for ten seconds and takes the next.  The writers keep each other out    *)
(* with a flag that is tested and then set; nothing keeps the reader out,  *)
(* and displaybuffercount, which both sides change, is read and written    *)
(* back in two steps.                                                      *)
(*                                                                         *)
(* thread_io also writes messages, those of the power supply.              *)
(* Time is left open: the ten seconds are over at some moment, and a       *)
(* writer that waits for the flag gives up after any number of looks at it.*)
(***************************************************************************)
EXTENDS Integers, Sequences, FiniteSets

CONSTANTS
    Writer,       \* the threads that write messages besides thread_io
    Cells,        \* MAXDISPLAYBUFFER
    Chars,        \* the length of a message
    Longest,      \* how many characters of one ReadDisplayBuf takes (65)
    MaxMessages   \* how many messages are written

ASSUME DisplayAssumption ==
    /\ IsFiniteSet(Writer) /\ "io" \notin Writer
    /\ Cells \in Nat \ {0} /\ Chars \in Nat \ {0} /\ Longest \in Nat \ {0}
    /\ MaxMessages \in Nat

Thread == Writer \cup {"io"}
End == <<0, 0>>                              \* the terminator

(* Mutant: the text goes into the ring without its 0. *)
MessageUnended(m) == [i \in 1..(Chars + 1) |-> <<m, i>>]

Message(m) == [i \in 1..(Chars + 1) |-> IF i <= Chars THEN <<m, i>> ELSE End]
Text(m) == SubSeq(Message(m), 1, Chars)
Next1(i) == (i + 1) % Cells

VARIABLES
    buffer,   \* displaybuffer
    in, out,  \* displaybufferin, displaybufferout
    count,    \* displaybuffercount
    flag,     \* flagWriteDisplayBuf
    pc,       \* where each thread is
    msg, pos, \* the message it writes and the character it is at
    old,      \* displaybuffercount as it was when the thread read it
    text,     \* tmpbuffer
    newmsg,   \* displaynewmsg
    status,   \* the first line shows the status, not a message
    written,  \* how many messages there were so far
    \* what is observed, and influences nothing:
    due,      \* the messages in the ring, in their order
    spoilt,   \* accesses met, or the ring was full, and it was not read empty since
    garbled   \* a message was not shown as it was written though nothing spoilt it

ringVars == <<buffer, in, out, count>>
readVars == <<text, newmsg, status>>
ghosts == <<due, spoilt, garbled>>
vars == <<ringVars, flag, pc, msg, pos, old, readVars, written, ghosts>>

Place == {"idle", "wait", "set", "put", "wrap", "inc", "loop", "read", "dec"}
Goto(t, p) == pc' = [pc EXCEPT ![t] = p]
At(t, p) == pc[t] = p

Inside(t) == pc[t] \in {"set", "put", "wrap", "inc", "read", "dec"}
(* A thread that enters the ring meets another there. *)
Meets(t) == \E u \in Thread \ {t} : Inside(u)
Touch(spoils) ==
    /\ spoilt' = (spoilt \/ spoils)
    /\ due' = IF spoilt' THEN <<>> ELSE due

-----------------------------------------------------------------------------
(* WriteDisplayBuf *)

Call(t) ==
    /\ written' = written + 1
    /\ msg' = [msg EXCEPT ![t] = written + 1]
    /\ Goto(t, "wait")

Announce(t) ==
    /\ t \in Writer /\ At(t, "idle")
    /\ written < MaxMessages
    /\ Call(t)
    /\ UNCHANGED <<ringVars, flag, pos, old, readVars, ghosts>>

(* thread_io goes on with GestDisplay after its last message. *)
Return(t) ==
    /\ Goto(t, IF t = "io" THEN "loop" ELSE "idle")
    /\ msg' = [msg EXCEPT ![t] = 0] /\ pos' = [pos EXCEPT ![t] = 1]
    /\ old' = [old EXCEPT ![t] = 0]

(* The flag stays set in a hundred looks at it. *)
GiveUp(t) ==
    /\ At(t, "wait") /\ flag
    /\ Return(t)
    /\ UNCHANGED <<ringVars, flag, readVars, written, ghosts>>

SeeFree(t) ==
    /\ At(t, "wait") /\ ~flag
    /\ Goto(t, "set")
    /\ Touch(Meets(t))
    /\ UNCHANGED <<ringVars, flag, msg, pos, old, readVars, written, garbled>>

SetFlag(t) ==
    /\ At(t, "set")
    /\ flag' = TRUE
    /\ pos' = [pos EXCEPT ![t] = 1]
    /\ Goto(t, "put")
    /\ UNCHANGED <<ringVars, msg, old, readVars, written, ghosts>>

(* A byte more, if there is room; displaybufferin goes past the last cell ... *)
Put(t) ==
    /\ At(t, "put") /\ count < Cells
    /\ buffer' = [buffer EXCEPT ![in] = Message(msg[t])[pos[t]]]
    /\ in' = in + 1
    /\ Goto(t, "wrap")
    /\ UNCHANGED <<out, count, flag, msg, pos, old, readVars, written, ghosts>>

(* ... and back, before the count is read ... *)
Wrap(t) ==
    /\ At(t, "wrap")
    /\ in' = IF in >= Cells THEN 0 ELSE in
    /\ old' = [old EXCEPT ![t] = count]
    /\ Goto(t, "inc")
    /\ UNCHANGED <<buffer, out, count, flag, msg, pos, readVars, written, ghosts>>

(* ... and written back. *)
Inc(t) ==
    /\ At(t, "inc") /\ pos[t] <= Chars
    /\ count' = old[t] + 1
    /\ old' = [old EXCEPT ![t] = 0]
    /\ pos' = [pos EXCEPT ![t] = @ + 1]
    /\ Goto(t, "put")
    /\ UNCHANGED <<buffer, in, out, flag, msg, readVars, written, ghosts>>

IncLast(t) ==
    /\ At(t, "inc") /\ pos[t] = Chars + 1
    /\ count' = old[t] + 1
    /\ flag' = FALSE
    /\ due' = IF spoilt THEN <<>> ELSE Append(due, msg[t])
    /\ Return(t)
    /\ UNCHANGED <<buffer, in, out, readVars, written, spoilt,
                   garbled>>

(* Mutant: the return that meets the full ring forgets the flag. *)
FullKeepsFlag(t) ==
    /\ At(t, "put") /\ count >= Cells
    /\ buffer' = IF pos[t] > 1 THEN [buffer EXCEPT ![in] = End] ELSE buffer
    /\ Touch(TRUE)
    /\ Return(t)
    /\ UNCHANGED <<in, out, count, flag, readVars, written, garbled>>

(* The ring is full: the terminator goes into the cell of its first byte.   *)
Full(t) ==
    /\ At(t, "put") /\ count >= Cells
    /\ buffer' = IF pos[t] > 1 THEN [buffer EXCEPT ![in] = End] ELSE buffer
    /\ flag' = FALSE
    /\ Touch(TRUE)
    /\ Return(t)
    /\ UNCHANGED <<in, out, count, readVars, written, garbled>>

-----------------------------------------------------------------------------
(* thread_io: its own messages, GestDisplay *)

AnnounceLoop ==
    /\ At("io", "loop")
    /\ written < MaxMessages
    /\ Call("io")
    /\ UNCHANGED <<ringVars, flag, pos, old, readVars, ghosts>>

(* Nothing to show: status and time. *)
ShowStatus ==
    /\ At("io", "loop") /\ ~newmsg /\ count = 0
    /\ status' = TRUE
    /\ UNCHANGED <<ringVars, flag, pc, msg, pos, old, text, newmsg, written, ghosts>>

(* ReadDisplayBuf *)
StartReading ==
    /\ At("io", "loop") /\ ~newmsg /\ count # 0
    /\ text' = <<>>
    /\ Touch(Meets("io"))
    /\ Goto("io", "read")
    /\ UNCHANGED <<ringVars, flag, msg, pos, old, newmsg, status, written, garbled>>

TakeByte ==
    /\ At("io", "read") /\ count > 0
    /\ text' = Append(text, buffer[out])
    /\ out' = Next1(out)
    /\ old' = [old EXCEPT !["io"] = count]
    /\ Goto("io", "dec")
    /\ UNCHANGED <<buffer, in, count, flag, msg, pos, newmsg, status, written, ghosts>>

Complete == text[Len(text)] = End \/ Len(text) > Longest
Shown == IF text # <<>> /\ Complete THEN SubSeq(text, 1, Len(text) - 1) ELSE text

(* The text is shown from now on; the ring is clean if it is really empty. *)
Show(c) ==
    /\ newmsg' = TRUE /\ status' = FALSE /\ text' = <<>>
    /\ Goto("io", "loop")
    /\ LET clean == c = 0 /\ in = out /\ \A t \in Writer : ~Inside(t)
       IN  /\ due' = IF due = <<>> THEN <<>> ELSE Tail(due)
           /\ spoilt' = (spoilt /\ ~clean)
    /\ garbled' = (garbled \/ (~spoilt /\ (due = <<>> \/ Shown # Text(Head(due)))))

DecAndGoOn ==
    /\ At("io", "dec") /\ ~Complete
    /\ count' = old["io"] - 1
    /\ old' = [old EXCEPT !["io"] = 0]
    /\ Goto("io", "read")
    /\ UNCHANGED <<buffer, in, out, flag, msg, pos, readVars, written, ghosts>>

DecAndShow ==
    /\ At("io", "dec") /\ Complete
    /\ count' = old["io"] - 1
    /\ old' = [old EXCEPT !["io"] = 0]
    /\ Show(count')
    /\ UNCHANGED <<buffer, in, out, flag, msg, pos, written>>

(* The ring ends without a terminator. *)
RunsOut ==
    /\ At("io", "read") /\ count = 0
    /\ Show(0)
    /\ UNCHANGED <<ringVars, flag, msg, pos, old, written>>

(* Mutant: the message is not taken down. *)
OverKeepsMessage ==
    /\ At("io", "loop") /\ newmsg
    /\ newmsg' = TRUE
    /\ UNCHANGED <<ringVars, flag, pc, msg, pos, old, text, status, written, ghosts>>

(* The message stands until its ten seconds are over. *)
Over ==
    /\ At("io", "loop") /\ newmsg
    /\ newmsg' = FALSE
    /\ UNCHANGED <<ringVars, flag, pc, msg, pos, old, text, status, written, ghosts>>

-----------------------------------------------------------------------------
Init ==
    /\ buffer = [i \in 0..(Cells - 1) |-> End]
    /\ in = 0 /\ out = 0 /\ count = 0 /\ flag = FALSE
    /\ pc = [t \in Thread |-> IF t = "io" THEN "loop" ELSE "idle"]
    /\ msg = [t \in Thread |-> 0] /\ pos = [t \in Thread |-> 1] /\ old = [t \in Thread |-> 0]
    /\ text = <<>> /\ newmsg = FALSE /\ status = FALSE
    /\ written = 0
    /\ due = <<>> /\ spoilt = FALSE /\ garbled = FALSE

WriteDisplayBuf(t) ==
    GiveUp(t) \/ SeeFree(t) \/ SetFlag(t) \/ Put(t) \/ Wrap(t) \/ Inc(t) \/ IncLast(t) \/ Full(t)

ReadDisplayBuf == StartReading \/ TakeByte \/ DecAndGoOn \/ DecAndShow \/ RunsOut

GestDisplay == ShowStatus \/ ReadDisplayBuf \/ Over

IoPass == AnnounceLoop \/ WriteDisplayBuf("io") \/ GestDisplay

Next == IoPass \/ \E t \in Writer : Announce(t) \/ WriteDisplayBuf(t)

Spec == Init /\ [][Next]_vars

(* The threads go on with what they have begun, and thread_io with its loop, *)
(* in which the ten seconds go by.                                           *)
FairSpec ==
    /\ Spec
    /\ WF_vars(IoPass)
    /\ \A t \in Writer : WF_vars(WriteDisplayBuf(t))

-----------------------------------------------------------------------------
TypeOK ==
    /\ in \in Nat /\ out \in 0..(Cells - 1) /\ count \in Int
    /\ flag \in BOOLEAN /\ newmsg \in BOOLEAN /\ status \in BOOLEAN /\ spoilt \in BOOLEAN
    /\ pc \in [Thread -> Place]
    /\ pos \in [Thread -> 1..(Chars + 1)] /\ old \in [Thread -> Nat]
    /\ written \in Nat

(* displaybuffercount is an unsigned short: whatever counts of the other     *)
(* side are lost, it never goes below 0, where it would come out as 65535    *)
(* bytes to read; and it stays within the ring unless accesses met.          *)
CountInRange ==
    /\ count >= 0
    /\ ~spoilt => count <= Cells

(* A byte goes past the end of the ring only while another writer is between *)
(* its in++ and its test: the flag is all that keeps the writes in bounds.   *)
BytesInRing == in >= Cells => \E t \in Thread : At(t, "wrap")

(* The flag is only set while a thread is writing: no message is given up    *)
(* for a flag that nobody will clear.                                        *)
FlagIsHeld == flag => \E t \in Thread : pc[t] \in {"put", "wrap", "inc"}

(* What the ring's shared variables keep to with any number of writers.      *)
DisplayInv == TypeOK /\ CountInRange /\ BytesInRing /\ FlagIsHeld

(* Messages are shown whole, as they were written and in their order, unless *)
(* two threads were in the ring at once or it was full; and again after that *)
(* once the ring has been read empty with both its ends at the same place.   *)
MessagesWhole == ~garbled

(* When no more is announced, all messages are taken out of the ring and the *)
(* status comes back, even if counts were lost.                              *)
StatusComesBack == <>[](count = 0 /\ status)
=============================================================================
