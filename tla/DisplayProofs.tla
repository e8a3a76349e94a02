---------------------------- MODULE DisplayProofs ----------------------------
(***************************************************************************)
(* What holds of the display's ring for any number of writers, any size of *)
(* the ring and any length of the messages, proved with TLAPS.             *)
(***************************************************************************)
EXTENDS Display, SequenceTheorems, TLAPS

(* Until accesses meet, one thread at most is inside, and what it has seen   *)
(* of the count is still so.                                                 *)
Alone ==
    ~spoilt =>
        /\ \A t, u \in Thread : Inside(t) /\ Inside(u) => t = u
        /\ count <= Cells
        /\ \A t \in Thread : /\ At(t, "wrap") => count < Cells
                             /\ At(t, "inc") => old[t] < Cells
                             /\ At(t, "dec") => old[t] <= Cells

(* The reader only goes on with a count it has seen above 0.                 *)
ReaderSawSome == At("io", "dec") => old["io"] > 0
OnlyIoReads == \A t \in Writer : pc[t] \notin {"loop", "read", "dec"}

IInv == DisplayInv /\ Alone /\ ReaderSawSome /\ OnlyIoReads

-----------------------------------------------------------------------------
LEMMA InitIInv == Init => IInv
<1> SUFFICES ASSUME Init PROVE IInv
    OBVIOUS
<1> USE DisplayAssumption DEF DisplayAssumption, Init, Thread, Place
<1>1. \A t \in Thread : pc[t] \in {"idle", "loop"} /\ (pc[t] = "loop" => t = "io")
  OBVIOUS
<1>2. TypeOK
  <2>1. pc \in [Thread -> Place]
    OBVIOUS
  <2>2. pos \in [Thread -> 1..(Chars + 1)] /\ old \in [Thread -> Nat]
    OBVIOUS
  <2>3. out \in 0..(Cells - 1)
    OBVIOUS
  <2> QED BY <2>1, <2>2, <2>3 DEF TypeOK
<1>3. Alone
  BY <1>1 DEF Alone, Inside, At
<1>4. CountInRange /\ BytesInRing /\ FlagIsHeld
  BY DEF CountInRange, BytesInRing, FlagIsHeld
<1>5. ReaderSawSome /\ OnlyIoReads
  BY <1>1 DEF ReaderSawSome, OnlyIoReads, At
<1> QED BY <1>2, <1>3, <1>4, <1>5 DEF IInv, DisplayInv

LEMMA TypeStep == IInv /\ [Next]_vars => TypeOK'
<1> SUFFICES ASSUME IInv, [Next]_vars PROVE TypeOK'
    OBVIOUS
<1> USE DisplayAssumption DEF DisplayAssumption, IInv, DisplayInv, TypeOK, Thread, Place, ringVars, readVars, ghosts, At, Goto
<1>1. ASSUME NEW t \in Thread, WriteDisplayBuf(t) PROVE TypeOK'
  <2>1. CASE GiveUp(t) BY <2>1 DEF GiveUp, Return
  <2>2. CASE SeeFree(t) BY <2>2 DEF SeeFree, Touch, Meets, Inside
  <2>3. CASE SetFlag(t) BY <2>3 DEF SetFlag
  <2>4. CASE Put(t) BY <2>4 DEF Put
  <2>5. CASE Wrap(t)
    <3>1. in' \in Nat BY <2>5 DEF Wrap
    <3>2. count \in Nat BY DEF CountInRange
    <3>3. old' \in [Thread -> Nat] BY <2>5, <3>2 DEF Wrap
    <3> QED BY <2>5, <3>1, <3>3 DEF Wrap
  <2>6. CASE Inc(t)
    <3>1. pos[t] \in 1..(Chars + 1) /\ old[t] \in Nat OBVIOUS
    <3>2. pos[t] + 1 \in 1..(Chars + 1) /\ count' \in Int BY <2>6, <3>1 DEF Inc
    <3>3. pos' \in [Thread -> 1..(Chars + 1)] BY <2>6, <3>2 DEF Inc
    <3> QED BY <2>6, <3>2, <3>3 DEF Inc
  <2>7. CASE IncLast(t)
    <3>1. old[t] \in Nat OBVIOUS
    <3>2. count' \in Int BY <2>7, <3>1 DEF IncLast
    <3>3. pc' \in [Thread -> Place]
      BY <2>7 DEF IncLast, Return
    <3>4. pos' \in [Thread -> 1..(Chars + 1)] /\ old' \in [Thread -> Nat]
      BY <2>7 DEF IncLast, Return
    <3> QED BY <2>7, <3>2, <3>3, <3>4 DEF IncLast
  <2>8. CASE Full(t)
    <3>1. spoilt' = TRUE BY <2>8 DEF Full, Touch
    <3>2. in' = in /\ out' = out /\ count' = count /\ flag' = FALSE /\ newmsg' = newmsg
          /\ status' = status /\ written' = written
      BY <2>8 DEF Full
    <3>3. pc' \in [Thread -> Place]
      BY <2>8 DEF Full, Return
    <3>4. pos' \in [Thread -> 1..(Chars + 1)] /\ old' \in [Thread -> Nat]
      BY <2>8 DEF Full, Return
    <3> QED BY <3>1, <3>2, <3>3, <3>4
  <2> QED BY <1>1, <2>1, <2>2, <2>3, <2>4, <2>5, <2>6, <2>7, <2>8 DEF WriteDisplayBuf
<1>2. ASSUME NEW t \in Writer, Announce(t) PROVE TypeOK'
  BY <1>2 DEF Announce, Call
<1>3. CASE AnnounceLoop BY <1>3 DEF AnnounceLoop, Call
<1>4. CASE ShowStatus BY <1>4 DEF ShowStatus
<1>5. CASE StartReading BY <1>5 DEF StartReading, Touch, Meets, Inside
<1>6. CASE TakeByte
  <2>1. out' \in 0..(Cells - 1)
    BY <1>6 DEF TakeByte, Next1
  <2>2. count \in Nat BY DEF CountInRange
  <2>3. old' \in [Thread -> Nat] BY <1>6, <2>2 DEF TakeByte
  <2> QED BY <1>6, <2>1, <2>3 DEF TakeByte
<1>7. CASE DecAndGoOn
  <2>1. count' \in Int BY <1>7 DEF DecAndGoOn
  <2>2. pc' \in [Thread -> Place]
    BY <1>7 DEF DecAndGoOn
  <2>3. old' \in [Thread -> Nat] BY <1>7 DEF DecAndGoOn
  <2> QED BY <1>7, <2>1, <2>2, <2>3 DEF DecAndGoOn
<1>8. CASE DecAndShow
  <2>1. count' \in Int BY <1>8 DEF DecAndShow
  <2>2. spoilt' \in BOOLEAN /\ newmsg' \in BOOLEAN /\ status' \in BOOLEAN
    BY <1>8 DEF DecAndShow, Show
  <2>3. pc' \in [Thread -> Place] BY <1>8 DEF DecAndShow, Show
  <2>4. old' \in [Thread -> Nat] BY <1>8 DEF DecAndShow
  <2> QED BY <1>8, <2>1, <2>2, <2>3, <2>4 DEF DecAndShow
<1>9. CASE RunsOut
  <2>1. spoilt' \in BOOLEAN /\ newmsg' \in BOOLEAN /\ status' \in BOOLEAN
    BY <1>9 DEF RunsOut, Show
  <2>2. pc' \in [Thread -> Place] BY <1>9 DEF RunsOut, Show
  <2> QED BY <1>9, <2>1, <2>2 DEF RunsOut
<1>10. CASE Over BY <1>10 DEF Over
<1>11. CASE UNCHANGED vars BY <1>11 DEF vars
<1> QED
  BY <1>1, <1>2, <1>3, <1>4, <1>5, <1>6, <1>7, <1>8, <1>9, <1>10, <1>11
     DEF Next, IoPass, GestDisplay, ReadDisplayBuf

(* The flag is set by the one writer that goes on and cleared by whoever leaves. *)
LEMMA FlagStep == IInv /\ [Next]_vars => FlagIsHeld'
<1> SUFFICES ASSUME IInv, [Next]_vars PROVE FlagIsHeld'
    OBVIOUS
<1> USE DEF IInv, DisplayInv, TypeOK, FlagIsHeld, Thread, Goto, At
<1>1. ASSUME NEW t \in Thread, WriteDisplayBuf(t) PROVE FlagIsHeld'
  <2>1. CASE GiveUp(t) \/ SeeFree(t) BY <2>1 DEF GiveUp, SeeFree, Return
  <2>2. CASE SetFlag(t) \/ Put(t) \/ Wrap(t) \/ Inc(t)
    <3>1. pc' = [pc EXCEPT ![t] = pc'[t]] /\ pc'[t] \in {"put", "wrap", "inc"}
      BY <2>2 DEF SetFlag, Put, Wrap, Inc
    <3> QED BY <3>1
  <2>3. CASE IncLast(t) \/ Full(t) BY <2>3 DEF IncLast, Full
  <2> QED BY <1>1, <2>1, <2>2, <2>3 DEF WriteDisplayBuf
<1>2. ASSUME NEW t \in Writer, Announce(t) PROVE FlagIsHeld'
  BY <1>2 DEF Announce, Call
<1>3. CASE AnnounceLoop BY <1>3 DEF AnnounceLoop, Call
<1>4. CASE ShowStatus \/ Over BY <1>4 DEF ShowStatus, Over
<1>5. CASE StartReading \/ TakeByte \/ DecAndGoOn \/ DecAndShow \/ RunsOut
  BY <1>5 DEF StartReading, TakeByte, DecAndGoOn, DecAndShow, RunsOut, Show, ringVars
<1>6. CASE UNCHANGED vars BY <1>6 DEF vars, ringVars
<1> QED
  BY <1>1, <1>2, <1>3, <1>4, <1>5, <1>6 DEF Next, IoPass, GestDisplay, ReadDisplayBuf

LEMMA RingStep == IInv /\ [Next]_vars => BytesInRing'
<1> SUFFICES ASSUME IInv, [Next]_vars PROVE BytesInRing'
    OBVIOUS
<1> USE DisplayAssumption
    DEF DisplayAssumption, IInv, DisplayInv, TypeOK, BytesInRing, Thread, Goto, At
<1>1. ASSUME NEW t \in Thread, WriteDisplayBuf(t) PROVE BytesInRing'
  <2>1. CASE GiveUp(t) \/ SeeFree(t) \/ SetFlag(t) \/ Inc(t) \/ IncLast(t) \/ Full(t)
    BY <2>1 DEF GiveUp, SeeFree, SetFlag, Inc, IncLast, Full, Return, ringVars
  <2>2. CASE Put(t) BY <2>2 DEF Put
  <2>3. CASE Wrap(t) BY <2>3 DEF Wrap
  <2> QED BY <1>1, <2>1, <2>2, <2>3 DEF WriteDisplayBuf
<1>2. ASSUME NEW t \in Writer, Announce(t) PROVE BytesInRing'
  BY <1>2 DEF Announce, Call, ringVars
<1>3. CASE AnnounceLoop BY <1>3 DEF AnnounceLoop, Call, ringVars
<1>4. CASE ShowStatus \/ Over BY <1>4 DEF ShowStatus, Over, ringVars
<1>5. CASE StartReading \/ TakeByte \/ DecAndGoOn \/ DecAndShow \/ RunsOut
  BY <1>5 DEF StartReading, TakeByte, DecAndGoOn, DecAndShow, RunsOut, Show, ringVars
<1>6. CASE UNCHANGED vars BY <1>6 DEF vars, ringVars
<1> QED
  BY <1>1, <1>2, <1>3, <1>4, <1>5, <1>6 DEF Next, IoPass, GestDisplay, ReadDisplayBuf

LEMMA ReaderStep == IInv /\ [Next]_vars => ReaderSawSome' /\ OnlyIoReads'
<1> SUFFICES ASSUME IInv, [Next]_vars PROVE ReaderSawSome' /\ OnlyIoReads'
    OBVIOUS
<1> USE DisplayAssumption
    DEF DisplayAssumption, IInv, DisplayInv, TypeOK, ReaderSawSome, OnlyIoReads, Thread, Goto, At
<1>1. ASSUME NEW t \in Thread, WriteDisplayBuf(t) PROVE ReaderSawSome' /\ OnlyIoReads'
  <2>1. CASE GiveUp(t) BY <2>1 DEF GiveUp, Return
  <2>2. CASE SeeFree(t) \/ SetFlag(t) \/ Put(t) BY <2>2 DEF SeeFree, SetFlag, Put
  <2>3. CASE Wrap(t) BY <2>3 DEF Wrap
  <2>4. CASE Inc(t) BY <2>4 DEF Inc
  <2>5. CASE IncLast(t) BY <2>5 DEF IncLast, Return
  <2>6. CASE Full(t) BY <2>6 DEF Full, Return
  <2> QED BY <1>1, <2>1, <2>2, <2>3, <2>4, <2>5, <2>6 DEF WriteDisplayBuf
<1>2. ASSUME NEW t \in Writer, Announce(t) PROVE ReaderSawSome' /\ OnlyIoReads'
  BY <1>2 DEF Announce, Call
<1>3. CASE AnnounceLoop BY <1>3 DEF AnnounceLoop, Call
<1>4. CASE ShowStatus \/ Over BY <1>4 DEF ShowStatus, Over
<1>5. CASE TakeByte BY <1>5 DEF TakeByte
<1>6. CASE StartReading \/ DecAndGoOn \/ DecAndShow \/ RunsOut
  BY <1>6 DEF StartReading, DecAndGoOn, DecAndShow, RunsOut, Show
<1>7. CASE UNCHANGED vars BY <1>7 DEF vars
<1> QED
  BY <1>1, <1>2, <1>3, <1>4, <1>5, <1>6, <1>7 DEF Next, IoPass, GestDisplay, ReadDisplayBuf

(* A step of a thread leaves every other thread where it was.                *)
LEMMA OthersStay ==
    ASSUME IInv, NEW t \in Thread, NEW p \in Place, Goto(t, p)
    PROVE  pc'[t] = p /\ \A u \in Thread \ {t} : pc'[u] = pc[u]
BY DEF IInv, DisplayInv, TypeOK, Goto

(* While nothing is spoilt, a thread that is inside and moves within is the  *)
(* only one inside.                                                          *)
LEMMA StillAlone ==
    ASSUME IInv, NEW t \in Thread, Inside(t), NEW p \in Place, Goto(t, p), ~spoilt
    PROVE  /\ \A u \in Thread \ {t} : ~Inside(u) /\ ~Inside(u)'
           /\ \A u, v \in Thread : Inside(u)' /\ Inside(v)' => u = v
BY OthersStay DEF IInv, Alone, Inside

LEMMA CountStep == IInv /\ [Next]_vars => CountInRange' /\ Alone'
<1> SUFFICES ASSUME IInv, [Next]_vars PROVE CountInRange' /\ Alone'
    OBVIOUS
<1> DEFINE Bounded ==
      ~spoilt' => \A u \in Thread :
          /\ pc'[u] = "wrap" => count' < Cells
          /\ pc'[u] = "inc" => old'[u] < Cells
          /\ pc'[u] = "dec" => old'[u] <= Cells
<1> DEFINE One == ~spoilt' => \A u, v \in Thread : Inside(u)' /\ Inside(v)' => u = v
<1> DEFINE Low == count' >= 0 /\ (~spoilt' => count' <= Cells)
<1>0. SUFFICES Bounded /\ One /\ Low
  <2>1. ASSUME Low PROVE CountInRange' BY <2>1 DEF CountInRange
  <2>2. ASSUME Bounded, One, Low, ~spoilt' PROVE Alone'
    <3>1. \A t, u \in Thread : Inside(t)' /\ Inside(u)' => t = u BY <2>2
    <3>2. count' <= Cells BY <2>2
    <3>3. \A t \in Thread :
             /\ pc'[t] = "wrap" => count' < Cells
             /\ pc'[t] = "inc" => old'[t] < Cells
             /\ pc'[t] = "dec" => old'[t] <= Cells
      BY <2>2
    <3> QED BY <3>1, <3>2, <3>3 DEF Alone, Inside, At
  <2>3. spoilt' => Alone' BY DEF Alone
  <2> QED BY <2>1, <2>2, <2>3
<1>00. count \in Nat /\ Cells \in Nat /\ \A u \in Thread : old[u] \in Nat
  BY DisplayAssumption DEF DisplayAssumption, IInv, DisplayInv, TypeOK, CountInRange
<1>01. \A u \in Thread : pc[u] \in Place
  BY DEF IInv, DisplayInv, TypeOK
<1>02. "io" \in Thread
  BY DEF Thread
<1>1. ASSUME NEW t \in Thread, WriteDisplayBuf(t) PROVE Bounded /\ One /\ Low
  <2>1. CASE GiveUp(t)
    <3>1. spoilt' = spoilt /\ count' = count BY <2>1 DEF GiveUp, ringVars, ghosts
    <3>2. PICK p \in {"loop", "idle"} : Goto(t, p) BY <2>1 DEF GiveUp, Return
    <3>3. pc'[t] = p /\ \A u \in Thread \ {t} : pc'[u] = pc[u] BY <3>2, OthersStay DEF Place
    <3>4. \A u \in Thread \ {t} : old'[u] = old[u]
      BY <2>1 DEF GiveUp, Return, IInv, DisplayInv, TypeOK
    <3> QED BY <1>00, <3>1, <3>3, <3>4 DEF IInv, Alone, Inside, At
  <2>2. CASE SeeFree(t)
    <3>1. count' = count /\ old' = old /\ Goto(t, "set") /\ (~spoilt' => ~spoilt /\ ~Meets(t))
      BY <2>2 DEF SeeFree, Touch, ringVars
    <3>2. pc'[t] = "set" /\ \A u \in Thread \ {t} : pc'[u] = pc[u]
      BY <3>1, OthersStay DEF Place
    <3> QED BY <1>00, <3>1, <3>2 DEF IInv, Alone, Inside, At, Meets
  <2>3. CASE SetFlag(t)
    <3>1. count' = count /\ old' = old /\ spoilt' = spoilt /\ Goto(t, "put") /\ Inside(t)
      BY <2>3 DEF SetFlag, ringVars, ghosts, Inside, At
    <3>2. pc'[t] = "put" BY <3>1, OthersStay DEF Place
    <3> QED BY <1>00, <3>1, <3>2, StillAlone DEF IInv, Alone, Inside, At, Place
  <2>4. CASE Put(t)
    <3>1. /\ count' = count /\ old' = old /\ spoilt' = spoilt /\ Goto(t, "wrap") /\ Inside(t)
          /\ count < Cells
      BY <2>4 DEF Put, ghosts, Inside, At
    <3>2. pc'[t] = "wrap" BY <3>1, OthersStay DEF Place
    <3> QED BY <1>00, <3>1, <3>2, StillAlone DEF IInv, Alone, Inside, At, Place
  <2>5. CASE Wrap(t)
    <3>1. /\ count' = count /\ spoilt' = spoilt /\ Goto(t, "inc") /\ Inside(t)
          /\ pc[t] = "wrap"
      BY <2>5 DEF Wrap, ghosts, Inside, At
    <3>2. old'[t] = count BY <2>5 DEF Wrap, IInv, DisplayInv, TypeOK
    <3>3. pc'[t] = "inc" BY <3>1, OthersStay DEF Place
    <3> QED BY <1>00, <3>1, <3>2, <3>3, StillAlone DEF IInv, Alone, Inside, At, Place
  <2>6. CASE Inc(t)
    <3>1. /\ count' = old[t] + 1 /\ spoilt' = spoilt /\ Goto(t, "put") /\ Inside(t)
          /\ pc[t] = "inc"
      BY <2>6 DEF Inc, ghosts, Inside, At
    <3>2. pc'[t] = "put" BY <3>1, OthersStay DEF Place
    <3> QED BY <1>00, <3>1, <3>2, StillAlone DEF IInv, Alone, Inside, At, Place
  <2>7. CASE IncLast(t)
    <3>1. /\ count' = old[t] + 1 /\ spoilt' = spoilt /\ Inside(t) /\ pc[t] = "inc"
      BY <2>7 DEF IncLast, Inside, At
    <3>2. PICK p \in {"loop", "idle"} : Goto(t, p) BY <2>7 DEF IncLast, Return
    <3>3. pc'[t] = p BY <3>2, OthersStay DEF Place
    <3> QED BY <1>00, <3>1, <3>2, <3>3, StillAlone DEF IInv, Alone, Inside, At, Place
  <2>8. CASE Full(t)
    <3>1. spoilt' = TRUE /\ count' = count BY <2>8 DEF Full, Touch
    <3> QED BY <1>00, <3>1
  <2> QED BY <1>1, <2>1, <2>2, <2>3, <2>4, <2>5, <2>6, <2>7, <2>8 DEF WriteDisplayBuf
<1>2. ASSUME NEW t \in Thread, Call(t), UNCHANGED <<count, old, spoilt>>
      PROVE  Bounded /\ One /\ Low
  <2>1. pc'[t] = "wait" /\ \A u \in Thread \ {t} : pc'[u] = pc[u]
    BY <1>2, OthersStay DEF Call, Place
  <2> QED BY <1>00, <1>2, <2>1 DEF IInv, Alone, Inside, At
<1>3. CASE UNCHANGED <<count, old, spoilt, pc>>
  BY <1>00, <1>3 DEF IInv, Alone, Inside, At
<1>4. CASE StartReading
  <2>1. count' = count /\ old' = old /\ Goto("io", "read") /\ (~spoilt' => ~spoilt /\ ~Meets("io"))
    BY <1>4 DEF StartReading, Touch, ringVars
  <2>2. pc'["io"] = "read" /\ \A u \in Thread \ {"io"} : pc'[u] = pc[u]
    BY <1>02, <2>1, OthersStay DEF Place
  <2> QED BY <1>00, <2>1, <2>2 DEF IInv, Alone, Inside, At, Meets
<1>5. CASE TakeByte
  <2>1. count' = count /\ spoilt' = spoilt /\ Goto("io", "dec") /\ Inside("io")
    BY <1>5 DEF TakeByte, ghosts, Inside, At
  <2>2. old'["io"] = count BY <1>5, <1>02 DEF TakeByte, IInv, DisplayInv, TypeOK
  <2>3. pc'["io"] = "dec" BY <1>02, <2>1, OthersStay DEF Place
  <2> QED BY <1>00, <1>02, <2>1, <2>2, <2>3, StillAlone DEF IInv, Alone, Inside, At, Place
<1>6. CASE DecAndGoOn
  <2>1. /\ count' = old["io"] - 1 /\ spoilt' = spoilt /\ Goto("io", "read") /\ Inside("io")
        /\ pc["io"] = "dec"
    BY <1>6 DEF DecAndGoOn, ghosts, Inside, At
  <2>2. old["io"] > 0 BY <2>1 DEF IInv, ReaderSawSome, At
  <2>3. pc'["io"] = "read" BY <1>02, <2>1, OthersStay DEF Place
  <2> QED BY <1>00, <1>02, <2>1, <2>2, <2>3, StillAlone DEF IInv, Alone, Inside, At, Place
<1>7. CASE DecAndShow \/ RunsOut
  <2>1. /\ Goto("io", "loop") /\ Inside("io")
        /\ \/ pc["io"] = "dec" /\ count' = old["io"] - 1
           \/ count = 0 /\ count' = count
        /\ spoilt' => spoilt
        /\ ~spoilt' => ~spoilt \/ (count' = 0 /\ \A t \in Writer : ~Inside(t))
    BY <1>7 DEF DecAndShow, RunsOut, Show, ringVars, Inside, At
  <2>2. pc["io"] = "dec" => old["io"] > 0 BY DEF IInv, ReaderSawSome, At
  <2>3. pc'["io"] = "loop" /\ \A u \in Thread \ {"io"} : pc'[u] = pc[u]
    BY <1>02, <2>1, OthersStay DEF Place
  <2>4. CASE ~spoilt
    BY <1>00, <1>02, <2>1, <2>2, <2>3, <2>4, StillAlone DEF IInv, Alone, Inside, At, Place
  <2>5. CASE spoilt
    <3>1. ~spoilt' => count' = 0 /\ \A u \in Thread : ~Inside(u)'
      BY <2>1, <2>3, <2>5 DEF Thread, Inside
    <3>2. count' >= 0 BY <1>00, <1>02, <2>1, <2>2
    <3> QED BY <1>00, <3>1, <3>2 DEF Inside, At
  <2> QED BY <2>4, <2>5
<1> QED
  <2>1. ASSUME NEW t \in Writer, Announce(t) PROVE Bounded /\ One /\ Low
    BY <1>2, <2>1 DEF Announce, Thread, ringVars, ghosts
  <2>2. CASE AnnounceLoop BY <1>2, <1>02, <2>2 DEF AnnounceLoop, ringVars, ghosts
  <2>3. CASE ShowStatus \/ Over \/ UNCHANGED vars
    BY <1>3, <2>3 DEF ShowStatus, Over, vars, ringVars, ghosts
  <2>4. ASSUME NEW t \in Writer, WriteDisplayBuf(t) PROVE Bounded /\ One /\ Low
    BY <1>1, <2>4 DEF Thread
  <2>5. CASE IoPass
    BY <1>1, <1>02, <1>4, <1>5, <1>6, <1>7, <2>2, <2>3, <2>5
       DEF IoPass, GestDisplay, ReadDisplayBuf
  <2> QED BY <2>1, <2>3, <2>4, <2>5 DEF Next

LEMMA IInvStep == IInv /\ [Next]_vars => IInv'
  BY TypeStep, CountStep, RingStep, FlagStep, ReaderStep DEF IInv, DisplayInv

(* The ring's variables keep to their ranges and the flag never stays set    *)
(* behind: for every number of writers, size of the ring and message.        *)
THEOREM RingHolds == Spec => []DisplayInv
<1>1. IInv /\ [Next]_vars => IInv'
  BY IInvStep
<1>2. IInv => DisplayInv
  BY DEF IInv
<1> QED BY InitIInv, <1>1, <1>2, PTL DEF Spec
-----------------------------------------------------------------------------
(* Where the bytes are: the i-th text in the ring begins Begin(i) bytes      *)
(* after the first one, and the j-th byte that is still to be read is in     *)
(* Cell(j), counted from 0.                                                  *)
Begin(i) == (i - 1) * (Chars + 1)
Held == Begin(Len(due) + 1)
Cell(j) == IF out + j < Cells THEN out + j ELSE out + j - Cells

RingTypes ==
    /\ buffer \in [0..(Cells - 1) -> Nat \X Nat]
    /\ text \in Seq(Nat \X Nat)
    /\ due \in Seq(Nat) /\ msg \in [Thread -> Nat]

Reading == At("io", "read") \/ At("io", "dec")
TextTaken == /\ spoilt => due = <<>>
             /\ ~Reading => text = <<>>

(* The texts that are due are in the ring, one after the other.              *)
DueInRing ==
    \A i \in 1..Len(due), p \in 1..(Chars + 1) :
        Begin(i) + p - 1 >= Len(text) =>
            buffer[Cell(Begin(i) + p - 1 - Len(text))] = Message(due[i])[p]

(* So are the first n bytes of the message that t writes.                    *)
Written(t, n) == \A p \in 1..n : buffer[Cell(Held + p - 1)] = Message(msg[t])[p]

(* The count and the input index are those of the texts and the part of a    *)
(* message that are in the ring.                                             *)
InIdle == (\A t \in Thread : pc[t] \notin {"put", "wrap", "inc", "read", "dec"}) =>
    count = Held /\ in = Cell(count)

InWriter(t) ==
    /\ pc[t] \in {"put", "wrap", "inc"} => count = Held + pos[t] - 1
    /\ At(t, "put") => in = Cell(count) /\ Written(t, pos[t] - 1)
    /\ At(t, "wrap") => in = Cell(count) + 1 /\ Written(t, pos[t])
    /\ At(t, "inc") => in = Cell(count + 1) /\ old[t] = count /\ Written(t, pos[t])

InReader ==
    /\ Reading => /\ due # <<>>
                  /\ \A q \in 1..Len(text) : text[q] = Message(due[1])[q]
    /\ At("io", "read") => /\ Len(text) <= Chars
                           /\ count = Held - Len(text) /\ in = Cell(count)
    /\ At("io", "dec") => /\ Len(text) \in 1..(Chars + 1)
                          /\ count = Held - Len(text) + 1 /\ in = Cell(count - 1)
                          /\ old["io"] = count

Placed == DueInRing /\ InIdle /\ (\A t \in Thread : InWriter(t)) /\ InReader

(* Unless something spoilt it, the ring is exactly the texts that are due.   *)
WholeInv == IInv /\ RingTypes /\ TextTaken /\ ~garbled /\ (~spoilt => Placed)

-----------------------------------------------------------------------------
LEMMA Sizes == Cells \in Nat \ {0} /\ Chars \in Nat \ {0} /\ Longest \in Nat \ {0} /\ "io" \in Thread
  BY DisplayAssumption DEF Thread

(* The texts lie one behind the other. *)
LEMMA Begins ==
    /\ Begin(1) = 0
    /\ \A i \in Nat \ {0} : Begin(i) \in Nat /\ Begin(i + 1) = Begin(i) + Chars + 1
    /\ \A n \in Nat : \A i \in 1..n : Begin(i) + Chars + 1 <= Begin(n + 1)
<1> DEFINE L == Chars + 1
<1>1. L \in Nat
  BY Sizes
<1>2. ASSUME NEW k \in Nat, NEW l \in Nat PROVE k * l \in Nat /\ (k + 1) * l = k * l + l
  OBVIOUS
<1>3. ASSUME NEW i \in Nat \ {0} PROVE Begin(i) \in Nat /\ Begin(i + 1) = Begin(i) + Chars + 1
  <2>1. i - 1 \in Nat /\ (i - 1) + 1 = i /\ (i + 1) - 1 = i
    OBVIOUS
  <2>2. (i - 1) * L \in Nat /\ i * L = (i - 1) * L + L
    BY <1>1, <1>2, <2>1
  <2> QED BY <1>1, <2>1, <2>2, Sizes DEF Begin
<1>4. ASSUME NEW n \in Nat, NEW i \in 1..n PROVE Begin(i) + Chars + 1 <= Begin(n + 1)
  <2>1. n - i \in Nat /\ (n + 1) - 1 = n
    OBVIOUS
  <2>2. (n - i) * L \in Nat
    BY <1>1, <1>2, <2>1
  <2>3. Begin(i) = (i - 1) * L /\ Begin(n + 1) = n * L
    BY <2>1 DEF Begin
  <2>4. n * L = (i - 1) * L + L + (n - i) * L
    BY <1>1
  <2>5. (i - 1) * L \in Nat
    BY <1>3, <2>3
  <2> QED BY <1>1, <2>2, <2>3, <2>4, <2>5, Sizes
<1>5. Begin(1) = 0
  BY Sizes DEF Begin
<1> QED
  BY <1>3, <1>4, <1>5

(* The cells of the ring, from out on. *)
LEMMA CellsApart ==
    ASSUME TypeOK
    PROVE  /\ Cell(0) = out /\ Cell(Cells) = out
           /\ \A j \in 0..(Cells - 1) :
                 /\ Cell(j) \in 0..(Cells - 1)
                 /\ Cell(j + 1) = IF Cell(j) + 1 >= Cells THEN 0 ELSE Cell(j) + 1
                 /\ \A k \in 0..(Cells - 1) : j # k => Cell(j) # Cell(k)
  BY Sizes DEF TypeOK, Cell

(* The characters of a message are no terminator. *)
LEMMA MessageShape ==
    ASSUME NEW m \in Nat
    PROVE  /\ Message(m) \in Seq(Nat \X Nat) /\ Len(Message(m)) = Chars + 1
           /\ \A p \in 1..(Chars + 1) : Message(m)[p] \in Nat \X Nat
           /\ \A p \in 1..(Chars + 1) : Message(m)[p] = End <=> p = Chars + 1
<1>1. \A p \in 1..(Chars + 1) : /\ Message(m)[p] = IF p <= Chars THEN <<m, p>> ELSE End
                                /\ <<m, p>> \in Nat \X Nat /\ <<m, p>> # End
  BY Sizes DEF Message, End
<1>2. End \in Nat \X Nat
  BY DEF End
<1>3. \A p \in 1..(Chars + 1) : Message(m)[p] \in Nat \X Nat
  BY <1>1, <1>2
<1>4. ASSUME NEW p \in 1..(Chars + 1) PROVE Message(m)[p] = End <=> p = Chars + 1
  <2>1. p <= Chars <=> p # Chars + 1
    BY Sizes
  <2> QED BY <1>1, <2>1
<1>5. Message(m) = [p \in 1..(Chars + 1) |-> Message(m)[p]]
  BY DEF Message
<1>6. Message(m) \in [1..(Chars + 1) -> Nat \X Nat]
  BY <1>3, <1>5
<1> QED
  BY <1>3, <1>4, <1>6, Sizes

-----------------------------------------------------------------------------
LEMMA TypesStep ==
    ASSUME WholeInv, [Next]_vars
    PROVE  RingTypes' /\ TextTaken'
<1> USE DEF Goto, At, ringVars, readVars, ghosts
<1> DEFINE Kept == RingTypes' /\ TextTaken'
<1>0. /\ buffer \in [0..(Cells - 1) -> Nat \X Nat] /\ text \in Seq(Nat \X Nat)
      /\ due \in Seq(Nat) /\ msg \in [Thread -> Nat] /\ written \in Nat
      /\ pc \in [Thread -> Place] /\ pos \in [Thread -> 1..(Chars + 1)] /\ "io" \in Thread
      /\ out \in 0..(Cells - 1)
      /\ spoilt => due = <<>>
      /\ pc["io"] \notin {"read", "dec"} => text = <<>>
  BY Sizes DEF WholeInv, RingTypes, TextTaken, Reading, IInv, DisplayInv, TypeOK
<1> USE DEF RingTypes, TextTaken, Reading
<1>1. ASSUME NEW t \in Thread, Call(t), UNCHANGED <<buffer, text, due, spoilt>>, pc[t] \in {"idle", "loop"}
      PROVE  Kept
  BY <1>0, <1>1 DEF Call
<1>2. ASSUME NEW t \in Thread, WriteDisplayBuf(t) PROVE Kept
  <2>1. ASSUME UNCHANGED <<text, msg>>, pc[t] \notin {"read", "dec"},
               NEW p \in Place \ {"read", "dec"}, Goto(t, p),
               buffer' \in [0..(Cells - 1) -> Nat \X Nat],
               due' \in Seq(Nat), spoilt' => due' = <<>>
        PROVE  Kept
    BY <1>0, <2>1
  <2>2. ASSUME UNCHANGED text, pc[t] \notin {"read", "dec"}, Return(t),
               buffer' \in [0..(Cells - 1) -> Nat \X Nat],
               due' \in Seq(Nat), spoilt' => due' = <<>>
        PROVE  Kept
    BY <1>0, <2>2 DEF Return
  <2>3. CASE GiveUp(t)
    BY <1>0, <2>2, <2>3 DEF GiveUp
  <2>4. CASE SeeFree(t)
    BY <1>0, <2>1, <2>4 DEF SeeFree, Touch, Place
  <2>5. CASE SetFlag(t)
    BY <1>0, <2>1, <2>5 DEF SetFlag, Place
  <2>6. CASE Put(t)
    <3>1. Message(msg[t])[pos[t]] \in Nat \X Nat
      BY <1>0, MessageShape
    <3>2. buffer' \in [0..(Cells - 1) -> Nat \X Nat]
      BY <1>0, <2>6, <3>1 DEF Put
    <3> QED BY <1>0, <2>1, <2>6, <3>2 DEF Put, Place
  <2>7. CASE Wrap(t)
    BY <1>0, <2>1, <2>7 DEF Wrap, Place
  <2>8. CASE Inc(t)
    BY <1>0, <2>1, <2>8 DEF Inc, Place
  <2>9. CASE IncLast(t)
    <3>1. due' \in Seq(Nat) /\ (spoilt' => due' = <<>>)
      BY <1>0, <2>9 DEF IncLast
    <3> QED BY <1>0, <2>2, <2>9, <3>1 DEF IncLast
  <2>10. CASE Full(t)
    <3>1. buffer' \in [0..(Cells - 1) -> Nat \X Nat]
      BY <1>0, <2>10 DEF Full, End
    <3> QED BY <1>0, <2>2, <2>10, <3>1 DEF Full, Touch
  <2> QED BY <1>2, <2>3, <2>4, <2>5, <2>6, <2>7, <2>8, <2>9, <2>10 DEF WriteDisplayBuf
<1>3. CASE ShowStatus \/ Over \/ UNCHANGED vars
  BY <1>0, <1>3 DEF ShowStatus, Over, vars
<1>4. CASE StartReading
  BY <1>0, <1>4 DEF StartReading, Touch
<1>5. CASE TakeByte
  BY <1>0, <1>5 DEF TakeByte
<1>6. CASE DecAndGoOn
  BY <1>0, <1>6 DEF DecAndGoOn
<1>7. CASE DecAndShow \/ RunsOut
  <2>1. /\ text' = <<>> /\ msg' = msg /\ buffer' = buffer
        /\ due' = IF due = <<>> THEN <<>> ELSE Tail(due)
        /\ spoilt' => spoilt
    BY <1>7 DEF DecAndShow, RunsOut, Show
  <2>2. due' \in Seq(Nat)
    BY <1>0, <2>1
  <2> QED BY <1>0, <2>1, <2>2
<1> QED
  <2>1. ASSUME NEW t \in Writer, Announce(t) PROVE Kept
    BY <1>1, <2>1 DEF Announce, Thread
  <2>2. CASE AnnounceLoop
    BY <1>0, <1>1, <2>2 DEF AnnounceLoop
  <2> QED
    BY <1>0, <1>2, <1>3, <1>4, <1>5, <1>6, <1>7, <2>1, <2>2
       DEF Next, IoPass, GestDisplay, ReadDisplayBuf, Thread

-----------------------------------------------------------------------------
Ringing == {"put", "wrap", "inc", "read", "dec"}

(* While nothing is spoilt, who is inside is there alone, and the ring is    *)
(* as its writer or its reader has left it.                                  *)
LEMMA AloneInRing ==
    ASSUME WholeInv, ~spoilt, NEW t \in Thread, Inside(t)
    PROVE  \A u \in Thread \ {t} : pc[u] \notin Ringing \cup {"set"}
  BY DEF WholeInv, IInv, Alone, Inside, Ringing

LEMMA WholeFacts ==
    ASSUME WholeInv
    PROVE  /\ due \in Seq(Nat) /\ Len(due) \in Nat /\ Held \in Nat
           /\ text \in Seq(Nat \X Nat) /\ Len(text) \in Nat
           /\ count \in Nat /\ out \in 0..(Cells - 1) /\ in \in Nat
           /\ pc \in [Thread -> Place] /\ pos \in [Thread -> 1..(Chars + 1)]
           /\ old \in [Thread -> Nat] /\ msg \in [Thread -> Nat]
           /\ buffer \in [0..(Cells - 1) -> Nat \X Nat]
           /\ TypeOK /\ (~spoilt => Placed /\ count <= Cells)
<1>1. TypeOK /\ RingTypes /\ count >= 0
  BY DEF WholeInv, IInv, DisplayInv, CountInRange
<1>2. Len(due) \in Nat /\ Len(due) + 1 \in Nat \ {0} /\ Len(text) \in Nat
  BY <1>1 DEF RingTypes
<1>3. Held \in Nat
  BY <1>2, Begins DEF Held
<1>4. ~spoilt => Placed /\ count <= Cells
  BY DEF WholeInv, IInv, Alone
<1> QED
  BY <1>1, <1>2, <1>3, <1>4 DEF TypeOK, RingTypes

(* A thread that moves outside the ring leaves it as it was. *)
LEMMA OutsideStep ==
    ASSUME WholeInv, ~spoilt, UNCHANGED <<buffer, in, out, count, text, due>>,
           NEW t \in Thread, NEW p \in Place \ Ringing, pc[t] \notin Ringing, Goto(t, p),
           \A u \in Thread \ {t} : msg'[u] = msg[u] /\ pos'[u] = pos[u] /\ old'[u] = old[u]
    PROVE  Placed'
<1>1. /\ pc'[t] = p /\ \A u \in Thread \ {t} : pc'[u] = pc[u]
  BY WholeFacts DEF Goto
<1>2. /\ Held' = Held /\ \A j \in Int : Cell(j)' = Cell(j)
  BY DEF Held, Cell
<1>3. Placed
  BY WholeFacts
<1>4. DueInRing'
  BY <1>3 DEF Placed, DueInRing, Cell
<1>5. InIdle'
  <2> SUFFICES ASSUME \A u \in Thread : pc'[u] \notin Ringing
               PROVE  count' = Held' /\ in' = Cell(count)'
    BY DEF InIdle, Ringing
  <2>1. \A u \in Thread : pc[u] \notin Ringing
    BY <1>1
  <2>2. count = Held /\ in = Cell(count)
    BY <1>3, <2>1 DEF Placed, InIdle, Ringing
  <2>3. Cell(count)' = Cell(count)
    BY DEF Cell
  <2> QED BY <1>2, <2>2, <2>3
<1>6. ASSUME NEW u \in Thread PROVE InWriter(u)'
  <2>1. CASE u = t
    BY <1>1, <2>1 DEF InWriter, Ringing, At
  <2>2. CASE u # t
    <3>1. InWriter(u) /\ pc'[u] = pc[u] /\ msg'[u] = msg[u] /\ pos'[u] = pos[u] /\ old'[u] = old[u]
      BY <1>1, <1>3, <2>2 DEF Placed
    <3> QED BY <1>2, <3>1 DEF InWriter, Written, At, Cell
  <2> QED BY <2>1, <2>2
<1>7. InReader'
  <2>1. "io" \in Thread
    BY Sizes
  <2>2. CASE t = "io"
    BY <1>1, <2>2 DEF InReader, Reading, At, Ringing
  <2>3. CASE t # "io"
    BY <1>1, <1>2, <1>3, <2>1, <2>3 DEF Placed, InReader, Reading, At, Cell
  <2> QED BY <2>2, <2>3
<1> QED
  BY <1>4, <1>5, <1>6, <1>7 DEF Placed

(* Within WriteDisplayBuf a thread that is alone puts its message behind     *)
(* the texts that are in the ring.                                           *)
LEMMA WriterStep ==
    ASSUME WholeInv, ~spoilt, NEW t \in Thread,
           SetFlag(t) \/ Put(t) \/ Wrap(t) \/ Inc(t) \/ IncLast(t)
    PROVE  Placed'
<1>1. Inside(t) /\ pc[t] \in {"set", "put", "wrap", "inc"}
  BY DEF SetFlag, Put, Wrap, Inc, IncLast, At, Inside
<1>2. \A u \in Thread \ {t} : pc[u] \notin Ringing
  BY <1>1, AloneInRing
<1>3. text = <<>> /\ Len(text) = 0
  BY <1>1, <1>2, Sizes DEF WholeInv, TextTaken, Reading, At, Ringing
<1>4. Placed /\ count <= Cells /\ count \in Nat /\ pos[t] \in 1..(Chars + 1) /\ Held \in Nat
  BY WholeFacts
<1>5. UNCHANGED <<out, text>> /\ \A j \in Int : Cell(j)' = Cell(j)
  BY DEF SetFlag, Put, Wrap, Inc, IncLast, readVars, ringVars, Cell
<1>6. \A u \in Thread \ {t} : pc'[u] = pc[u]
  BY WholeFacts DEF SetFlag, Put, Wrap, Inc, IncLast, Goto, Return
<1>7. ASSUME pc'[t] \in {"put", "wrap", "inc"}, InWriter(t)', DueInRing'
      PROVE  Placed'
  <2>1. InIdle'
    BY <1>7 DEF InIdle
  <2>2. \A u \in Thread : InWriter(u)'
    BY <1>2, <1>6, <1>7 DEF InWriter, At, Ringing
  <2>3. InReader'
    BY <1>2, <1>6, <1>7, Sizes DEF InReader, Reading, At, Ringing
  <2> QED BY <1>7, <2>1, <2>2, <2>3 DEF Placed
<1>8. \A i \in 1..Len(due), p \in 1..(Chars + 1) :
        /\ Begin(i) + p - 1 \in 0..(Held - 1)
        /\ buffer[Cell(Begin(i) + p - 1)] = Message(due[i])[p]
  <2> SUFFICES ASSUME NEW i \in 1..Len(due), NEW p \in 1..(Chars + 1)
               PROVE  /\ Begin(i) + p - 1 \in 0..(Held - 1)
                      /\ buffer[Cell(Begin(i) + p - 1)] = Message(due[i])[p]
    OBVIOUS
  <2>1. Begin(i) \in Nat /\ Begin(i) + Chars + 1 <= Held
    <3>1. Len(due) \in Nat /\ i \in Nat \ {0}
      BY WholeFacts
    <3> QED BY <3>1, Begins DEF Held
  <2>2. Begin(i) + p - 1 \in 0..(Held - 1) /\ Begin(i) + p - 1 - 0 = Begin(i) + p - 1
    BY <1>4, <2>1, Sizes
  <2>3. Begin(i) + p - 1 >= Len(text)
    BY <1>3, <2>2
  <2> QED BY <1>3, <1>4, <2>2, <2>3 DEF Placed, DueInRing
<1>9. ASSUME UNCHANGED <<buffer, due>> PROVE DueInRing' /\ Held' = Held
  <2>1. DueInRing'
    BY <1>4, <1>5, <1>9 DEF Placed, DueInRing, Cell
  <2> QED BY <1>9, <2>1 DEF Held
<1>10. CASE SetFlag(t)
  <2>1. /\ pc[t] = "set" /\ pc'[t] = "put" /\ pos'[t] = 1
        /\ UNCHANGED <<buffer, due, in, count, msg>>
    BY <1>10, WholeFacts DEF SetFlag, At, Goto, ringVars, ghosts
  <2>2. count = Held /\ in = Cell(count)
    BY <1>2, <1>4, <2>1 DEF Placed, InIdle, Ringing
  <2>3. InWriter(t)'
    BY <1>4, <1>5, <1>9, <2>1, <2>2 DEF InWriter, Written, At, Cell
  <2> QED BY <1>7, <1>9, <2>1, <2>3
<1>11. CASE Put(t)
  <2>1. /\ pc[t] = "put" /\ pc'[t] = "wrap" /\ count < Cells /\ in' = in + 1
        /\ UNCHANGED <<due, count, pos, msg>>
        /\ buffer' = [buffer EXCEPT ![in] = Message(msg[t])[pos[t]]]
    BY <1>11, WholeFacts DEF Put, At, Goto, ghosts
  <2>2. count = Held + pos[t] - 1 /\ in = Cell(count) /\ Written(t, pos[t] - 1)
    BY <1>4, <2>1 DEF Placed, InWriter, At
  <2>3. /\ buffer'[Cell(count)] = Message(msg[t])[pos[t]]
        /\ \A j \in 0..(count - 1) : buffer'[Cell(j)] = buffer[Cell(j)]
    <3>1. count \in 0..(Cells - 1)
      BY <1>4, <2>1, Sizes
    <3>2. Cell(count) \in DOMAIN buffer
      BY <3>1, WholeFacts, CellsApart
    <3>3. ASSUME NEW j \in 0..(count - 1) PROVE Cell(j) # Cell(count) /\ Cell(j) \in DOMAIN buffer
      <4>1. j \in 0..(Cells - 1) /\ j # count
        BY <3>1, Sizes
      <4> QED BY <3>1, <4>1, WholeFacts, CellsApart
    <3> QED BY <2>1, <2>2, <3>2, <3>3
  <2>4. DueInRing'
    <3> SUFFICES ASSUME NEW i \in 1..Len(due), NEW p \in 1..(Chars + 1)
                 PROVE  buffer'[Cell(Begin(i) + p - 1)] = Message(due[i])[p]
      <4>1. ASSUME NEW i \in 1..Len(due), NEW p \in 1..(Chars + 1)
            PROVE  /\ Begin(i) + p - 1 \in Int
                   /\ Begin(i) + p - 1 - 0 = Begin(i) + p - 1
        BY <1>4, <1>8
      <4> QED BY <1>3, <1>5, <2>1, <4>1 DEF DueInRing
    <3>1. Begin(i) + p - 1 \in 0..(count - 1)
      BY <1>4, <1>8, <2>2
    <3> QED BY <1>8, <2>3, <3>1
  <2>5. Held' = Held
    BY <2>1 DEF Held
  <2>6. ASSUME NEW p \in 1..pos[t] PROVE buffer'[Cell(Held + p - 1)] = Message(msg[t])[p]
    <3>1. CASE p = pos[t]
      BY <2>2, <2>3, <3>1
    <3>2. CASE p # pos[t]
      <4>1. p \in 1..(pos[t] - 1) /\ Held + p - 1 \in 0..(count - 1)
        BY <1>4, <2>2, <3>2
      <4> QED BY <2>2, <2>3, <4>1 DEF Written
    <3> QED BY <3>1, <3>2
  <2>7. \A p \in 1..pos[t] : Held + p - 1 \in Int
    BY <1>4
  <2>8. Written(t, pos[t])'
    BY <1>5, <2>1, <2>5, <2>6, <2>7 DEF Written
  <2>9. in' = Cell(count)' + 1
    BY <1>4, <1>5, <2>1, <2>2
  <2>10. InWriter(t)'
    BY <2>1, <2>2, <2>5, <2>8, <2>9 DEF InWriter, At
  <2> QED BY <1>7, <2>1, <2>4, <2>10
<1>12. CASE Wrap(t)
  <2>1. /\ pc[t] = "wrap" /\ pc'[t] = "inc" /\ in' = IF in >= Cells THEN 0 ELSE in
        /\ old'[t] = count /\ UNCHANGED <<buffer, due, count, pos, msg>>
    BY <1>12, WholeFacts DEF Wrap, At, Goto, ghosts
  <2>2. count = Held + pos[t] - 1 /\ in = Cell(count) + 1 /\ Written(t, pos[t]) /\ count < Cells
    BY <1>4, <2>1 DEF Placed, InWriter, At, WholeInv, IInv, Alone
  <2>3. in' = Cell(count + 1)
    <3>1. count \in 0..(Cells - 1)
      BY <1>4, <2>2, Sizes
    <3>2. Cell(count + 1) = IF Cell(count) + 1 >= Cells THEN 0 ELSE Cell(count) + 1
      BY <3>1, WholeFacts, CellsApart
    <3> QED BY <2>1, <2>2, <3>2
  <2>4. Written(t, pos[t])' /\ Held' = Held
    BY <1>5, <1>9, <2>1, <2>2 DEF Written, Cell
  <2>5. Cell(count + 1)' = Cell(count + 1)
    BY <1>5, <2>1 DEF Cell
  <2>6. InWriter(t)'
    BY <2>1, <2>2, <2>3, <2>4, <2>5 DEF InWriter, At
  <2> QED BY <1>7, <1>9, <2>1, <2>6
<1>13. CASE Inc(t)
  <2>1. /\ pc[t] = "inc" /\ pc'[t] = "put" /\ count' = old[t] + 1 /\ pos'[t] = pos[t] + 1
        /\ UNCHANGED <<buffer, due, in, msg>>
    BY <1>13, WholeFacts DEF Inc, At, Goto, ghosts
  <2>2. count = Held + pos[t] - 1 /\ in = Cell(count + 1) /\ old[t] = count /\ Written(t, pos[t])
    BY <1>4, <2>1 DEF Placed, InWriter, At
  <2>3. count' = count + 1 /\ count' = Held + pos'[t] - 1 /\ pos'[t] - 1 = pos[t]
    BY <1>4, <2>1, <2>2
  <2>4. Written(t, pos[t] - 1)' /\ Held' = Held
    BY <1>5, <1>9, <2>1, <2>2, <2>3 DEF Written, Cell
  <2>5. in' = Cell(count)'
    BY <1>5, <2>1, <2>2, <2>3 DEF Cell
  <2>6. InWriter(t)'
    BY <2>1, <2>3, <2>4, <2>5 DEF InWriter, At
  <2> QED BY <1>7, <1>9, <2>1, <2>6
<1>14. CASE IncLast(t)
  <2>1. /\ pc[t] = "inc" /\ pc'[t] \in {"loop", "idle"} /\ count' = old[t] + 1
        /\ pos[t] = Chars + 1 /\ due' = Append(due, msg[t])
        /\ UNCHANGED <<buffer, in>>
    BY <1>14, WholeFacts DEF IncLast, Return, At, Goto
  <2>2. count = Held + Chars /\ in = Cell(count + 1) /\ old[t] = count /\ Written(t, Chars + 1)
    BY <1>4, <2>1, Sizes DEF Placed, InWriter, At
  <2>3. /\ Len(due') = Len(due) + 1 /\ due'[Len(due) + 1] = msg[t] /\ Len(due) \in Nat
        /\ \A i \in 1..Len(due) : due'[i] = due[i]
    BY <2>1, WholeFacts
  <2>4. Held' = Held + Chars + 1
    <3>1. Held' = Begin(Len(due) + 1 + 1)
      BY <2>3 DEF Held, Begin
    <3>2. Begin(Len(due) + 1 + 1) = Begin(Len(due) + 1) + Chars + 1
      BY <2>3, Begins
    <3> QED BY <3>1, <3>2 DEF Held
  <2>5. count' = Held' /\ count' = count + 1 /\ in' = Cell(count)'
    BY <1>4, <1>5, <2>1, <2>2, <2>4, Sizes DEF Cell
  <2>6. DueInRing'
    <3> SUFFICES ASSUME NEW i \in 1..Len(due'), NEW p \in 1..(Chars + 1)
                 PROVE  buffer[Cell(Begin(i) + p - 1)] = Message(due'[i])[p]
      <4>1. ASSUME NEW i \in 1..Len(due'), NEW p \in 1..(Chars + 1)
            PROVE  /\ Begin(i) + p - 1 \in Int
                   /\ Begin(i) + p - 1 - 0 = Begin(i) + p - 1
        <5>1. Begin(i) \in Nat
          BY <2>3, Begins
        <5> QED BY <5>1, Sizes
      <4>2. Len(text') = 0 /\ \A j \in Int : Cell(j)' = Cell(j)
        BY <1>3, <1>5
      <4>3. \A i \in Int : Begin(i)' = Begin(i)
        BY DEF Begin
      <4> QED BY <2>1, <4>1, <4>2, <4>3 DEF DueInRing
    <3>1. CASE i \in 1..Len(due)
      BY <1>8, <2>3, <3>1
    <3>2. CASE i \notin 1..Len(due)
      <4>1. i = Len(due) + 1 /\ Begin(i) = Held
        BY <2>3, <3>2 DEF Held
      <4> QED BY <2>2, <2>3, <4>1 DEF Written
    <3> QED BY <3>1, <3>2
  <2>7. /\ InIdle' /\ InReader' /\ \A u \in Thread : InWriter(u)'
    <3>1. \A u \in Thread : pc'[u] \notin Ringing
      BY <1>2, <1>6, <2>1 DEF Ringing
    <3>2. InIdle'
      BY <2>5 DEF InIdle
    <3>3. InReader'
      BY <3>1, Sizes DEF InReader, Reading, At, Ringing
    <3>4. \A u \in Thread : InWriter(u)'
      BY <3>1 DEF InWriter, At, Ringing
    <3> QED BY <3>2, <3>3, <3>4
  <2> QED BY <2>6, <2>7 DEF Placed
<1> QED
  BY <1>10, <1>11, <1>12, <1>13, <1>14

-----------------------------------------------------------------------------
(* When ReadDisplayBuf is alone it takes the first text byte by byte, and    *)
(* finds it complete at its terminator and not before.                       *)
LEMMA ReadingFirst ==
    ASSUME WholeInv, ~spoilt, Reading
    PROVE  /\ Inside("io") /\ "io" \in Thread
           /\ \A u \in Thread \ {"io"} : pc[u] \notin Ringing \cup {"set"}
           /\ due # <<>> /\ Len(due) \in Nat \ {0} /\ due[1] \in Nat
           /\ \A q \in 1..Len(text) : text[q] = Message(due[1])[q]
           /\ Held >= Chars + 1
<1>1. Inside("io") /\ "io" \in Thread
  BY Sizes DEF Reading, At, Inside
<1>2. due # <<>> /\ \A q \in 1..Len(text) : text[q] = Message(due[1])[q]
  BY WholeFacts DEF Placed, InReader
<1>3. Len(due) \in Nat \ {0} /\ due[1] \in Nat
  BY <1>2, WholeFacts
<1>4. Held >= Chars + 1
  <2>1. 1 \in 1..Len(due)
    BY <1>3
  <2>2. Begin(1) + Chars + 1 <= Begin(Len(due) + 1)
    BY <1>3, <2>1, Begins
  <2>3. Held \in Nat
    BY WholeFacts
  <2> QED BY <2>2, <2>3, Begins, Sizes DEF Held
<1> QED
  BY <1>1, <1>2, <1>3, <1>4, AloneInRing

LEMMA CompleteAtEnd ==
    ASSUME Chars <= Longest, WholeInv, ~spoilt, At("io", "dec")
    PROVE  /\ Len(text) \in 1..(Chars + 1)
           /\ Complete <=> Len(text) = Chars + 1
           /\ Complete => Shown = Text(due[1])
<1>1. Reading /\ text \in Seq(Nat \X Nat)
  BY WholeFacts DEF Reading
<1>2. Len(text) \in 1..(Chars + 1)
  BY WholeFacts DEF Placed, InReader
<1>3. text[Len(text)] = Message(due[1])[Len(text)] /\ due[1] \in Nat
  BY <1>1, <1>2, ReadingFirst
<1>4. text[Len(text)] = End <=> Len(text) = Chars + 1
  BY <1>2, <1>3, MessageShape
<1>5. Complete <=> Len(text) = Chars + 1
  BY <1>2, <1>4, Sizes DEF Complete
<1>6. ASSUME Complete PROVE Shown = Text(due[1])
  <2>1. Len(text) = Chars + 1
    BY <1>5, <1>6
  <2>2. text = Message(due[1])
    BY <1>1, <1>3, <2>1, ReadingFirst, MessageShape, SeqEqual
  <2>3. text # <<>> /\ Len(text) - 1 = Chars
    BY <2>1, Sizes
  <2> QED BY <1>6, <2>2, <2>3 DEF Shown, Text
<1> QED
  BY <1>2, <1>5, <1>6

(* As long as it stays in ReadDisplayBuf the rest of the ring is untouched.  *)
LEMMA ReaderGoesOn ==
    ASSUME WholeInv, ~spoilt, "io" \in Thread,
           \A u \in Thread \ {"io"} : pc[u] \notin Ringing,
           NEW p \in {"read", "dec"}, Goto("io", p), DueInRing', InReader'
    PROVE  Placed'
<1>1. pc'["io"] = p /\ \A u \in Thread \ {"io"} : pc'[u] = pc[u]
  BY WholeFacts DEF Goto
<1>2. InIdle'
  BY <1>1 DEF InIdle
<1>3. \A u \in Thread : InWriter(u)'
  BY <1>1 DEF InWriter, At, Ringing
<1> QED
  BY <1>2, <1>3 DEF Placed

LEMMA ReadStep ==
    ASSUME Chars <= Longest, WholeInv, ~spoilt, ~spoilt',
           StartReading \/ TakeByte \/ DecAndGoOn \/ DecAndShow \/ RunsOut
    PROVE  Placed' /\ ~garbled'
<1>1. /\ Placed /\ "io" \in Thread /\ Held \in Nat /\ count \in 0..Cells /\ ~garbled
      /\ Len(due) \in Nat /\ Len(text) \in Nat
  BY WholeFacts, Sizes DEF WholeInv
<1>2. CASE StartReading
  <2>1. /\ count # 0 /\ text' = <<>> /\ pc["io"] = "loop" /\ Goto("io", "read") /\ ~Meets("io")
        /\ UNCHANGED <<buffer, in, out, count, due, garbled>>
    BY <1>2 DEF StartReading, Touch, At, ringVars
  <2>2. \A u \in Thread \ {"io"} : pc[u] \notin Ringing
    BY <2>1 DEF Meets, Inside, Ringing
  <2>3. count = Held /\ in = Cell(count)
    BY <1>1, <2>1, <2>2 DEF Placed, InIdle, Ringing
  <2>4. text = <<>> /\ Len(text) = 0 /\ Len(text') = 0 /\ text' = text
    BY <2>1 DEF WholeInv, TextTaken, Reading, At
  <2>5. due # <<>>
    <3>1. CASE due = <<>>
      BY <2>1, <2>3, <3>1, Begins DEF Held
    <3> QED BY <3>1
  <2>6. DueInRing'
    BY <1>1, <2>1, <2>4 DEF Placed, DueInRing, Begin, Cell
  <2>7. pc'["io"] = "read" /\ Held' = Held /\ Cell(count)' = Cell(count)
    BY <1>1, <2>1, WholeFacts DEF Goto, Held, Cell
  <2>8. InReader'
    BY <1>1, <2>1, <2>3, <2>4, <2>5, <2>7, Sizes DEF InReader, At
  <2> QED BY <1>1, <2>1, <2>2, <2>6, <2>8, ReaderGoesOn
<1>3. CASE TakeByte
  <2>1. /\ pc["io"] = "read" /\ Goto("io", "dec") /\ text' = Append(text, buffer[out])
        /\ out' = Next1(out) /\ old'["io"] = count
        /\ UNCHANGED <<buffer, in, count, due, garbled>>
    BY <1>1, <1>3, WholeFacts DEF TakeByte, At, ghosts
  <2>2. Reading
    BY <2>1 DEF Reading, At
  <2>3. /\ Len(text) <= Chars /\ count = Held - Len(text) /\ in = Cell(count) /\ count > 0
    BY <1>1, <1>3, <2>1 DEF TakeByte, Placed, InReader, At
  <2>4. buffer[out] = Message(due[1])[Len(text) + 1]
    <3>1. 1 \in 1..Len(due) /\ Len(text) + 1 \in 1..(Chars + 1)
      BY <1>1, <2>2, <2>3, ReadingFirst, Sizes
    <3>2. /\ Begin(1) + (Len(text) + 1) - 1 >= Len(text)
          /\ Begin(1) + (Len(text) + 1) - 1 - Len(text) = 0
      BY <1>1, Begins
    <3>3. buffer[Cell(Begin(1) + (Len(text) + 1) - 1 - Len(text))]
            = Message(due[1])[Len(text) + 1]
      BY <1>1, <3>1, <3>2 DEF Placed, DueInRing
    <3>4. Cell(0) = out
      BY WholeFacts, CellsApart
    <3> QED BY <3>2, <3>3, <3>4
  <2>5. /\ Len(text') = Len(text) + 1 /\ text'[Len(text) + 1] = buffer[out]
        /\ \A q \in 1..Len(text) : text'[q] = text[q]
    <3>1. buffer[out] \in Nat \X Nat
      BY WholeFacts
    <3> QED BY <2>1, <3>1, WholeFacts
  <2>6. \A q \in 1..Len(text') : text'[q] = Message(due[1])[q]
    BY <1>1, <2>2, <2>4, <2>5, ReadingFirst
  <2>7. \A j \in 1..Cells : Cell(j - 1)' = Cell(j)
    <3>1. out \in 0..(Cells - 1) /\ out' = IF out + 1 < Cells THEN out + 1 ELSE 0
      <4>1. out \in 0..(Cells - 1)
        BY WholeFacts
      <4> QED BY <2>1, <4>1, Sizes DEF Next1
    <3> QED BY <3>1, Sizes DEF Cell
  <2>8. DueInRing'
    <3>1. ASSUME NEW i \in 1..Len(due), NEW p \in 1..(Chars + 1),
                 Begin(i) + p - 1 >= Len(text) + 1
          PROVE  \E j \in 1..Cells : /\ j - 1 = Begin(i) + p - 1 - (Len(text) + 1)
                                     /\ buffer[Cell(j)] = Message(due[i])[p]
      <4>1. Begin(i) \in Nat /\ Begin(i) + Chars + 1 <= Held
        <5>1. i \in Nat \ {0}
          OBVIOUS
        <5> QED BY <1>1, <5>1, Begins DEF Held
      <4>2. PICK j \in 1..Cells : j = Begin(i) + p - 1 - Len(text)
        BY <1>1, <2>3, <3>1, <4>1, Sizes
      <4>3. Begin(i) + p - 1 >= Len(text) /\ j - 1 = Begin(i) + p - 1 - (Len(text) + 1)
        BY <1>1, <3>1, <4>1, <4>2
      <4>4. buffer[Cell(j)] = Message(due[i])[p]
        BY <1>1, <4>2, <4>3 DEF Placed, DueInRing
      <4> QED BY <4>3, <4>4
    <3>2. ASSUME NEW i \in 1..Len(due), NEW p \in 1..(Chars + 1),
                 (Begin(i) + p - 1 >= Len(text))'
          PROVE  (buffer[Cell(Begin(i) + p - 1 - Len(text))] = Message(due[i])[p])'
      <4>1. Begin(i)' = Begin(i) /\ Message(due[i])' = Message(due[i])
        BY <2>1 DEF Begin, Message
      <4>2. PICK j \in 1..Cells : /\ j - 1 = Begin(i) + p - 1 - (Len(text) + 1)
                                  /\ buffer[Cell(j)] = Message(due[i])[p]
        BY <2>5, <3>1, <3>2, <4>1
      <4>3. (Begin(i) + p - 1 - Len(text))' = j - 1
        BY <2>5, <4>1, <4>2
      <4>4. Cell(Begin(i) + p - 1 - Len(text))' = Cell(j - 1)'
        BY <4>3 DEF Cell
      <4> QED BY <2>1, <2>7, <4>1, <4>2, <4>4
    <3> QED BY <2>1, <3>2 DEF DueInRing
  <2>9. InReader'
    <3>1. pc'["io"] = "dec" /\ Held' = Held
      BY <1>1, <2>1, WholeFacts DEF Goto, Held
    <3>2. /\ Len(text') \in 1..(Chars + 1) /\ count' = Held' - Len(text') + 1
          /\ count \in 1..Cells
      BY <1>1, <2>1, <2>3, <2>5, <3>1, Sizes
    <3>3. in' = Cell(count - 1)' /\ count' = count
      BY <2>1, <2>3, <2>7, <3>2
    <3> QED BY <2>1, <2>2, <2>6, <3>1, <3>2, <3>3, ReadingFirst DEF InReader, At, Cell
  <2> QED BY <1>1, <2>1, <2>2, <2>8, <2>9, ReadingFirst, ReaderGoesOn
<1>4. ASSUME DecAndGoOn \/ DecAndShow
      PROVE  /\ pc["io"] = "dec" /\ Reading /\ count' = count - 1 /\ count >= 1
             /\ count = Held - Len(text) + 1 /\ in = Cell(count - 1)
             /\ UNCHANGED <<buffer, in, out>> /\ Cell(count)' = Cell(count - 1)
  <2>1. pc["io"] = "dec" /\ Reading /\ count' = old["io"] - 1 /\ UNCHANGED <<buffer, in, out>>
    BY <1>4 DEF DecAndGoOn, DecAndShow, Reading, At
  <2>2. count = Held - Len(text) + 1 /\ in = Cell(count - 1) /\ old["io"] = count
    BY <1>1, <2>1 DEF Placed, InReader, At
  <2>3. count >= 1
    BY <2>1, <2>2, <1>1 DEF WholeInv, IInv, ReaderSawSome, At
  <2>4. count' = count - 1
    BY <2>1, <2>2
  <2> QED BY <2>1, <2>2, <2>3, <2>4 DEF Cell
<1>5. CASE DecAndGoOn
  <2>1. ~Complete /\ Goto("io", "read") /\ UNCHANGED <<text, due, garbled>>
    BY <1>5 DEF DecAndGoOn, readVars, ghosts
  <2>2. Len(text) <= Chars
    BY <1>4, <1>5, <2>1, CompleteAtEnd, Sizes DEF At
  <2>3. DueInRing'
    BY <1>1, <1>4, <1>5, <2>1 DEF Placed, DueInRing, Begin, Cell
  <2>4. pc'["io"] = "read" /\ Held' = Held
    BY <1>1, <2>1, WholeFacts DEF Goto, Held
  <2>5. InReader'
    <3>1. count' = Held' - Len(text')
      BY <1>1, <1>4, <1>5, <2>1, <2>4
    <3>2. Len(text') <= Chars /\ in' = Cell(count)'
      BY <1>4, <1>5, <2>1, <2>2
    <3>3. due' # <<>> /\ \A q \in 1..Len(text') : text'[q] = Message(due'[1])[q]
      BY <1>4, <1>5, <2>1, ReadingFirst
    <3> QED BY <2>4, <3>1, <3>2, <3>3 DEF InReader, At
  <2> QED BY <1>1, <1>4, <1>5, <2>1, <2>3, <2>5, ReadingFirst, ReaderGoesOn
<1>6. CASE DecAndShow
  <2>1. /\ Complete /\ Goto("io", "loop") /\ text' = <<>>
        /\ due' = IF due = <<>> THEN <<>> ELSE Tail(due)
        /\ garbled' = (garbled \/ (~spoilt /\ (due = <<>> \/ Shown # Text(Head(due)))))
    BY <1>6 DEF DecAndShow, Show
  <2>2. Len(text) = Chars + 1 /\ Shown = Text(due[1])
    BY <1>4, <1>6, <2>1, CompleteAtEnd DEF At
  <2>3. /\ due # <<>> /\ Head(due) = due[1] /\ due' = Tail(due) /\ Len(due') = Len(due) - 1
        /\ \A i \in 1..Len(due') : due'[i] = due[i + 1] /\ i + 1 \in 1..Len(due)
    BY <1>4, <1>6, <2>1, ReadingFirst, WholeFacts
  <2>4. ~garbled'
    BY <1>1, <2>1, <2>2, <2>3
  <2>5. pc'["io"] = "loop" /\ \A u \in Thread : pc'[u] \notin Ringing
    BY <1>1, <1>4, <1>6, <2>1, ReadingFirst, WholeFacts DEF Goto, Ringing
  <2>6. Held' = Held - (Chars + 1)
    <3>1. Held' = Begin(Len(due)) /\ Len(due) \in Nat \ {0}
      BY <1>1, <1>4, <1>6, <2>3, ReadingFirst DEF Held, Begin
    <3>2. Begin(Len(due) + 1) = Begin(Len(due)) + Chars + 1 /\ Begin(Len(due)) \in Nat
      BY <3>1, Begins
    <3> QED BY <3>1, <3>2, Sizes DEF Held
  <2>7. count' = Held' /\ in' = Cell(count)'
    BY <1>1, <1>4, <1>6, <2>2, <2>6, Sizes
  <2>8. DueInRing'
    <3> SUFFICES ASSUME NEW i \in 1..Len(due'), NEW p \in 1..(Chars + 1)
                 PROVE  buffer[Cell(Begin(i) + p - 1)] = Message(due[i + 1])[p]
      <4>1. ASSUME NEW i \in 1..Len(due'), NEW p \in 1..(Chars + 1)
            PROVE  /\ Begin(i) + p - 1 \in Int
                   /\ Begin(i) + p - 1 - 0 = Begin(i) + p - 1
        <5>1. i \in Nat \ {0}
          OBVIOUS
        <5>2. Begin(i) \in Nat
          BY <5>1, Begins
        <5> QED BY <5>2, Sizes
      <4>2. Len(text') = 0 /\ \A j \in Int : Cell(j)' = Cell(j)
        BY <1>4, <1>6, <2>1 DEF Cell
      <4>3. \A j \in Int : Begin(j)' = Begin(j)
        BY DEF Begin
      <4> QED BY <1>4, <1>6, <2>3, <4>1, <4>2, <4>3 DEF DueInRing
    <3>1. i + 1 \in 1..Len(due) /\ i \in Nat \ {0}
      BY <2>3
    <3>2. Begin(i + 1) = Begin(i) + Chars + 1 /\ Begin(i) \in Nat
      BY <3>1, Begins
    <3>3. /\ Begin(i + 1) + p - 1 >= Len(text)
          /\ Begin(i + 1) + p - 1 - Len(text) = Begin(i) + p - 1
      BY <2>2, <3>2, Sizes
    <3>4. buffer[Cell(Begin(i + 1) + p - 1 - Len(text))] = Message(due[i + 1])[p]
      BY <1>1, <3>1, <3>3 DEF Placed, DueInRing
    <3> QED BY <3>3, <3>4
  <2>9. InIdle' /\ InReader' /\ \A u \in Thread : InWriter(u)'
    <3>1. InIdle'
      BY <2>7 DEF InIdle
    <3>2. InReader'
      BY <2>5 DEF InReader, Reading, At
    <3>3. \A u \in Thread : InWriter(u)'
      BY <2>5 DEF InWriter, At, Ringing
    <3> QED BY <3>1, <3>2, <3>3
  <2> QED BY <2>4, <2>8, <2>9 DEF Placed
<1>7. CASE RunsOut
  <2>1. pc["io"] = "read" /\ count = 0 /\ Reading
    BY <1>7 DEF RunsOut, Reading, At
  <2>2. Len(text) <= Chars /\ count = Held - Len(text)
    BY <1>1, <2>1 DEF Placed, InReader, At
  <2> QED BY <1>1, <2>1, <2>2, ReadingFirst, Sizes
<1> QED
  <2>1. garbled' = garbled \/ DecAndShow \/ RunsOut
    BY DEF StartReading, TakeByte, DecAndGoOn, DecAndShow, RunsOut, ghosts
  <2> QED BY <1>1, <1>2, <1>3, <1>5, <1>6, <1>7, <2>1

(* Show makes a spoilt ring clean again when it is really empty. *)
LEMMA ShowCleans ==
    ASSUME WholeInv, spoilt, ~spoilt', DecAndShow \/ RunsOut
    PROVE  Placed'
<1>1. /\ Goto("io", "loop") /\ text' = <<>> /\ in = out /\ count' = 0
      /\ \A t \in Writer : ~Inside(t)
      /\ UNCHANGED <<in, out>> /\ due' = IF due = <<>> THEN <<>> ELSE Tail(due)
  BY DEF DecAndShow, RunsOut, Show, ringVars
<1>2. due' = <<>> /\ Len(due') = 0
  BY <1>1 DEF WholeInv, TextTaken
<1>3. \A t \in Thread : pc'[t] \notin Ringing
  BY <1>1, WholeFacts DEF Goto, Thread, Inside, Ringing
<1>4. Held' = 0 /\ Cell(count)' = out
  <2>1. Held' = Begin(1)
    BY <1>2 DEF Held, Begin
  <2>2. out \in 0..(Cells - 1)
    BY WholeFacts
  <2> QED BY <1>1, <2>1, <2>2, Begins, Sizes DEF Cell
<1>5. DueInRing'
  BY <1>2 DEF DueInRing
<1>6. InIdle'
  BY <1>1, <1>4 DEF InIdle
<1>7. InReader'
  BY <1>3, Sizes DEF InReader, Reading, At, Ringing
<1>8. \A t \in Thread : InWriter(t)'
  BY <1>3 DEF InWriter, At, Ringing
<1> QED
  BY <1>5, <1>6, <1>7, <1>8 DEF Placed

LEMMA PlacedStep ==
    ASSUME Chars <= Longest, WholeInv, [Next]_vars
    PROVE  ~garbled' /\ (~spoilt' => Placed')
<1> DEFINE Kept == ~garbled' /\ (~spoilt' => Placed')
<1>0. ~garbled /\ "io" \in Thread /\ pc \in [Thread -> Place]
  BY WholeFacts, Sizes DEF WholeInv
<1>1. ASSUME NEW t \in Thread, Call(t), pc[t] \in {"idle", "loop"},
             UNCHANGED <<ringVars, pos, old, readVars, ghosts>>
      PROVE  Kept
  <2>1. /\ Goto(t, "wait") /\ pc[t] \notin Ringing /\ "wait" \in Place \ Ringing
        /\ \A u \in Thread \ {t} : msg'[u] = msg[u]
    BY <1>1, WholeFacts DEF Call, Ringing, Place
  <2> QED BY <1>0, <1>1, <2>1, OutsideStep DEF ringVars, readVars, ghosts
<1>2. ASSUME NEW t \in Thread, WriteDisplayBuf(t) PROVE Kept
  <2>1. garbled' = garbled
    BY <1>2 DEF WriteDisplayBuf, GiveUp, SeeFree, SetFlag, Put, Wrap, Inc, IncLast, Full, ghosts
  <2>2. CASE GiveUp(t)
    <3>1. PICK p \in {"loop", "idle"} : Goto(t, p)
      BY <2>2 DEF GiveUp, Return
    <3>2. /\ pc[t] \notin Ringing /\ p \in Place \ Ringing
          /\ \A u \in Thread \ {t} : msg'[u] = msg[u] /\ pos'[u] = pos[u] /\ old'[u] = old[u]
      BY <2>2, <3>1, WholeFacts DEF GiveUp, Return, Ringing, Place, At
    <3> QED BY <1>0, <2>2, <3>1, <3>2, OutsideStep DEF GiveUp, ringVars, readVars, ghosts
  <2>3. CASE SeeFree(t)
    <3> SUFFICES ASSUME ~spoilt' PROVE Placed'
      BY <1>0, <2>1
    <3>1. /\ Goto(t, "set") /\ pc[t] \notin Ringing /\ "set" \in Place \ Ringing
          /\ ~spoilt /\ due' = due
      BY <2>3 DEF SeeFree, Touch, Ringing, Place, At
    <3> QED BY <2>3, <3>1, OutsideStep DEF SeeFree, ringVars, readVars
  <2>4. CASE SetFlag(t) \/ Put(t) \/ Wrap(t) \/ Inc(t) \/ IncLast(t)
    <3>1. spoilt' = spoilt
      BY <2>4 DEF SetFlag, Put, Wrap, Inc, IncLast, ghosts
    <3> QED BY <1>0, <2>1, <2>4, <3>1, WriterStep
  <2>5. CASE Full(t)
    <3>1. spoilt'
      <4>1. Touch(TRUE)
        BY <2>5 DEF Full
      <4> QED BY <4>1, Zenon DEF Touch
    <3> QED BY <1>0, <2>1, <3>1
  <2>6. \/ GiveUp(t) \/ SeeFree(t) \/ Full(t)
        \/ SetFlag(t) \/ Put(t) \/ Wrap(t) \/ Inc(t) \/ IncLast(t)
    BY <1>2 DEF WriteDisplayBuf
  <2> HIDE DEF Kept
  <2> QED BY <2>2, <2>3, <2>4, <2>5, <2>6
<1>3. CASE ShowStatus \/ Over \/ UNCHANGED vars
  <2>1. /\ UNCHANGED <<buffer, in, out, count, text, due, pc, msg, pos, old>>
        /\ UNCHANGED <<spoilt, garbled>>
    BY <1>3 DEF ShowStatus, Over, vars, ringVars, readVars, ghosts
  <2> SUFFICES ASSUME ~spoilt PROVE Placed'
    BY <1>0, <2>1
  <2>2. Placed
    BY WholeFacts
  <2>3. DueInRing' /\ InIdle'
    BY <2>1, <2>2 DEF Placed, DueInRing, InIdle, Held, Begin, Cell, Message
  <2>4. ASSUME NEW t \in Thread PROVE InWriter(t)'
    <3>1. /\ InWriter(t) /\ pc'[t] = pc[t] /\ msg'[t] = msg[t] /\ pos'[t] = pos[t]
          /\ old'[t] = old[t] /\ count' = count /\ in' = in /\ buffer' = buffer
      BY <2>1, <2>2 DEF Placed
    <3>2. /\ Held' = Held /\ \A j \in Int : Cell(j)' = Cell(j)
      BY <2>1 DEF Held, Cell
    <3> QED BY <2>1, <3>1, <3>2 DEF InWriter, Written, At, Cell
  <2>5. InReader'
    BY <2>1, <2>2 DEF Placed, InReader, Reading, At, Held, Begin, Cell, Message
  <2> QED BY <2>3, <2>4, <2>5 DEF Placed
<1>4. CASE StartReading \/ TakeByte \/ DecAndGoOn \/ DecAndShow \/ RunsOut
  <2>1. CASE ~spoilt /\ ~spoilt'
    BY <1>4, <2>1, ReadStep
  <2>2. CASE spoilt
    <3>1. ~garbled'
      BY <1>0, <1>4, <2>2
         DEF StartReading, TakeByte, DecAndGoOn, DecAndShow, RunsOut, Show, ghosts
    <3>2. CASE DecAndShow \/ RunsOut
      BY <2>2, <3>1, <3>2, ShowCleans
    <3>3. CASE StartReading \/ TakeByte \/ DecAndGoOn
      BY <2>2, <3>1, <3>3 DEF StartReading, TakeByte, DecAndGoOn, Touch, ghosts
    <3> QED BY <1>4, <3>2, <3>3
  <2>3. CASE ~spoilt /\ spoilt'
    <3>1. StartReading
      BY <1>4, <2>3 DEF TakeByte, DecAndGoOn, DecAndShow, RunsOut, Show, ghosts
    <3> QED BY <1>0, <2>3, <3>1 DEF StartReading
  <2> QED BY <2>1, <2>2, <2>3
<1> QED
  <2>1. ASSUME NEW t \in Writer, Announce(t) PROVE Kept
    BY <1>1, <2>1 DEF Announce, Thread, At
  <2>2. CASE AnnounceLoop
    BY <1>0, <1>1, <2>2 DEF AnnounceLoop, At
  <2> QED
    BY <1>2, <1>3, <1>4, <1>0, <2>1, <2>2
       DEF Next, IoPass, GestDisplay, ReadDisplayBuf, Thread

(* What ReadDisplayBuf shows is a message as WriteDisplayBuf was given it,   *)
(* and they are shown in their order, unless two threads were in the ring at *)
(* once or it was full: for any number of writers, any ring and any messages *)
(* that ReadDisplayBuf can take in one go.                                   *)
THEOREM MessagesStayWhole ==
    ASSUME Chars <= Longest
    PROVE  Spec => []MessagesWhole
<1>1. Init => WholeInv
  <2> SUFFICES ASSUME Init PROVE WholeInv
    OBVIOUS
  <2>1. IInv
    BY InitIInv
  <2>2. /\ RingTypes /\ TextTaken
    <3>1. buffer \in [0..(Cells - 1) -> Nat \X Nat]
      BY DEF Init, End
    <3>2. msg \in [Thread -> Nat]
      BY DEF Init
    <3> QED BY <3>1, <3>2 DEF Init, RingTypes, TextTaken
  <2>3. Placed
    <3>1. \A t \in Thread : pc[t] \notin Ringing
      BY DEF Init, Ringing
    <3>2. DueInRing
      BY DEF Init, DueInRing
    <3>3. InIdle
      <4>1. Held = 0 /\ count = 0 /\ in = 0 /\ out = 0
        BY Begins DEF Init, Held
      <4> QED BY <4>1, Sizes DEF InIdle, Cell
    <3>4. InReader /\ \A t \in Thread : InWriter(t)
      BY <3>1, Sizes DEF InReader, InWriter, Reading, At, Ringing
    <3> QED BY <3>2, <3>3, <3>4 DEF Placed
  <2> QED BY <2>1, <2>2, <2>3 DEF WholeInv, Init
<1>2. WholeInv /\ [Next]_vars => WholeInv'
  BY IInvStep, TypesStep, PlacedStep DEF WholeInv
<1>3. WholeInv => MessagesWhole
  BY DEF WholeInv, MessagesWhole
<1> QED
  BY <1>1, <1>2, <1>3, PTL DEF Spec
=============================================================================
