----------------------------- MODULE ParserProofs -----------------------------
(***************************************************************************)
(* What Parser does first and last in a pass: it puts frames together from *)
(* bytes (RadioParser), and it looks at an alive timer (AliveTimers).  Two *)
(* systems with variables of their own; their names do not meet.           *)
(*                                                                         *)
(* For bytes of any modulus and frames of any length: the sums of a frame  *)
(* are those Parser forms byte by byte, so a whole frame is accepted when   *)
(* Parser is in step and a changed one is not; and a whole frame without a *)
(* colon inside brings Parser back in step whatever it has received before.*)
(* For any table of sensors, and whatever commands change it: a failure is *)
(* logged of a sensor that has been silent for its aliveperiod, and of no  *)
(* other, at most one round of DeviceIndex later.                          *)
(***************************************************************************)
EXTENDS RadioParser, AliveTimers, WellFoundedInduction, SequenceTheorems, TLAPS

-----------------------------------------------------------------------------
(* The sums of a sequence of bytes, which Sums defines by recursion.       *)

(* Induction over the naturals, as the least counterexample. *)
LEMMA LeastNumber ==
    ASSUME NEW T, T \subseteq Nat, T # {}
    PROVE  \E n \in T : \A k \in T : n <= k
<1> DEFINE R == {ss \in Nat \X Nat : ss[1] < ss[2]}
<1>1. IsWellFoundedOn(R, Nat)
  BY NatLessThanWellFounded DEF OpToRel
<1>2. PICK n \in T : \A k \in T : <<k, n>> \notin R
  <2> HIDE DEF R
  <2> QED BY <1>1, WFMin
<1>3. ASSUME NEW k \in T PROVE n <= k
  <2>1. n \in Nat /\ k \in Nat /\ ~(k < n)
    BY <1>2, <1>3
  <2> QED BY <2>1
<1> QED
  BY <1>3

(* g holds the sums of the first m bytes of s. *)
AreSums(g, s, m) ==
    /\ g \in [0..m -> Byte]
    /\ g[0] = 0
    /\ \A n \in 1..m : g[n] = (g[n - 1] + s[n]) % Modulus

LEMMA ByteSum ==
    ASSUME NEW a \in Byte, NEW b \in Byte
    PROVE  (a + b) % Modulus \in Byte
BY RadioAssumption DEF Byte

(* Sums can be formed, one byte after the other ... *)
LEMMA SumsExist ==
    ASSUME NEW s \in Seq(Byte)
    PROVE  \E g : AreSums(g, s, Len(s))
<1> DEFINE T == {m \in 0..Len(s) : ~\E g : AreSums(g, s, m)}
<1>1. Len(s) \in Nat /\ Len(s) \in 0..Len(s)
  OBVIOUS
<1>2. SUFFICES ASSUME T # {} PROVE FALSE
  BY <1>1
<1>3. PICK m \in T : \A k \in T : m <= k
  <2>1. T \subseteq Nat
    OBVIOUS
  <2> HIDE DEF T
  <2> QED BY <1>2, <2>1, LeastNumber
<1>4. m \in 1..Len(s)
  <2>1. AreSums([n \in 0..0 |-> 0], s, 0)
    BY RadioAssumption DEF AreSums, Byte
  <2>2. m # 0 /\ m \in 0..Len(s)
    BY <2>1
  <2> QED BY <2>2
<1>5. m - 1 \in 0..Len(s) /\ m - 1 \notin T
  <2>1. m - 1 \in 0..Len(s) /\ ~(m <= m - 1)
    BY <1>1, <1>4
  <2> HIDE DEF T
  <2> QED BY <1>3, <2>1
<1>6. PICK g : AreSums(g, s, m - 1)
  BY <1>5
<1> DEFINE h == [n \in 0..m |-> IF n < m THEN g[n] ELSE (g[m - 1] + s[m]) % Modulus]
<1>7. AreSums(h, s, m)
  <2>1. g[m - 1] \in Byte /\ s[m] \in Byte
    BY <1>4, <1>6 DEF AreSums
  <2>2. (g[m - 1] + s[m]) % Modulus \in Byte
    BY <2>1, ByteSum
  <2>3. h \in [0..m -> Byte] /\ h[0] = 0
    BY <1>4, <1>6, <2>2 DEF AreSums
  <2>4. \A n \in 1..m : h[n] = (h[n - 1] + s[n]) % Modulus
    BY <1>4, <1>6 DEF AreSums
  <2> QED BY <2>3, <2>4 DEF AreSums
<1> QED
  BY <1>7

(* ... so the recursive definition of Sums defines them. *)
LEMMA SumsAreSums ==
    ASSUME NEW s \in Seq(Byte)
    PROVE  AreSums(Sums(s), s, Len(s))
<1> DEFINE Def(g) == [n \in 0..Len(s) |->
                        IF n = 0 THEN 0 ELSE (g[n - 1] + s[n]) % Modulus]
           h == Sums(s)
           T == {n \in 0..Len(s) : h[n] \notin Byte}
<1>1. PICK g : AreSums(g, s, Len(s))
  BY SumsExist
<1>2. g = Def(g)
  BY <1>1 DEF AreSums
<1>3. h = CHOOSE f : f = Def(f)
  BY DEF Sums
<1>4. h = Def(h)
  BY <1>2, <1>3
<1> HIDE DEF h
<1>5. /\ h[0] = 0
      /\ \A n \in 1..Len(s) : h[n] = (h[n - 1] + s[n]) % Modulus
      /\ h = [n \in 0..Len(s) |-> h[n]]
  <2>1. \A n \in 0..Len(s) :
           h[n] = IF n = 0 THEN 0 ELSE (h[n - 1] + s[n]) % Modulus
    BY <1>4
  <2>2. h = [n \in 0..Len(s) |-> h[n]]
    BY <1>4
  <2> HIDE DEF Def
  <2>3. Len(s) \in Nat
    OBVIOUS
  <2> QED BY <2>1, <2>2, <2>3
<1>6. T = {}
  <2>1. SUFFICES ASSUME T # {} PROVE FALSE
    OBVIOUS
  <2>2. PICK n \in T : \A k \in T : n <= k
    <3>1. T \subseteq Nat
      OBVIOUS
    <3> HIDE DEF T
    <3> QED BY <2>1, <3>1, LeastNumber
  <2>3. n \in 1..Len(s) /\ n - 1 \in 0..Len(s) /\ ~(n <= n - 1)
    BY <1>5, RadioAssumption DEF Byte
  <2>4. h[n - 1] \in Byte /\ s[n] \in Byte
    BY <2>2, <2>3
  <2> QED BY <1>5, <2>3, <2>4, ByteSum
<1>7. h \in [0..Len(s) -> Byte]
  BY <1>5, <1>6
<1> QED
  BY <1>5, <1>7 DEF AreSums, h

(* A byte decides the sum, and the sum before it decides it too. *)
LEMMA SumTells ==
    ASSUME NEW a \in Byte, NEW b \in Byte, NEW x \in Byte, NEW y \in Byte,
           (a + x) % Modulus = (b + y) % Modulus
    PROVE  a = b <=> x = y
<1>1. (a + x) % Modulus = IF a + x < Modulus THEN a + x ELSE a + x - Modulus
  BY RadioAssumption DEF Byte
<1>2. (b + y) % Modulus = IF b + y < Modulus THEN b + y ELSE b + y - Modulus
  BY RadioAssumption DEF Byte
<1> QED
  BY <1>1, <1>2, RadioAssumption DEF Byte

-----------------------------------------------------------------------------
(* The sums of a frame, which ends with the last of them. *)
FrameSums(f) == Sums(Body(f))

LEMMA FrameShape ==
    ASSUME NEW f \in Payload
    PROVE  /\ Frame(f) \in Seq(Byte) /\ Len(Frame(f)) = Length
           /\ Frame(f)[1] = Colon /\ Frame(f)[2] = Gw[1] /\ Frame(f)[3] = Gw[2]
           /\ \A i \in 1..Fields : Frame(f)[i + 3] = f[i]
           /\ FrameSums(f) \in [0..(Length - 1) -> Byte]
           /\ FrameSums(f)[0] = 0
           /\ \A n \in 1..(Length - 1) :
                 FrameSums(f)[n] = (FrameSums(f)[n - 1] + Frame(f)[n]) % Modulus
           /\ Frame(f)[Length] = FrameSums(f)[Length - 1]
<1> DEFINE B == Body(f)
<1>1. /\ B \in Seq(Byte) /\ Len(B) = Fields + 3
      /\ B[1] = Colon /\ B[2] = Gw[1] /\ B[3] = Gw[2]
      /\ \A i \in 1..Fields : B[i + 3] = f[i]
  <2> DEFINE colon == <<Colon>>
             head == colon \o Gw
  <2>1. /\ colon \in Seq(Byte) /\ Len(colon) = 1 /\ colon[1] = Colon
        /\ Gw \in Seq(Byte) /\ Len(Gw) = 2
    <3>1. PICK a \in Byte, b \in Byte : Gw = <<a, b>>
      BY RadioAssumption
    <3> QED BY <3>1, RadioAssumption
  <2>2. f \in Seq(Byte) /\ Len(f) = Fields
    BY RadioAssumption DEF Payload
  <2>3. ASSUME NEW s \in Seq(Byte), NEW t \in Seq(Byte)
        PROVE  /\ s \o t \in Seq(Byte) /\ Len(s \o t) = Len(s) + Len(t)
               /\ \A i \in 1..Len(s) : (s \o t)[i] = s[i]
               /\ \A i \in 1..Len(t) : (s \o t)[Len(s) + i] = t[i]
    OBVIOUS
  <2> HIDE DEF colon
  <2>4. /\ head \in Seq(Byte) /\ Len(head) = 3
        /\ head[1] = Colon /\ head[2] = Gw[1] /\ head[3] = Gw[2]
    <3>1. /\ head \in Seq(Byte) /\ Len(head) = Len(colon) + Len(Gw)
          /\ \A i \in 1..Len(colon) : head[i] = colon[i]
          /\ \A i \in 1..Len(Gw) : head[Len(colon) + i] = Gw[i]
      BY <2>1, <2>3
    <3>2. head[1 + 1] = Gw[1] /\ head[1 + 2] = Gw[2]
      BY <2>1, <3>1
    <3> QED BY <2>1, <3>1, <3>2
  <2> HIDE DEF head
  <2>5. B = head \o f
    BY DEF Body, head, colon
  <2> HIDE DEF B
  <2>6. /\ B \in Seq(Byte) /\ Len(B) = Len(head) + Len(f)
        /\ \A i \in 1..Len(head) : B[i] = head[i]
        /\ \A i \in 1..Len(f) : B[Len(head) + i] = f[i]
    BY <2>2, <2>3, <2>4, <2>5
  <2>7. \A i \in 1..Fields : B[i + 3] = f[i]
    <3>1. \A i \in 1..Fields : 3 + i = i + 3
      BY RadioAssumption
    <3> QED BY <2>2, <2>4, <2>6, <3>1
  <2> QED
    BY <2>2, <2>4, <2>6, <2>7, RadioAssumption
<1>2. Length - 1 = Fields + 3 /\ Fields \in Nat /\ Length \in Nat
  BY RadioAssumption DEF Length
<1>3. AreSums(FrameSums(f), B, Length - 1)
  BY <1>1, <1>2, SumsAreSums DEF FrameSums
<1>4. Frame(f) = Append(B, FrameSums(f)[Length - 1]) /\ FrameSums(f)[Length - 1] \in Byte
  BY <1>2, <1>3 DEF Frame, FrameSums, AreSums
<1> HIDE DEF B
<1>5. /\ Frame(f) \in Seq(Byte) /\ Len(Frame(f)) = Length
      /\ \A i \in 1..(Length - 1) : Frame(f)[i] = B[i]
      /\ Frame(f)[Length] = FrameSums(f)[Length - 1]
  <2>1. ASSUME NEW s \in Seq(Byte), NEW x \in Byte
        PROVE  /\ Append(s, x) \in Seq(Byte) /\ Len(Append(s, x)) = Len(s) + 1
               /\ \A i \in 1..Len(s) : Append(s, x)[i] = s[i]
               /\ Append(s, x)[Len(s) + 1] = x
    OBVIOUS
  <2>2. Len(B) = Length - 1 /\ Len(B) + 1 = Length
    BY <1>1, <1>2
  <2> QED BY <1>1, <1>4, <2>1, <2>2
<1>6. /\ Frame(f)[1] = Colon /\ Frame(f)[2] = Gw[1] /\ Frame(f)[3] = Gw[2]
      /\ \A i \in 1..Fields : Frame(f)[i + 3] = f[i]
  <2>1. /\ {1, 2, 3} \subseteq 1..(Length - 1)
        /\ \A i \in 1..Fields : i + 3 \in 1..(Length - 1)
    BY <1>2
  <2> QED BY <1>1, <1>5, <2>1
<1> QED
  BY <1>2, <1>3, <1>5, <1>6 DEF AreSums

-----------------------------------------------------------------------------
(* How many bytes of the unit Parser has taken. *)
Taken == Length - Len(tty)

(* The fields are those of the state. *)
FieldsOfState ==
    /\ protocolstate \in 1..3 => fields = <<>>
    /\ protocolstate \in 3..(Fields + 3) => Len(fields) = protocolstate - 3

(* Parser has followed f so far, and its sum is that of the frame. *)
Following(f) ==
    /\ protocolstate = Taken
    /\ Taken > 0 => protocolchecksum = FrameSums(f)[Taken]
    /\ \A i \in 1..Len(fields) : Taken > 0 => fields[i] = f[i]

(* A whole frame that found Parser in step. *)
WholeFollowed ==
    unit.kind = "whole" /\ aligned =>
        IF tty = <<>>
          THEN accepted = unit.fields /\ protocolstate = 0
          ELSE /\ \A j \in 1..Len(tty) : tty[j] = Frame(unit.fields)[Taken + j]
               /\ Following(unit.fields)

(* A frame whose byte i has become b, and what Parser has of it when it was *)
(* in step: until byte i, all; then it keeps step with a sum that is wrong  *)
(* now, or has lost step and is too late to reach the end of a frame.       *)
ChangedAt(f, i, b) ==
    /\ b # Frame(f)[i]
    /\ \A j \in 1..Len(tty) : tty[j] = [Frame(f) EXCEPT ![i] = b][Taken + j]
    /\ IF Taken < i
         THEN Following(f)
         ELSE \/ protocolstate < Taken
              \/ /\ protocolstate = Taken /\ Taken < Length /\ i > 3
                 /\ protocolchecksum # FrameSums(f)[Taken]

ChangedFollowed ==
    unit.kind = "changed" /\ aligned =>
        /\ accepted = None
        /\ \E i \in 1..Length, b \in Byte : ChangedAt(unit.fields, i, b)

PayloadOfUnit == unit.kind # "stray" => unit.fields \in Payload

ParserInv ==
    /\ TypeOK
    /\ PayloadOfUnit
    /\ FieldsOfState
    /\ WholeFollowed
    /\ ChangedFollowed

LEMMA LengthOfFrames == Length \in Nat /\ Length = Fields + 4 /\ Fields \in Nat \ {0}
  BY RadioAssumption DEF Length

(* What is left of a queue after its first byte. *)
LEMMA TailOfQueue ==
    ASSUME NEW s \in Seq(Byte), s # <<>>
    PROVE  /\ Len(s) \in Nat \ {0} /\ Head(s) = s[1] /\ Head(s) \in Byte
           /\ Tail(s) \in Seq(Byte) /\ Len(Tail(s)) = Len(s) - 1
           /\ \A j \in 1..Len(Tail(s)) : j + 1 \in 1..Len(s) /\ Tail(s)[j] = s[j + 1]
           /\ Tail(s) = <<>> <=> Len(s) = 1
<1>1. Len(s) \in Nat \ {0} /\ Head(s) = s[1] /\ Head(s) \in Byte
  OBVIOUS
<1>2. Tail(s) \in Seq(Byte) /\ Len(Tail(s)) = Len(s) - 1
  OBVIOUS
<1>3. \A j \in 1..Len(Tail(s)) : Tail(s)[j] = s[j + 1]
  OBVIOUS
<1>4. \A j \in 1..Len(Tail(s)) : j + 1 \in 1..Len(s)
  BY <1>1, <1>2
<1>5. Tail(s) = <<>> <=> Len(Tail(s)) = 0
  BY <1>2, EmptySeq
<1> QED
  BY <1>1, <1>2, <1>3, <1>4, <1>5

(* One byte is taken. *)
LEMMA OneByte ==
    ASSUME TypeOK, Parser
    PROVE  /\ tty # <<>> /\ tty' = Tail(tty) /\ Len(tty) \in 1..Length
           /\ tty' \in Seq(Byte) /\ Len(tty') = Len(tty) - 1
           /\ tty' = <<>> <=> Len(tty) = 1
           /\ \A j \in 1..Len(tty') : j + 1 \in 1..Len(tty) /\ tty'[j] = tty[j + 1]
           /\ Head(tty) = tty[1] /\ Head(tty) \in Byte
           /\ Taken \in 0..(Length - 1) /\ Taken' = Taken + 1
           /\ UNCHANGED <<unit, aligned>>
<1>1. tty # <<>> /\ tty' = Tail(tty) /\ UNCHANGED <<unit, aligned>>
  BY DEF Parser, LookForColon, GatewayByte, FieldByte, ChecksumByte, TakeByte
<1>2. tty \in Seq(Byte) /\ Len(tty) <= Length
  BY DEF TypeOK
<1>3. /\ Len(tty) \in 1..Length
      /\ tty' \in Seq(Byte) /\ Len(tty') = Len(tty) - 1
      /\ \A j \in 1..Len(tty') : j + 1 \in 1..Len(tty) /\ tty'[j] = tty[j + 1]
      /\ Head(tty) = tty[1] /\ Head(tty) \in Byte
      /\ tty' = <<>> <=> Len(tty) = 1
  BY <1>1, <1>2, TailOfQueue, LengthOfFrames
<1>4. Taken \in 0..(Length - 1) /\ Taken' = Taken + 1
  BY <1>3, LengthOfFrames DEF Taken
<1> QED
  BY <1>1, <1>3, <1>4

LEMMA ParserTypes ==
    ASSUME TypeOK, FieldsOfState, Parser
    PROVE  TypeOK' /\ FieldsOfState'
<1> DEFINE TableOk == /\ protocolstate' \in 0..(Fields + 3)
                      /\ protocolchecksum' \in Byte
                      /\ fields' \in Seq(Byte) /\ Len(fields') <= Fields
                      /\ accepted' \in Payload \union {None}
<1>1. /\ tty' \in Seq(Byte) /\ Len(tty') <= Length /\ Head(tty) \in Byte
      /\ unit' = unit /\ aligned' = aligned
  BY OneByte, LengthOfFrames
<1>2. /\ protocolstate \in 0..(Fields + 3) /\ protocolchecksum \in Byte
      /\ fields \in Seq(Byte) /\ Len(fields) <= Fields /\ Len(fields) \in Nat
      /\ accepted \in Payload \union {None}
  BY DEF TypeOK
<1>3. 0 \in Byte /\ Fields \in Nat \ {0}
  BY RadioAssumption DEF Byte
<1>4. (protocolchecksum + Head(tty)) % Modulus \in Byte /\ (0 + Head(tty)) % Modulus \in Byte
  BY <1>1, <1>2, <1>3, ByteSum
<1>5. CASE LookForColon
  <2>1. <<>> \in Seq(Byte) /\ Len(<<>>) = 0
    OBVIOUS
  <2>2. TableOk
    <3>1. protocolstate' \in {0, 1} /\ fields' \in {<<>>, fields} /\ accepted' = accepted
      BY <1>2, <1>5 DEF LookForColon
    <3>2. protocolchecksum' \in Byte
      BY <1>4, <1>5 DEF LookForColon, AddByte
    <3>3. protocolstate' \in 0..(Fields + 3)
      BY <1>3, <3>1
    <3>4. fields' \in Seq(Byte) /\ Len(fields') <= Fields
      <4>1. CASE fields' = <<>>
        <5>1. 0 <= Fields
          BY <1>3
        <5> QED BY <2>1, <4>1, <5>1
      <4>2. CASE fields' = fields
        BY <1>2, <4>2
      <4> QED BY <3>1, <4>1, <4>2
    <3> QED BY <1>2, <3>1, <3>2, <3>3, <3>4
  <2>3. FieldsOfState'
    BY <1>2, <1>3, <1>5, <2>1 DEF LookForColon, FieldsOfState
  <2> QED BY <1>1, <2>2, <2>3 DEF TypeOK
<1>6. CASE GatewayByte
  <2>1. TableOk
    BY <1>2, <1>3, <1>4, <1>6 DEF GatewayByte, AddByte
  <2>2. FieldsOfState'
    <3>1. fields' = <<>> /\ Len(fields') = 0 /\ protocolstate' \in {0, 2, 3}
      BY <1>2, <1>6 DEF GatewayByte, FieldsOfState
    <3> QED BY <1>3, <3>1 DEF FieldsOfState
  <2> QED BY <1>1, <2>1, <2>2 DEF TypeOK
<1>7. CASE FieldByte
  <2>1. /\ protocolstate \in 3..(Fields + 2) /\ protocolstate' = protocolstate + 1
        /\ fields' = Append(fields, Head(tty)) /\ accepted' = accepted
        /\ protocolchecksum' = (protocolchecksum + Head(tty)) % Modulus
    BY <1>7 DEF FieldByte, AddByte
  <2>2. fields' \in Seq(Byte) /\ Len(fields') = Len(fields) + 1
    BY <1>1, <1>2, <2>1
  <2>3. Len(fields) = protocolstate - 3
    BY <1>3, <2>1 DEF FieldsOfState
  <2>4. TableOk /\ FieldsOfState'
    BY <1>2, <1>3, <1>4, <2>1, <2>2, <2>3 DEF FieldsOfState
  <2> QED BY <1>1, <2>4 DEF TypeOK
<1>8. CASE ChecksumByte
  <2>1. fields \in Payload
    <3>1. Len(fields) = Fields
      BY <1>2, <1>3, <1>8 DEF ChecksumByte, FieldsOfState
    <3> QED BY <1>2, <3>1 DEF Payload
  <2>2. TableOk
    BY <1>2, <1>3, <1>4, <1>8, <2>1 DEF ChecksumByte, AddByte
  <2>3. FieldsOfState'
    BY <1>8 DEF ChecksumByte, FieldsOfState
  <2> QED BY <1>1, <2>2, <2>3 DEF TypeOK
<1> QED
  BY <1>5, <1>6, <1>7, <1>8 DEF Parser

(* Parser follows a frame by each of its bytes but the last. *)
LEMMA FollowingStep ==
    ASSUME TypeOK, FieldsOfState, Parser, NEW f \in Payload, Following(f),
           Taken + 1 < Length, Head(tty) = Frame(f)[Taken + 1]
    PROVE  Following(f)' /\ accepted' = accepted
<1> DEFINE k == Taken
<1>1. /\ k \in 0..(Fields + 2) /\ Taken' = k + 1 /\ protocolstate = k
      /\ k > 0 => protocolchecksum = FrameSums(f)[k]
      /\ \A i \in 1..Len(fields) : k > 0 => fields[i] = f[i]
      /\ Fields \in Nat /\ Length - 1 = Fields + 3
  BY OneByte, LengthOfFrames DEF Following
<1>2. /\ FrameSums(f)[k + 1] = (FrameSums(f)[k] + Head(tty)) % Modulus
      /\ FrameSums(f)[0] = 0
  <2>1. k + 1 \in 1..(Length - 1) /\ (k + 1) - 1 = k
    BY <1>1
  <2>2. FrameSums(f)[k + 1] = (FrameSums(f)[(k + 1) - 1] + Frame(f)[k + 1]) % Modulus
    BY <2>1, FrameShape
  <2> QED BY <2>1, <2>2, FrameShape
<1>3. Frame(f)[1] = Colon /\ Frame(f)[2] = Gw[1] /\ Frame(f)[3] = Gw[2]
  BY FrameShape
<1> HIDE DEF k
<1>4. CASE k = 0
  <2>1. LookForColon /\ Head(tty) = Colon
    BY <1>1, <1>3, <1>4 DEF Parser, GatewayByte, FieldByte, ChecksumByte, k
  <2>2. /\ protocolstate' = 1 /\ fields' = <<>> /\ accepted' = accepted
        /\ protocolchecksum' = (0 + Head(tty)) % Modulus
    BY <2>1 DEF LookForColon, AddByte
  <2> QED BY <1>1, <1>2, <1>4, <2>2 DEF Following
<1>5. CASE k \in {1, 2}
  <2>1. GatewayByte /\ Head(tty) = Gw[k]
    BY <1>1, <1>3, <1>5 DEF Parser, LookForColon, FieldByte, ChecksumByte, k
  <2>2. /\ protocolstate' = k + 1 /\ fields' = fields /\ accepted' = accepted
        /\ protocolchecksum' = (protocolchecksum + Head(tty)) % Modulus
    BY <1>1, <2>1 DEF GatewayByte, AddByte
  <2> QED BY <1>1, <1>2, <1>5, <2>2 DEF Following
<1>6. CASE k \in 3..(Fields + 2)
  <2>1. FieldByte
    BY <1>1, <1>6 DEF Parser, LookForColon, GatewayByte, ChecksumByte
  <2>2. /\ protocolstate' = k + 1 /\ fields' = Append(fields, Head(tty))
        /\ accepted' = accepted
        /\ protocolchecksum' = (protocolchecksum + Head(tty)) % Modulus
    BY <1>1, <2>1 DEF FieldByte, AddByte
  <2>3. fields \in Seq(Byte) /\ Head(tty) \in Byte /\ Len(fields) = k - 3
    BY <1>1, <1>6, OneByte DEF TypeOK, FieldsOfState
  <2>4. Head(tty) = f[k - 2]
    <3>1. k - 2 \in 1..Fields /\ (k - 2) + 3 = k + 1
      BY <1>1, <1>6
    <3>2. Frame(f)[(k - 2) + 3] = f[k - 2]
      BY <3>1, FrameShape
    <3> QED BY <3>1, <3>2 DEF k
  <2>5. \A i \in 1..Len(fields') : fields'[i] = f[i]
    <3>1. /\ Len(fields') = k - 2
          /\ \A i \in 1..(k - 3) : fields'[i] = fields[i]
          /\ fields'[k - 2] = Head(tty)
      BY <1>6, <2>2, <2>3
    <3>2. \A i \in 1..(k - 3) : fields[i] = f[i]
      BY <1>1, <1>6, <2>3
    <3>3. ASSUME NEW i \in 1..(k - 2) PROVE i \in 1..(k - 3) \/ i = k - 2
      BY <1>1
    <3> QED BY <2>4, <3>1, <3>2, <3>3
  <2> QED BY <1>1, <1>2, <1>6, <2>2, <2>5 DEF Following
<1> QED
  BY <1>1, <1>4, <1>5, <1>6

LEMMA WholeStep ==
    ASSUME ParserInv, Parser
    PROVE  WholeFollowed'
<1> SUFFICES ASSUME unit.kind = "whole", aligned
             PROVE  WholeFollowed'
  BY OneByte DEF ParserInv, WholeFollowed
<1>1. PICK f \in Payload : f = unit.fields
  BY DEF ParserInv, PayloadOfUnit
<1>2. /\ tty # <<>> /\ Following(f)
      /\ \A j \in 1..Len(tty) : tty[j] = Frame(f)[Taken + j]
  BY <1>1, OneByte DEF ParserInv, WholeFollowed
<1>3. Head(tty) = Frame(f)[Taken + 1] /\ unit'.fields = f /\ Taken \in 0..(Length - 1)
  BY <1>1, <1>2, OneByte DEF ParserInv
<1>4. \A j \in 1..Len(tty') : tty'[j] = Frame(f)[Taken' + j]
  <2> SUFFICES ASSUME NEW j \in 1..Len(tty')
               PROVE  tty'[j] = Frame(f)[Taken' + j]
    OBVIOUS
  <2>1. /\ j + 1 \in 1..Len(tty) /\ tty'[j] = tty[j + 1]
        /\ Taken' = Taken + 1 /\ Len(tty') \in Nat
    BY OneByte DEF ParserInv
  <2>2. Taken + (j + 1) = Taken' + j
    BY <1>3, <2>1, LengthOfFrames
  <2> QED BY <1>2, <2>1, <2>2
<1>5. CASE Taken + 1 < Length
  <2>1. Following(f)'
    BY <1>2, <1>3, <1>5, FollowingStep DEF ParserInv
  <2>2. tty' # <<>>
    BY <1>5, OneByte, LengthOfFrames DEF ParserInv, Taken
  <2> QED BY <1>3, <1>4, <2>1, <2>2 DEF WholeFollowed
<1>6. CASE ~(Taken + 1 < Length)
  <2>1. Taken = Length - 1 /\ Taken = Fields + 3 /\ Taken > 0 /\ tty' = <<>>
    BY <1>3, <1>6, OneByte, LengthOfFrames DEF ParserInv, Taken
  <2>2. protocolstate = Fields + 3 /\ protocolchecksum = FrameSums(f)[Length - 1]
    BY <1>2, <2>1 DEF Following
  <2>3. ChecksumByte
    BY <2>2, LengthOfFrames DEF Parser, LookForColon, GatewayByte, FieldByte
  <2>4. Head(tty) = protocolchecksum
    <3>1. Taken + 1 = Length
      BY <2>1, LengthOfFrames
    <3> QED BY <1>3, <2>2, <3>1, FrameShape
  <2>5. accepted' = fields /\ protocolstate' = 0
    BY <2>3, <2>4 DEF ChecksumByte
  <2>6. fields = f
    <3>1. fields \in Seq(Byte) /\ Len(fields) = Fields
      BY <2>2, LengthOfFrames DEF ParserInv, TypeOK, FieldsOfState
    <3>2. \A i \in 1..Fields : fields[i] = f[i]
      BY <1>2, <2>1, <3>1 DEF Following
    <3>3. f \in Seq(Byte) /\ Len(f) = Fields
      BY LengthOfFrames DEF Payload
    <3> QED BY <3>1, <3>2, <3>3, SeqEqual
  <2> QED BY <1>3, <2>1, <2>5, <2>6 DEF WholeFollowed
<1> QED
  BY <1>5, <1>6

LEMMA ChangedStep ==
    ASSUME ParserInv, Parser
    PROVE  ChangedFollowed'
<1> SUFFICES ASSUME unit.kind = "changed", aligned
             PROVE  ChangedFollowed'
  BY OneByte DEF ParserInv, ChangedFollowed
<1>1. PICK f \in Payload : f = unit.fields
  BY DEF ParserInv, PayloadOfUnit
<1>2. accepted = None /\ \E i \in 1..Length, b \in Byte : ChangedAt(f, i, b)
  BY <1>1 DEF ParserInv, ChangedFollowed
<1>3. PICK i \in 1..Length, b \in Byte : ChangedAt(f, i, b)
  BY <1>2
<1> DEFINE r == [Frame(f) EXCEPT ![i] = b]
<1>4. /\ Frame(f) \in Seq(Byte) /\ Len(Frame(f)) = Length
      /\ r[i] = b /\ \A j \in 1..Length : j # i => r[j] = Frame(f)[j]
  BY FrameShape
<1>5. /\ b # Frame(f)[i] /\ Head(tty) = r[Taken + 1] /\ unit'.fields = f
      /\ Taken \in 0..(Length - 1) /\ Taken' = Taken + 1 /\ Head(tty) \in Byte
      /\ protocolstate \in 0..(Fields + 3) /\ protocolchecksum \in Byte
  <2>1. /\ Head(tty) = tty[1] /\ Len(tty) \in 1..Length /\ Head(tty) \in Byte
        /\ Taken \in 0..(Length - 1) /\ Taken' = Taken + 1 /\ unit' = unit
    BY OneByte DEF ParserInv
  <2>2. b # Frame(f)[i] /\ \A j \in 1..Len(tty) : tty[j] = r[Taken + j]
    BY <1>3 DEF ChangedAt
  <2>3. protocolstate \in 0..(Fields + 3) /\ protocolchecksum \in Byte
    BY DEF ParserInv, TypeOK
  <2> HIDE DEF r
  <2>4. 1 \in 1..Len(tty)
    BY <2>1
  <2>5. Head(tty) = r[Taken + 1]
    BY <2>1, <2>2, <2>4
  <2> QED BY <1>1, <2>1, <2>2, <2>3, <2>5
<1>6. \A j \in 1..Len(tty') : tty'[j] = r[Taken' + j]
  <2> SUFFICES ASSUME NEW j \in 1..Len(tty')
               PROVE  tty'[j] = r[Taken' + j]
    OBVIOUS
  <2>1. /\ j + 1 \in 1..Len(tty) /\ tty'[j] = tty[j + 1] /\ Len(tty') \in Nat
    BY OneByte DEF ParserInv
  <2>2. Taken + (j + 1) = Taken' + j
    BY <1>5, <2>1, LengthOfFrames
  <2>3. tty[j + 1] = r[Taken + (j + 1)]
    BY <1>3, <2>1 DEF ChangedAt
  <2> QED BY <2>1, <2>2, <2>3
<1> HIDE DEF r
<1> DEFINE Late == protocolstate' < Taken'
           Wrong == /\ protocolstate' = Taken' /\ Taken' < Length /\ i > 3
                    /\ protocolchecksum' # FrameSums(f)[Taken']
<1>7. SUFFICES /\ accepted' = accepted
               /\ IF Taken' < i THEN Following(f)' ELSE Late \/ Wrong
  BY <1>2, <1>5, <1>6 DEF ChangedFollowed, ChangedAt, r
<1>8. /\ protocolstate' \in 0..(protocolstate + 1)
      /\ protocolstate # Fields + 3 => accepted' = accepted
  BY <1>5 DEF Parser, LookForColon, GatewayByte, FieldByte, ChecksumByte
<1>9. CASE Taken + 1 < i
  BY <1>3, <1>4, <1>5, <1>9, FollowingStep, LengthOfFrames DEF ParserInv, ChangedAt
<1>10. CASE Taken + 1 = i
  <2>1. /\ protocolstate = Taken /\ Head(tty) = b
        /\ Taken > 0 => protocolchecksum = FrameSums(f)[Taken]
    BY <1>3, <1>4, <1>5, <1>10 DEF ChangedAt, Following
  <2>2. CASE Taken = 0
    <3>1. LookForColon /\ Head(tty) # Colon
      BY <1>5, <1>10, <2>1, <2>2, LengthOfFrames, FrameShape
         DEF Parser, GatewayByte, FieldByte, ChecksumByte
    <3> QED BY <1>5, <1>10, <2>1, <2>2, <3>1 DEF LookForColon
  <2>3. CASE Taken \in {1, 2}
    <3>1. GatewayByte /\ Head(tty) # Gw[protocolstate]
      BY <1>5, <1>10, <2>1, <2>3, LengthOfFrames, FrameShape
         DEF Parser, LookForColon, FieldByte, ChecksumByte
    <3> QED BY <1>5, <1>10, <2>1, <2>3, <3>1 DEF GatewayByte
  <2>4. CASE Taken \in 3..(Fields + 2)
    <3>1. FieldByte
      BY <2>1, <2>4, LengthOfFrames DEF Parser, LookForColon, GatewayByte, ChecksumByte
    <3>2. /\ protocolstate' = Taken' /\ Taken' < Length /\ i > 3 /\ accepted' = accepted
          /\ protocolchecksum' = (FrameSums(f)[Taken] + b) % Modulus
      BY <1>5, <1>10, <2>1, <2>4, <3>1, LengthOfFrames DEF FieldByte, AddByte
    <3>3. /\ FrameSums(f)[i] = (FrameSums(f)[Taken] + Frame(f)[i]) % Modulus
          /\ FrameSums(f)[Taken] \in Byte /\ Frame(f)[i] \in Byte
      <4>1. i \in 1..(Length - 1) /\ i - 1 = Taken /\ Taken \in 0..(Length - 1)
        BY <1>5, <1>10, <2>4, LengthOfFrames
      <4>2. FrameSums(f)[i] = (FrameSums(f)[i - 1] + Frame(f)[i]) % Modulus
        BY <4>1, FrameShape
      <4>3. FrameSums(f) \in [0..(Length - 1) -> Byte]
        BY FrameShape
      <4>4. Frame(f)[i] \in Byte
        BY <1>4, <4>1
      <4> QED BY <4>1, <4>2, <4>3, <4>4
    <3>4. protocolchecksum' # FrameSums(f)[i]
      BY <1>5, <3>2, <3>3, SumTells
    <3> QED BY <1>5, <1>10, <3>2, <3>4
  <2>5. CASE Taken = Fields + 3
    <3>1. ChecksumByte /\ i = Length
      BY <1>10, <2>1, <2>5, LengthOfFrames DEF Parser, LookForColon, GatewayByte, FieldByte
    <3>2. Head(tty) # protocolchecksum
      BY <1>5, <2>1, <2>5, <3>1, LengthOfFrames, FrameShape
    <3>3. protocolstate' = 0 /\ accepted' = accepted
      BY <3>1, <3>2 DEF ChecksumByte
    <3> QED BY <1>5, <1>10, <3>3, LengthOfFrames
  <2> QED
    BY <1>5, <2>2, <2>3, <2>4, <2>5, LengthOfFrames
<1>11. CASE Taken + 1 > i
  <2>1. ~(Taken < i) /\ ~(Taken' < i) /\ Taken + 1 # i
    BY <1>5, <1>11
  <2>2. Head(tty) = Frame(f)[Taken + 1]
    BY <1>4, <1>5, <2>1, LengthOfFrames
  <2>3. CASE protocolstate < Taken
    <3>1. protocolstate # Fields + 3 /\ protocolstate' < Taken'
      BY <1>5, <1>8, <2>3, LengthOfFrames
    <3> QED BY <1>8, <2>1, <3>1
  <2>4. CASE /\ protocolstate = Taken /\ Taken < Length /\ i > 3
             /\ protocolchecksum # FrameSums(f)[Taken]
    <3>1. CASE Taken < Fields + 3
      <4>1. FieldByte
        BY <1>5, <2>1, <2>4, <3>1, LengthOfFrames
           DEF Parser, LookForColon, GatewayByte, ChecksumByte
      <4>2. /\ protocolstate' = Taken' /\ Taken' < Length /\ accepted' = accepted
            /\ protocolchecksum' = (protocolchecksum + Frame(f)[Taken + 1]) % Modulus
        BY <1>5, <2>2, <2>4, <3>1, <4>1, LengthOfFrames DEF FieldByte, AddByte
      <4>3. /\ FrameSums(f)[Taken + 1] = (FrameSums(f)[Taken] + Frame(f)[Taken + 1]) % Modulus
            /\ FrameSums(f)[Taken] \in Byte /\ Frame(f)[Taken + 1] \in Byte
        <5>1. Taken + 1 \in 1..(Length - 1) /\ (Taken + 1) - 1 = Taken
              /\ Taken \in 0..(Length - 1)
          BY <1>5, <3>1, LengthOfFrames
        <5>2. FrameSums(f)[Taken + 1] = (FrameSums(f)[(Taken + 1) - 1] + Frame(f)[Taken + 1]) % Modulus
          BY <5>1, FrameShape
        <5> QED BY <1>5, <2>2, <5>1, <5>2, FrameShape
      <4>4. protocolchecksum' # FrameSums(f)[Taken + 1]
        BY <1>5, <2>4, <4>2, <4>3, SumTells
      <4> QED BY <1>5, <2>1, <2>4, <4>2, <4>4
    <3>2. CASE Taken = Fields + 3
      <4>1. ChecksumByte
        BY <2>4, <3>2, LengthOfFrames DEF Parser, LookForColon, GatewayByte, FieldByte
      <4>2. Head(tty) # protocolchecksum
        <5>1. Taken + 1 = Length /\ Taken = Length - 1
          BY <3>2, LengthOfFrames
        <5> QED BY <2>2, <2>4, <5>1, FrameShape
      <4>3. protocolstate' = 0 /\ accepted' = accepted
        BY <4>1, <4>2 DEF ChecksumByte
      <4> QED BY <1>5, <2>1, <4>3
    <3> QED
      BY <1>5, <3>1, <3>2, LengthOfFrames
  <2> QED
    BY <1>3, <2>1, <2>3, <2>4 DEF ChangedAt
<1> QED
  BY <1>5, <1>9, <1>10, <1>11

-----------------------------------------------------------------------------
(* A unit that arrives is as long as the queue is then, so none of it is    *)
(* taken; if Parser is in step, it is in its first state.                   *)
LEMMA ArriveParserInv ==
    ASSUME ParserInv, WholeFrame \/ ChangedFrame \/ StrayByte
    PROVE  ParserInv'
<1>1. /\ accepted' = None /\ aligned' = (protocolstate = 0)
      /\ UNCHANGED <<protocolstate, protocolchecksum, fields>>
  BY DEF WholeFrame, ChangedFrame, StrayByte, Arrive
<1>0. unit'.plain \in BOOLEAN
  <2>1. ASSUME NEW kind, NEW f, NEW bytes, Arrive(kind, f, bytes) PROVE unit'.plain \in BOOLEAN
    BY <2>1 DEF Arrive, Plain
  <2> QED BY <2>1 DEF WholeFrame, ChangedFrame, StrayByte
<1>2. FieldsOfState'
  BY <1>1 DEF ParserInv, FieldsOfState
<1> DEFINE UnitOk == /\ tty' \in Seq(Byte) /\ Len(tty') <= Length
                     /\ unit'.kind \in {"whole", "changed", "stray"}
                     /\ unit'.fields \in Payload \union {None} /\ unit'.plain \in BOOLEAN
<1>3. ASSUME UnitOk PROVE TypeOK'
  BY <1>1, <1>3 DEF ParserInv, TypeOK
<1> HIDE DEF UnitOk
<1>4. (aligned' => protocolstate' = 0) /\ Len(fields') \in Nat
  <2>1. aligned' => protocolstate' = 0
    BY <1>1
  <2>2. fields' \in Seq(Byte)
    BY <1>1 DEF ParserInv, TypeOK
  <2> QED BY <2>1, <2>2
<1>5. ASSUME NEW f \in Payload, aligned', Len(tty') = Length
      PROVE  Taken' = 0 /\ protocolstate' = Taken' /\ Following(f)'
  BY <1>4, <1>5, LengthOfFrames DEF Taken, Following
<1>6. CASE WholeFrame
  <2>1. PICK f \in Payload : Arrive("whole", f, Frame(f))
    BY <1>6 DEF WholeFrame, Frames
  <2>2. /\ tty' = Frame(f) /\ unit'.kind = "whole" /\ unit'.fields = f
        /\ Frame(f) \in Seq(Byte) /\ Len(Frame(f)) = Length
    BY <2>1, FrameShape DEF Arrive
  <2>3. UnitOk
    BY <1>0, <2>2, LengthOfFrames DEF UnitOk
  <2>4. WholeFollowed'
    <3> SUFFICES ASSUME aligned' PROVE WholeFollowed'
      BY DEF WholeFollowed
    <3>1. Taken' = 0 /\ Following(f)'
      BY <1>5, <2>2
    <3>2. tty' # <<>>
      BY <2>2, EmptySeq, LengthOfFrames
    <3>3. \A j \in 1..Len(tty') : tty'[j] = Frame(f)[Taken' + j]
      BY <2>2, <3>1, LengthOfFrames
    <3> QED BY <2>2, <3>1, <3>2, <3>3 DEF WholeFollowed
  <2> QED
    BY <1>2, <1>3, <2>2, <2>3, <2>4 DEF ParserInv, PayloadOfUnit, ChangedFollowed
<1>7. CASE ChangedFrame
  <2>1. PICK s \in Frames, i \in 1..Length, b \in Byte :
          /\ Arrive("changed", s[1], [s[2] EXCEPT ![i] = b])
          /\ <<s[1], [s[2] EXCEPT ![i] = b]>> \notin Frames
    <3>1. PICK t \in ChangedFrames : Arrive("changed", t[1], t[2])
      BY <1>7 DEF ChangedFrame
    <3>2. PICK s \in Frames, i \in 1..Length, b \in Byte :
            t = <<s[1], [s[2] EXCEPT ![i] = b]>>
      BY DEF ChangedFrames
    <3>3. t \notin Frames /\ t[1] = s[1] /\ t[2] = [s[2] EXCEPT ![i] = b]
      BY <3>2 DEF ChangedFrames
    <3> QED BY <3>1, <3>2, <3>3
  <2>2. PICK f \in Payload : s = <<f, Frame(f)>>
    BY DEF Frames
  <2> DEFINE r == [Frame(f) EXCEPT ![i] = b]
  <2>3. Frame(f) \in Seq(Byte) /\ Len(Frame(f)) = Length
    BY FrameShape
  <2>4. b # Frame(f)[i]
    <3> SUFFICES ASSUME b = Frame(f)[i] PROVE FALSE
      OBVIOUS
    <3>1. r = Frame(f)
      BY <2>3
    <3>2. <<f, r>> \in Frames
      BY <3>1 DEF Frames
    <3> QED BY <2>1, <2>2, <3>2
  <2>5. tty' = r /\ unit'.kind = "changed" /\ unit'.fields = f
    BY <2>1, <2>2 DEF Arrive
  <2>6. r \in Seq(Byte) /\ Len(r) = Length
    BY <2>3
  <2> HIDE DEF r
  <2>7. UnitOk
    BY <1>0, <2>5, <2>6, LengthOfFrames DEF UnitOk
  <2>8. ChangedFollowed'
    <3> SUFFICES ASSUME aligned' PROVE ChangedFollowed'
      BY DEF ChangedFollowed
    <3>1. Taken' = 0 /\ Following(f)'
      BY <1>5, <2>5, <2>6
    <3>2. \A j \in 1..Len(tty') : tty'[j] = r[Taken' + j]
      BY <2>5, <2>6, <3>1, LengthOfFrames
    <3>3. ChangedAt(f, i, b)'
      BY <2>4, <3>1, <3>2 DEF ChangedAt, r
    <3> QED BY <1>1, <2>5, <3>3 DEF ChangedFollowed
  <2> QED
    BY <1>2, <1>3, <2>5, <2>7, <2>8 DEF ParserInv, PayloadOfUnit, WholeFollowed
<1>8. CASE StrayByte
  <2>1. PICK b \in Byte : Arrive("stray", None, <<b>>)
    BY <1>8 DEF StrayByte
  <2>2. tty' = <<b>> /\ unit'.kind = "stray" /\ unit'.fields = None
    BY <2>1 DEF Arrive
  <2>3. UnitOk
    BY <1>0, <2>2, LengthOfFrames DEF UnitOk
  <2> QED
    BY <1>2, <1>3, <2>2, <2>3 DEF ParserInv, PayloadOfUnit, WholeFollowed, ChangedFollowed
<1> QED
  BY <1>6, <1>7, <1>8

(* What Parser has of a frame that found it in step, at every byte. *)
THEOREM ParserIsInductive == Spec => []ParserInv
<1>1. Init => ParserInv
  BY RadioAssumption, LengthOfFrames
     DEF Init, ParserInv, TypeOK, PayloadOfUnit, FieldsOfState, WholeFollowed,
         ChangedFollowed, Byte
<1>2. ParserInv /\ [Next]_vars => ParserInv'
  <2> SUFFICES ASSUME ParserInv, [Next]_vars PROVE ParserInv'
    OBVIOUS
  <2>1. CASE UNCHANGED vars
    BY <2>1 DEF vars, parserVars, ParserInv, TypeOK, PayloadOfUnit, FieldsOfState,
       WholeFollowed, ChangedFollowed, ChangedAt, Following, Taken
  <2>2. CASE WholeFrame \/ ChangedFrame \/ StrayByte
    BY <2>2, ArriveParserInv
  <2>3. CASE Parser
    <3>1. PayloadOfUnit'
      BY <2>3, OneByte DEF ParserInv, PayloadOfUnit
    <3>2. TypeOK' /\ FieldsOfState'
      BY <2>3, ParserTypes DEF ParserInv
    <3> QED BY <2>3, <3>1, <3>2, WholeStep, ChangedStep DEF ParserInv
  <2> QED BY <2>1, <2>2, <2>3 DEF Next
<1> QED
  BY <1>1, <1>2, PTL DEF Spec

(* FrameInv: a whole frame that finds Parser in step is accepted as it was  *)
(* sent, for every modulus, address and number of fields.                   *)
THEOREM ParserAcceptsWholeFrames == Spec => []FrameInv
<1>1. ParserInv => FrameInv
  BY DEF ParserInv, FrameInv, WholeFollowed, WholeFrameAccepted
<1> QED
  BY <1>1, ParserIsInductive, PTL

-----------------------------------------------------------------------------
(* In a frame without a colon inside, a colon can only come first. *)
ColonFirst ==
    unit.kind # "stray" /\ unit.plain =>
        \A i \in 1..Len(tty) : tty[i] = Colon => i = 1 /\ Len(tty) = Length

(* Parser has seen no more of the frame than it believes, or waits for one: *)
(* so it cannot wait for more of it when the frame is over.                 *)
Ahead ==
    unit.kind # "stray" /\ unit.plain =>
        protocolstate = 0 \/ protocolstate >= Taken

StepInv == ColonFirst /\ Ahead

(* Of what arrives nothing is taken yet, so Parser cannot be behind. *)
LEMMA ArriveStep ==
    ASSUME TypeOK, StepInv, WholeFrame \/ ChangedFrame \/ StrayByte
    PROVE  StepInv'
<1>1. ASSUME NEW kind, NEW f, NEW bytes \in Seq(Byte), Arrive(kind, f, bytes),
             Len(bytes) = Length \/ kind = "stray"
      PROVE  StepInv'
  <2>1. /\ tty' = bytes /\ unit'.kind = kind /\ unit'.plain = Plain(bytes)
        /\ protocolstate' = protocolstate /\ Len(bytes) \in Nat
    BY <1>1 DEF Arrive
  <2>2. ColonFirst'
    <3> SUFFICES ASSUME Len(bytes) = Length, Plain(bytes),
                        NEW i \in 1..Len(bytes), bytes[i] = Colon
                 PROVE  i = 1
      BY <1>1, <2>1 DEF ColonFirst
    <3> QED BY <2>1 DEF Plain
  <2>3. Ahead'
    BY <1>1, <2>1, LengthOfFrames DEF Ahead, TypeOK, Taken
  <2> QED BY <2>2, <2>3 DEF StepInv
<1>2. CASE WholeFrame
  <2>1. PICK f \in Payload : Arrive("whole", f, Frame(f))
    BY <1>2 DEF WholeFrame, Frames
  <2> QED BY <1>1, <2>1, FrameShape
<1>3. CASE ChangedFrame
  <2>1. PICK s \in ChangedFrames : Arrive("changed", s[1], s[2])
    BY <1>3 DEF ChangedFrame
  <2>2. PICK t \in Frames, i \in 1..Length, b \in Byte : s[2] = [t[2] EXCEPT ![i] = b]
    BY DEF ChangedFrames
  <2>3. t[2] \in Seq(Byte) /\ Len(t[2]) = Length
    BY FrameShape DEF Frames
  <2>4. s[2] \in Seq(Byte) /\ Len(s[2]) = Length
    BY <2>2, <2>3
  <2> QED BY <1>1, <2>1, <2>4
<1>4. CASE StrayByte
  <2>1. PICK b \in Byte : Arrive("stray", None, <<b>>)
    BY <1>4 DEF StrayByte
  <2>2. <<b>> \in Seq(Byte)
    OBVIOUS
  <2> QED BY <1>1, <2>1, <2>2
<1> QED
  BY <1>2, <1>3, <1>4

(* With each byte Parser goes one state on, or back to 0; and it leaves 0   *)
(* only at a colon, which is the first byte of its frame.                   *)
LEMMA ParserStep ==
    ASSUME TypeOK, StepInv, Parser
    PROVE  StepInv'
<1>1. /\ \/ protocolstate' = 0
         \/ protocolstate' = protocolstate + 1
      /\ protocolstate = 0 /\ protocolstate' # 0 => Head(tty) = Colon
      /\ protocolstate \in Nat
  BY RadioAssumption DEF Parser, LookForColon, GatewayByte, FieldByte, ChecksumByte, TypeOK
<1>2. ColonFirst'
  <2> SUFFICES ASSUME unit.kind # "stray", unit.plain,
                      NEW i \in 1..Len(tty'), tty'[i] = Colon
               PROVE  FALSE
    BY OneByte DEF ColonFirst
  <2>1. i + 1 \in 1..Len(tty) /\ tty[i + 1] = Colon
    BY OneByte
  <2>2. i + 1 = 1
    BY <2>1 DEF StepInv, ColonFirst
  <2>3. i \in Nat \ {0}
    OBVIOUS
  <2> QED BY <2>2, <2>3
<1>3. Ahead'
  <2> SUFFICES ASSUME unit.kind # "stray", unit.plain, protocolstate' # 0
               PROVE  protocolstate' >= Taken'
    BY OneByte DEF Ahead
  <2>1. Taken \in Nat /\ Taken' = Taken + 1 /\ Len(tty) \in 1..Length /\ Head(tty) = tty[1]
    BY OneByte, LengthOfFrames
  <2>2. CASE protocolstate = 0
    <3>1. tty[1] = Colon /\ 1 \in 1..Len(tty)
      BY <1>1, <2>1, <2>2
    <3>2. Taken = 0
      BY <3>1, LengthOfFrames DEF StepInv, ColonFirst, Taken
    <3> QED BY <1>1, <2>1, <2>2, <3>2
  <2>3. CASE protocolstate # 0
    <3>1. protocolstate >= Taken
      BY <2>3 DEF StepInv, Ahead
    <3> QED BY <1>1, <2>1, <3>1
  <2> QED BY <2>2, <2>3
<1> QED
  BY <1>2, <1>3 DEF StepInv

(* However far out of step Parser was, it is never behind in a frame.       *)
THEOREM ParserNeverBehind == Spec => [](ParserInv /\ StepInv)
<1>1. Init => StepInv
  BY DEF Init, StepInv, ColonFirst, Ahead
<1>2. ParserInv /\ StepInv /\ [Next]_vars => StepInv'
  <2> SUFFICES ASSUME ParserInv, StepInv, [Next]_vars PROVE StepInv'
    OBVIOUS
  <2>1. CASE UNCHANGED vars
    BY <2>1 DEF vars, parserVars, StepInv, ColonFirst, Ahead, Taken
  <2>2. CASE WholeFrame \/ ChangedFrame \/ StrayByte
    BY <2>2, ArriveStep DEF ParserInv
  <2>3. CASE Parser
    BY <2>3, ParserStep DEF ParserInv
  <2> QED BY <2>1, <2>2, <2>3 DEF Next
<1> QED
  BY <1>1, <1>2, ParserIsInductive, PTL DEF Spec

LEMMA DoneWithFrame == ParserInv /\ StepInv => BackInStep
<1> SUFFICES ASSUME ParserInv, StepInv, tty = <<>>, unit.kind # "stray", unit.plain,
                    protocolstate # 0
             PROVE  FALSE
  BY DEF BackInStep
<1>1. protocolstate >= Taken /\ Taken = Length
  BY EmptySeq, LengthOfFrames DEF StepInv, Ahead, Taken
<1>2. protocolstate \in 0..(Fields + 3)
  BY DEF ParserInv, TypeOK
<1> QED
  BY <1>1, <1>2, LengthOfFrames

(* BackInStep, for every modulus, address and number of fields: a frame,    *)
(* whole or with a byte changed, with no colon inside brings Parser back.   *)
THEOREM ParserComesBack == Spec => []BackInStep
  BY ParserNeverBehind, DoneWithFrame, PTL

(* ChangedFrameRejected: a frame that found Parser in step and has one byte *)
(* changed gives nothing while it arrives, and leaves nothing behind when   *)
(* it has no colon inside, for every modulus, address and number of fields. *)
THEOREM ParserRejectsChangedFrames == Spec => []ChangedFrameRejected
<1>1. ParserInv /\ StepInv => ChangedFrameRejected
  BY DoneWithFrame DEF ParserInv, ChangedFollowed, ChangedFrameRejected, BackInStep
<1> QED
  BY <1>1, ParserNeverBehind, PTL

-----------------------------------------------------------------------------
(* The alive timers, which Parser looks at when it has handled the frames. *)

(* The table of a command is loaded as a whole by the time rpc is idle: the *)
(* slots up to DeviceNumber are its rows, and DeviceIndex is on one of them. *)
RowsLoaded ==
    /\ \A i, j \in 1..Len(db) : db[i] = db[j] => i = j
    /\ index <= number \/ index = 1
    /\ rpc \in {"idle", "timers"} => number = Len(db)
    /\ rpc \in {"load", "count"} => number \in {0, Len(db)}
    /\ rpc \in {"idle", "count", "timers"} => \A i \in 1..Len(db) : dev[i] = db[i]

(* A timer is never ahead of its sensor's silence, apart from the one that  *)
(* Parser is about to set, and only one that has been flagged is more than  *)
(* a second behind it.                                                      *)
TimersTell == rpc = "idle" => \A i \in 1..number : pc # "heard" \/ i # slot =>
    /\ age[i] <= silent[dev[i]]
    /\ ~flag[i] => silent[dev[i]] <= age[i] + 1

(* The timer that Parser is about to set is that of the sensor it has heard, *)
(* or the table was loaded meanwhile, and all timers have just been set.     *)
JustHeard == pc = "heard" /\ rpc = "idle" /\ slot <= number =>
    silent[dev[slot]] <= IF passed THEN 0 ELSE 1

(* How many passes it takes DeviceIndex to come to slot i. *)
Distance(i) == IF index <= i THEN i - index ELSE number - index + i

(* Each second that a sensor is silent for too long brings it nearer.       *)
IndexComes == rpc = "idle" => \A i \in 1..number :
    \/ flag[i]
    \/ silent[dev[i]] <= Alive[dev[i]] + 1
    \/ silent[dev[i]] - Alive[dev[i]] - 1 + Distance(i) <= number - (IF passed THEN 1 ELSE 0)

(* Between a timer that has run out and the tag: the sensor has failed, or  *)
(* the table was loaded meanwhile, and then all timers have just been set.  *)
AboutToLog == pc = "tag" =>
    /\ clean /\ number > 0 => silent[dev[index]] > Alive[dev[index]]
    /\ rpc = "idle" /\ number > 0 =>
           flag[index] \/ silent[dev[index]] <= (IF passed THEN 0 ELSE 1)

AliveProven ==
    /\ AliveTypeOK /\ RowsLoaded
    /\ TimersTell /\ JustHeard /\ IndexComes /\ AboutToLog
    /\ FailuresAreReal

LEMMA SlotFacts ==
    /\ Slots = 1..Len(Rows) /\ Len(Rows) \in Nat \ {0} /\ 1 \in Slots
    /\ Rows \in [Slots -> Sensor]
    /\ \A s \in Sensor : Alive[s] \in Nat \ {0}
    /\ Bound \in Nat \ {0}
<1>1. Rows \in Seq(Sensor) /\ Rows # <<>>
  BY AliveAssumption
<1>2. Len(Rows) \in Nat \ {0} /\ Slots = 1..Len(Rows) /\ Rows \in [1..Len(Rows) -> Sensor]
  BY <1>1 DEF Slots
<1>3. Rows[1] \in Sensor /\ \A s \in Sensor : Alive[s] \in Nat \ {0}
  BY <1>2, AliveAssumption
<1> QED
  BY <1>2, <1>3, AliveAssumption

(* A second more, as far as seconds are counted. *)
LEMMA OlderFacts ==
    ASSUME NEW m \in 0..Bound, NEW n \in 0..Bound
    PROVE  /\ Older(m) \in 0..Bound /\ Older(m) <= m + 1 /\ m <= Older(m)
           /\ m <= n => Older(m) <= Older(n)
  BY SlotFacts DEF Older

(* What a command makes of the table. *)
LEMMA EditedTable ==
    ASSUME AliveTypeOK, RowsLoaded, Edit
    PROVE  /\ db' \in Seq(Sensor) /\ Len(db') <= Len(db)
           /\ \A i, j \in 1..Len(db') : db'[i] = db'[j] => i = j
           /\ edits' \in 0..MaxEdits
<1>1. db \in Seq(Sensor) /\ Len(db) \in Nat /\ \A i \in 1..Len(db) : db[i] \in Sensor
  BY DEF AliveTypeOK
<1>2. edits' \in 0..MaxEdits
  BY AliveAssumption DEF Edit, AliveTypeOK
<1>3. PICK k \in 1..number : db' \in EditedRows(dev[k])
  BY DEF Edit
<1>4. CASE db' = db
  BY <1>1, <1>2, <1>4 DEF RowsLoaded
<1>5. ASSUME NEW n \in 1..Len(db), db' = RowsBut(n)
      PROVE  /\ db' \in Seq(Sensor) /\ Len(db') <= Len(db)
             /\ \A i, j \in 1..Len(db') : db'[i] = db'[j] => i = j
  <2>1. /\ Len(db) - 1 \in Nat
        /\ \A j \in 1..(Len(db) - 1) : /\ db'[j] = db[IF j < n THEN j ELSE j + 1]
                                       /\ (IF j < n THEN j ELSE j + 1) \in 1..Len(db)
    BY <1>1, <1>5 DEF RowsBut
  <2>2. db' = [j \in 1..(Len(db) - 1) |-> db'[j]] /\ \A j \in 1..(Len(db) - 1) : db'[j] \in Sensor
    BY <1>1, <1>5, <2>1 DEF RowsBut
  <2>3. db' \in [1..(Len(db) - 1) -> Sensor]
    BY <2>2
  <2>4. db' \in Seq(Sensor) /\ Len(db') = Len(db) - 1
    BY <2>1, <2>3
  <2>5. ASSUME NEW i \in 1..Len(db'), NEW j \in 1..Len(db'), db'[i] = db'[j] PROVE i = j
    <3> DEFINE at(m) == IF m < n THEN m ELSE m + 1
    <3>1. at(i) \in 1..Len(db) /\ at(j) \in 1..Len(db) /\ db[at(i)] = db[at(j)]
      BY <2>1, <2>4, <2>5
    <3>2. at(i) = at(j)
      BY <3>1 DEF RowsLoaded
    <3> QED BY <2>4, <3>2
  <2> QED BY <1>1, <2>4, <2>5
<1> QED
  BY <1>2, <1>3, <1>4, <1>5 DEF EditedRows

LEMMA AliveTypes ==
    ASSUME AliveTypeOK, RowsLoaded, [AliveNext]_timerVars
    PROVE  AliveTypeOK'
<1> USE SlotFacts DEF AliveTypeOK
<1>0. number \in Nat /\ Len(db) \in 0..Len(Rows)
  OBVIOUS
<1>1. ASSUME NEW i \in Slots, Hear(i) PROVE AliveTypeOK'
  <2>1. 0 \in 0..Bound /\ dev[i] \in Sensor
    OBVIOUS
  <2>2. silent' \in [Sensor -> 0..Bound]
    BY <1>1, <2>1 DEF Hear
  <2> QED BY <1>1, <2>2 DEF Hear, tableVars
<1>16. CASE ResetTimer
  <2>1. /\ age' \in [Slots -> 0..Bound] /\ flag' \in [Slots -> BOOLEAN]
    BY <1>16 DEF ResetTimer
  <2> QED BY <1>16, <2>1 DEF ResetTimer, tableVars
<1>2. NextIndex \in Slots
  BY <1>0 DEF NextIndex, RowsLoaded
<1>3. CASE StillAlive
  BY <1>2, <1>3 DEF StillAlive
<1>4. CASE TimerRunsOut
  <2>1. /\ age' \in [Slots -> 0..Bound] /\ flag' \in [Slots -> BOOLEAN]
        /\ clean' \in BOOLEAN
    BY <1>4 DEF TimerRunsOut
  <2> QED BY <1>4, <2>1 DEF TimerRunsOut, tableVars
<1>5. CASE LogFailure
  <2>1. wrong' \subseteq Sensor
    BY <1>5 DEF LogFailure
  <2> QED BY <1>2, <1>5, <2>1 DEF LogFailure
<1>6. ASSUME NEW n \in Nat, TimersSet(n)
      PROVE  /\ age' \in [Slots -> 0..Bound] /\ flag' \in [Slots -> BOOLEAN]
             /\ silent' \in [Sensor -> 0..Bound]
  <2>1. 0 \in 0..Bound
    OBVIOUS
  <2>2. age' \in [Slots -> 0..Bound] /\ flag' \in [Slots -> BOOLEAN]
    BY <1>6, <2>1 DEF TimersSet
  <2>3. silent' \in [Sensor -> 0..Bound]
    BY <1>6, <2>1 DEF TimersSet
  <2> QED BY <2>2, <2>3
<1>7. ASSUME NEW rows, rows \in Seq(Sensor) PROVE Loaded(rows) \in [Slots -> Sensor]
  <2>1. Len(rows) \in Nat /\ \A i \in 1..Len(rows) : rows[i] \in Sensor
    BY <1>7
  <2> QED BY <2>1 DEF Loaded
<1>8. CASE EditBySM
  <2>1. Edit /\ TimersSet(Len(db')) /\ dev' = Loaded(db') /\ number' = Len(db') /\ index' = 1
    BY <1>8 DEF EditBySM
  <2>2. db' \in Seq(Sensor) /\ Len(db') \in 0..Len(Rows) /\ edits' \in 0..MaxEdits
    BY <1>0, <2>1, EditedTable
  <2>3. Loaded(db') \in [Slots -> Sensor]
    BY <1>7, <2>2
  <2>4. /\ age' \in [Slots -> 0..Bound] /\ flag' \in [Slots -> BOOLEAN]
        /\ silent' \in [Sensor -> 0..Bound]
    BY <1>6, <2>1, <2>2
  <2>5. UNCHANGED <<slot, pc, rpc, passed, wrong>> /\ clean' = FALSE
    BY <1>8 DEF EditBySM
  <2>6. Len(db') <= Len(Rows)
    BY <2>2
  <2> HIDE DEF Loaded, TimersSet
  <2> QED BY <2>1, <2>2, <2>3, <2>4, <2>5, <2>6
<1>9. CASE EditByNet
  <2>1. db' \in Seq(Sensor) /\ Len(db') <= Len(Rows) /\ edits' \in 0..MaxEdits
    BY <1>0, <1>9, EditedTable DEF EditByNet
  <2> QED BY <1>9, <2>1 DEF EditByNet, tableVars
<1>10. CASE ClearTable
  <2>1. 0 \in 0..Len(Rows) /\ 1 \in Slots
    OBVIOUS
  <2>2. number' \in 0..Len(Rows)
    BY <1>10, <2>1 DEF ClearTable
  <2>3. index' \in Slots /\ clean' \in BOOLEAN
    BY <1>10, <2>1 DEF ClearTable
  <2> QED BY <1>10, <2>2, <2>3 DEF ClearTable
<1>11. CASE LoadDeviceDb
  BY <1>7, <1>11 DEF LoadDeviceDb
<1>12. CASE CountDevices
  <2>1. number' \in 0..Len(Rows) /\ clean' \in BOOLEAN
    BY <1>0, <1>12 DEF CountDevices
  <2> QED BY <1>12, <2>1 DEF CountDevices
<1>13. CASE SetTimers
  <2>1. /\ age' \in [Slots -> 0..Bound] /\ flag' \in [Slots -> BOOLEAN]
        /\ silent' \in [Sensor -> 0..Bound]
    BY <1>0, <1>6, <1>13 DEF SetTimers
  <2>2. clean' \in BOOLEAN /\ UNCHANGED dev /\ rpc' = "idle"
    BY <1>13 DEF SetTimers
  <2> QED BY <1>13, <2>1, <2>2 DEF SetTimers
<1>14. CASE Tick
  <2>1. age' \in [Slots -> 0..Bound] /\ silent' \in [Sensor -> 0..Bound]
    BY <1>14, OlderFacts DEF Tick
  <2> QED BY <1>14, <2>1 DEF Tick, tableVars
<1>15. CASE UNCHANGED timerVars
  BY <1>15 DEF timerVars, tableVars
<1> QED
  BY <1>1, <1>3, <1>4, <1>5, <1>8, <1>9, <1>10, <1>11, <1>12, <1>13, <1>14, <1>15, <1>16
     DEF AliveNext, AliveCheck, InitDevices

LEMMA RowsStep ==
    ASSUME AliveTypeOK, RowsLoaded, [AliveNext]_timerVars
    PROVE  RowsLoaded'
<1>0. /\ number \in Nat /\ Len(db) \in 0..Len(Rows) /\ index \in Nat \ {0} /\ Slots = 1..Len(Rows)
  BY SlotFacts DEF AliveTypeOK
<1>1. CASE UNCHANGED <<db, dev, number, rpc>> /\ index' \in {index, NextIndex}
  BY <1>0, <1>1 DEF RowsLoaded, NextIndex
<1>2. ASSUME NEW rows, rows \in Seq(Sensor), Len(rows) <= Len(Rows)
      PROVE  \A i \in 1..Len(rows) : Loaded(rows)[i] = rows[i]
  BY <1>0, <1>2 DEF Loaded
<1>3. CASE EditBySM
  <2>1. /\ db' \in Seq(Sensor) /\ Len(db') \in Nat /\ Len(db') <= Len(Rows)
        /\ \A i, j \in 1..Len(db') : db'[i] = db'[j] => i = j
    BY <1>0, <1>3, EditedTable DEF EditBySM
  <2>2. \A i \in 1..Len(db') : dev'[i] = db'[i]
    BY <1>2, <1>3, <2>1 DEF EditBySM
  <2> QED BY <1>3, <2>1, <2>2 DEF EditBySM, RowsLoaded
<1>4. CASE EditByNet
  <2>1. \A i, j \in 1..Len(db') : db'[i] = db'[j] => i = j
    BY <1>4, EditedTable DEF EditByNet
  <2> QED BY <1>4, <2>1 DEF EditByNet, tableVars, RowsLoaded
<1>5. CASE ClearTable
  BY <1>5 DEF ClearTable, RowsLoaded
<1>6. CASE LoadDeviceDb
  <2>1. \A i \in 1..Len(db) : dev'[i] = db[i]
    BY <1>2, <1>6 DEF LoadDeviceDb, AliveTypeOK
  <2> QED BY <1>6, <2>1 DEF LoadDeviceDb, RowsLoaded
<1>7. CASE CountDevices
  BY <1>0, <1>7 DEF CountDevices, RowsLoaded
<1>8. CASE SetTimers
  BY <1>8 DEF SetTimers, RowsLoaded
<1>9. CASE AliveCheck \/ Tick \/ UNCHANGED timerVars
  <2>1. UNCHANGED <<db, dev, number, rpc>> /\ index' \in {index, NextIndex}
    BY <1>9 DEF AliveCheck, Hear, ResetTimer, StillAlive, TimerRunsOut, LogFailure, Tick, timerVars, tableVars
  <2> QED BY <1>1, <2>1
<1> QED
  BY <1>3, <1>4, <1>5, <1>6, <1>7, <1>8, <1>9 DEF AliveNext, InitDevices

(* When no table is being loaded, the slots have different sensors. *)
LEMMA IdleTable ==
    ASSUME AliveTypeOK, RowsLoaded, rpc = "idle"
    PROVE  /\ number \in Nat /\ number <= Len(Rows)
           /\ number > 0 => index \in 1..number
           /\ \A i \in 1..number : i \in Slots /\ dev[i] \in Sensor
           /\ \A i, j \in 1..number : dev[i] = dev[j] => i = j
<1>1. number \in Nat /\ number <= Len(Rows) /\ index \in 1..Len(Rows) /\ number = Len(db)
  BY SlotFacts DEF AliveTypeOK, RowsLoaded
<1>2. number > 0 => index \in 1..number
  BY <1>1 DEF RowsLoaded
<1>3. \A i \in 1..number : i \in Slots
  BY <1>1, SlotFacts
<1>4. \A i \in 1..number : dev[i] \in Sensor
  BY <1>3 DEF AliveTypeOK
<1>5. \A i, j \in 1..number : dev[i] = dev[j] => i = j
  BY <1>1 DEF RowsLoaded
<1> QED BY <1>1, <1>2, <1>3, <1>4, <1>5

LEMMA FreshTimers ==
    ASSUME NEW n \in Nat, n <= Len(Rows), TimersSet(n), dev' \in [Slots -> Sensor]
    PROVE  \A i \in 1..n : age'[i] = 0 /\ silent'[dev'[i]] = 0
<1> SUFFICES ASSUME NEW i \in 1..n PROVE age'[i] = 0 /\ silent'[dev'[i]] = 0
  OBVIOUS
<1>1. i \in Slots
  BY SlotFacts
<1>2. dev'[i] \in Sensor
  BY <1>1
<1> QED BY <1>1, <1>2 DEF TimersSet

(* The slots are fresh after every loading of the table. *)
LEMMA FreshTable ==
    ASSUME AliveTypeOK, RowsLoaded, AliveTypeOK', EditBySM \/ SetTimers
    PROVE  /\ number' \in Nat /\ index' \in Nat \ {0}
           /\ \A i \in 1..number' : /\ age'[i] = 0 /\ silent'[dev'[i]] = 0
                                    /\ Alive[dev'[i]] \in Nat \ {0}
<1>1. /\ number' \in Nat /\ number' <= Len(Rows) /\ dev' \in [Slots -> Sensor]
      /\ index' \in Nat \ {0} /\ \A i \in 1..number' : dev'[i] \in Sensor
  <2>1. number' \in Nat /\ number' <= Len(Rows) /\ index' \in Nat \ {0}
    BY SlotFacts DEF AliveTypeOK
  <2>2. dev' \in [Slots -> Sensor]
    BY DEF AliveTypeOK
  <2>3. \A i \in 1..number' : dev'[i] \in Sensor
    BY <2>1, <2>2, SlotFacts
  <2> QED BY <2>1, <2>2, <2>3
<1>2. TimersSet(number')
  BY DEF EditBySM, SetTimers
<1> QED BY <1>1, <1>2, FreshTimers, SlotFacts

LEMMA TimersStep ==
    ASSUME AliveTypeOK, AliveTypeOK', RowsLoaded, TimersTell, JustHeard, [AliveNext]_timerVars
    PROVE  TimersTell'
<1> SUFFICES ASSUME rpc' = "idle", NEW j \in 1..number', pc' # "heard" \/ j # slot'
             PROVE  /\ age'[j] <= silent'[dev'[j]]
                    /\ ~flag'[j] => silent'[dev'[j]] <= age'[j] + 1
  BY DEF TimersTell
<1>1. CASE EditBySM \/ SetTimers
  BY <1>1, FreshTable
<1>2. CASE EditByNet \/ ClearTable \/ LoadDeviceDb \/ CountDevices
  BY <1>2 DEF EditByNet, ClearTable, LoadDeviceDb, CountDevices
<1>3. ASSUME rpc = "idle", UNCHANGED <<dev, number>>
      PROVE  /\ j \in 1..number /\ j \in Slots /\ dev[j] \in Sensor /\ dev'[j] = dev[j]
             /\ age[j] \in 0..Bound /\ silent[dev[j]] \in 0..Bound
             /\ pc # "heard" \/ j # slot =>
                   age[j] <= silent[dev[j]] /\ (~flag[j] => silent[dev[j]] <= age[j] + 1)
             /\ \A i \in 1..number : dev[i] = dev[j] => i = j
  BY <1>3, IdleTable DEF TimersTell, AliveTypeOK
<1>4. CASE \E i \in Slots : Hear(i)
  <2>1. PICK i \in Slots : Hear(i)
    BY <1>4
  <2>2. /\ rpc = "idle" /\ UNCHANGED <<dev, number, age, flag>> /\ i \in 1..number
        /\ i # j /\ pc = "check"
    BY <2>1 DEF Hear, tableVars
  <2>3. dev[i] # dev[j]
    BY <1>3, <2>2
  <2>4. silent'[dev'[j]] = silent[dev[j]]
    BY <1>3, <2>1, <2>2, <2>3 DEF Hear, AliveTypeOK
  <2> QED BY <1>3, <2>2, <2>4
<1>5. CASE ResetTimer
  <2>1. /\ rpc = "idle" /\ UNCHANGED <<dev, number, silent>> /\ pc = "heard"
    BY <1>5 DEF ResetTimer, tableVars
  <2>2. CASE j = slot
    <3>1. age'[j] = 0
      BY <1>3, <1>5, <2>1, <2>2 DEF ResetTimer, AliveTypeOK
    <3>2. silent[dev[j]] <= 1
      BY <1>3, <2>1, <2>2 DEF JustHeard
    <3> QED BY <1>3, <2>1, <3>1, <3>2
  <2>3. CASE j # slot
    <3>1. UNCHANGED <<age[j], flag[j]>>
      BY <1>3, <1>5, <2>1, <2>3 DEF ResetTimer, AliveTypeOK
    <3> QED BY <1>3, <2>1, <2>3, <3>1
  <2> QED BY <2>2, <2>3
<1>6. CASE StillAlive \/ LogFailure \/ UNCHANGED timerVars
  <2>1. /\ rpc = "idle" /\ UNCHANGED <<dev, number, age, flag, silent>>
        /\ pc # "heard" \/ j # slot
    BY <1>6 DEF StillAlive, LogFailure, timerVars, tableVars
  <2> QED BY <1>3, <2>1
<1>7. CASE TimerRunsOut
  <2>1. rpc = "idle" /\ UNCHANGED <<dev, number, silent>> /\ pc = "check"
    BY <1>7 DEF TimerRunsOut, tableVars
  <2>2. /\ age'[j] = IF j = index THEN 0 ELSE age[j]
        /\ flag'[j] = IF j = index THEN TRUE ELSE flag[j]
    BY <1>3, <1>7, <2>1 DEF TimerRunsOut, AliveTypeOK
  <2> QED BY <1>3, <2>1, <2>2
<1>8. CASE Tick
  <2>1. /\ rpc = "idle" /\ UNCHANGED <<dev, number, flag>>
        /\ pc # "heard" \/ j # slot
    BY <1>8 DEF Tick, tableVars
  <2>2. age'[j] = Older(age[j]) /\ silent'[dev'[j]] = Older(silent[dev[j]])
    BY <1>3, <1>8, <2>1 DEF Tick
  <2>3. Older(age[j]) <= Older(silent[dev[j]])
    BY <1>3, <2>1, OlderFacts
  <2>4. ASSUME ~flag[j] PROVE Older(silent[dev[j]]) <= Older(age[j]) + 1
    BY <1>3, <2>1, <2>4, SlotFacts DEF Older
  <2> QED BY <1>3, <2>1, <2>2, <2>3, <2>4
<1> QED
  BY <1>1, <1>2, <1>4, <1>5, <1>6, <1>7, <1>8 DEF AliveNext, AliveCheck, InitDevices

LEMMA HeardStep ==
    ASSUME AliveTypeOK, AliveTypeOK', RowsLoaded, JustHeard, [AliveNext]_timerVars
    PROVE  JustHeard'
<1> SUFFICES ASSUME pc' = "heard", rpc' = "idle", slot' <= number'
             PROVE  silent'[dev'[slot']] <= IF passed' THEN 0 ELSE 1
  BY DEF JustHeard
<1>0. slot' \in 1..number'
  BY SlotFacts DEF AliveTypeOK
<1>1. CASE SetTimers
  BY <1>0, <1>1, FreshTable
<1>2. CASE \/ EditByNet \/ ClearTable \/ LoadDeviceDb \/ CountDevices
           \/ EditBySM \/ ResetTimer \/ StillAlive \/ TimerRunsOut \/ LogFailure
  BY <1>2 DEF EditByNet, ClearTable, LoadDeviceDb, CountDevices, EditBySM, ResetTimer,
              StillAlive, TimerRunsOut, LogFailure
<1>3. CASE \E i \in Slots : Hear(i)
  <2>1. PICK i \in Slots : Hear(i)
    BY <1>3
  <2>2. slot' = i /\ dev' = dev /\ dev[i] \in Sensor
    BY <2>1 DEF Hear, tableVars, AliveTypeOK
  <2>3. silent'[dev'[slot']] = 0
    BY <2>1, <2>2 DEF Hear, AliveTypeOK
  <2> QED BY <2>3
<1>4. CASE Tick
  <2>1. /\ rpc = "idle" /\ pc = "heard" /\ UNCHANGED <<dev, number, slot>> /\ passed /\ ~passed'
    BY <1>4 DEF Tick, tableVars
  <2>2. /\ dev[slot] \in Sensor /\ silent[dev[slot]] \in 0..Bound /\ silent[dev[slot]] <= 0
    BY <2>1 DEF JustHeard, AliveTypeOK
  <2>3. silent'[dev'[slot']] = Older(silent[dev[slot]])
    BY <1>4, <2>1, <2>2 DEF Tick
  <2>4. Older(silent[dev[slot]]) <= silent[dev[slot]] + 1 /\ Older(silent[dev[slot]]) \in 0..Bound
    BY <2>2, OlderFacts
  <2> QED BY <2>1, <2>2, <2>3, <2>4
<1>5. CASE UNCHANGED timerVars
  BY <1>5 DEF timerVars, tableVars, JustHeard
<1> QED
  BY <1>1, <1>2, <1>3, <1>4, <1>5 DEF AliveNext, AliveCheck, InitDevices

LEMMA LogStep ==
    ASSUME AliveTypeOK, AliveTypeOK', RowsLoaded, RowsLoaded', TimersTell, AboutToLog,
           [AliveNext]_timerVars
    PROVE  AboutToLog'
<1> SUFFICES ASSUME pc' = "tag"
             PROVE  /\ clean' /\ number' > 0 => silent'[dev'[index']] > Alive[dev'[index']]
                    /\ rpc' = "idle" /\ number' > 0 =>
                          flag'[index'] \/ silent'[dev'[index']] <= (IF passed' THEN 0 ELSE 1)
  BY DEF AboutToLog
<1>1. CASE \/ \E i \in Slots : Hear(i)
           \/ ResetTimer \/ StillAlive \/ LogFailure \/ EditBySM
  BY <1>1 DEF Hear, ResetTimer, StillAlive, LogFailure, EditBySM
<1>2. CASE TimerRunsOut
  <2>1. /\ UNCHANGED <<dev, number, index, rpc, silent>> /\ index \in Slots
        /\ clean' = (rpc = "idle") /\ flag'[index] = TRUE /\ age[index] > Alive[dev[index]]
    BY <1>2 DEF TimerRunsOut, tableVars, AliveTypeOK
  <2>2. ASSUME rpc = "idle", number > 0 PROVE silent[dev[index]] > Alive[dev[index]]
    <3>1. index \in 1..number /\ dev[index] \in Sensor
      BY <2>2, IdleTable
    <3>2. age[index] <= silent[dev[index]]
      BY <1>2, <2>2, <3>1 DEF TimerRunsOut, TimersTell
    <3>3. /\ age[index] \in 0..Bound /\ silent[dev[index]] \in 0..Bound
          /\ Alive[dev[index]] \in Nat /\ age[index] > Alive[dev[index]]
      BY <2>1, <3>1, SlotFacts DEF AliveTypeOK
    <3> QED BY <3>2, <3>3
  <2> QED BY <2>1, <2>2
<1>3. CASE EditByNet
  BY <1>3 DEF EditByNet, AboutToLog, tableVars
<1>4. CASE ClearTable \/ LoadDeviceDb \/ CountDevices
  BY <1>4 DEF ClearTable, LoadDeviceDb, CountDevices
<1>5. CASE SetTimers
  <2>1. clean' = FALSE /\ rpc' = "idle"
    BY <1>5 DEF SetTimers
  <2>2. ASSUME number' > 0 PROVE silent'[dev'[index']] = 0
    <3>1. index' \in 1..number'
      BY <2>1, <2>2, SlotFacts DEF RowsLoaded, AliveTypeOK
    <3> QED BY <1>5, <3>1, FreshTable
  <2> QED BY <2>1, <2>2
<1>6. CASE Tick
  <2>1. /\ UNCHANGED <<dev, number, index, flag, rpc, clean, pc>> /\ passed /\ passed' = FALSE
        /\ index \in Slots /\ dev[index] \in Sensor /\ silent[dev[index]] \in 0..Bound
        /\ silent'[dev[index]] = Older(silent[dev[index]])
    BY <1>6 DEF Tick, tableVars, AliveTypeOK
  <2>2. /\ silent[dev[index]] <= Older(silent[dev[index]])
        /\ Older(silent[dev[index]]) <= silent[dev[index]] + 1
        /\ Older(silent[dev[index]]) \in 0..Bound /\ Alive[dev[index]] \in Nat
    BY <2>1, OlderFacts, SlotFacts
  <2> QED BY <2>1, <2>2 DEF AboutToLog
<1>7. CASE UNCHANGED timerVars
  BY <1>7 DEF timerVars, tableVars, AboutToLog
<1> QED
  BY <1>1, <1>2, <1>3, <1>4, <1>5, <1>6, <1>7 DEF AliveNext, AliveCheck, InitDevices

(* DeviceIndex goes over all devices in turn. *)
LEMMA IndexMoves ==
    ASSUME AliveTypeOK, RowsLoaded, rpc = "idle", NEW j \in 1..number, j # index,
           index' = NextIndex, number' = number
    PROVE  Distance(j)' = Distance(j) - 1 /\ Distance(j) \in Nat
  BY IdleTable DEF Distance, NextIndex

LEMMA RoundStep ==
    ASSUME AliveTypeOK, AliveTypeOK', RowsLoaded, TimersTell, JustHeard, AboutToLog,
           IndexComes, [AliveNext]_timerVars
    PROVE  IndexComes'
<1> SUFFICES ASSUME rpc' = "idle", NEW j \in 1..number'
             PROVE  \/ flag'[j]
                    \/ silent'[dev'[j]] <= Alive[dev'[j]] + 1
                    \/ silent'[dev'[j]] - Alive[dev'[j]] - 1 + Distance(j)'
                          <= number' - (IF passed' THEN 1 ELSE 0)
  BY DEF IndexComes
<1>1. CASE EditBySM \/ SetTimers
  BY <1>1, FreshTable
<1>2. CASE EditByNet \/ ClearTable \/ LoadDeviceDb \/ CountDevices
  BY <1>2 DEF EditByNet, ClearTable, LoadDeviceDb, CountDevices
<1>3. ASSUME rpc = "idle", UNCHANGED <<dev, number>>
      PROVE  /\ j \in 1..number /\ j \in Slots /\ dev[j] \in Sensor /\ dev'[j] = dev[j]
             /\ number \in Nat /\ index \in 1..number
             /\ Alive[dev[j]] \in Nat \ {0}
             /\ age[j] \in 0..Bound /\ silent[dev[j]] \in 0..Bound
             /\ Distance(j) \in 0..(number - 1)
             /\ \A i \in 1..number : dev[i] = dev[j] => i = j
             /\ \/ flag[j]
                \/ silent[dev[j]] <= Alive[dev[j]] + 1
                \/ silent[dev[j]] - Alive[dev[j]] - 1 + Distance(j)
                      <= number - (IF passed THEN 1 ELSE 0)
  <2>1. j \in 1..number /\ number \in Nat /\ index \in 1..number
    BY <1>3, IdleTable
  <2>2. Distance(j) \in 0..(number - 1)
    BY <2>1 DEF Distance
  <2> QED BY <1>3, <2>1, <2>2, IdleTable, SlotFacts DEF IndexComes, AliveTypeOK
<1>4. CASE \E i \in Slots : Hear(i)
  <2>1. PICK i \in Slots : Hear(i)
    BY <1>4
  <2>2. rpc = "idle" /\ UNCHANGED <<dev, number, index, passed>> /\ i \in 1..number
    BY <2>1 DEF Hear, tableVars
  <2>3. CASE i = j
    <3>1. silent'[dev'[j]] = 0
      BY <1>3, <2>1, <2>2, <2>3 DEF Hear, AliveTypeOK
    <3> QED BY <1>3, <2>2, <3>1
  <2>4. CASE i # j
    <3>1. flag'[j] = flag[j] /\ silent'[dev'[j]] = silent[dev[j]]
      BY <1>3, <2>1, <2>2, <2>4 DEF Hear, AliveTypeOK
    <3>2. Distance(j)' = Distance(j)
      BY <2>2 DEF Distance
    <3> QED BY <1>3, <2>2, <3>1, <3>2
  <2> QED BY <2>3, <2>4
<1>9. CASE ResetTimer
  <2>1. rpc = "idle" /\ UNCHANGED <<dev, number, index, passed, silent>> /\ pc = "heard"
    BY <1>9 DEF ResetTimer, tableVars
  <2>2. CASE j = slot
    <3>1. silent'[dev'[j]] <= 1
      BY <1>3, <2>1, <2>2 DEF JustHeard
    <3> QED BY <1>3, <2>1, <3>1
  <2>3. CASE j # slot
    <3>1. flag'[j] = flag[j]
      BY <1>3, <1>9, <2>1, <2>3 DEF ResetTimer, AliveTypeOK
    <3>2. Distance(j)' = Distance(j)
      BY <2>1 DEF Distance
    <3> QED BY <1>3, <2>1, <3>1, <3>2
  <2> QED BY <2>2, <2>3
<1>5. CASE StillAlive \/ LogFailure
  <2>1. /\ rpc = "idle" /\ UNCHANGED <<dev, number, flag, silent>> /\ passed'
        /\ index' = NextIndex
    BY <1>5 DEF StillAlive, LogFailure
  <2>2. CASE j # index
    BY <1>3, <2>1, <2>2, IndexMoves
  <2>3. CASE j = index
    <3>1. flag[j] \/ silent[dev[j]] <= Alive[dev[j]] + 1
      <4>1. CASE StillAlive
        BY <1>3, <2>1, <2>3, <4>1 DEF StillAlive, TimersTell
      <4>2. CASE LogFailure
        BY <1>3, <2>1, <2>3, <4>2 DEF LogFailure, AboutToLog
      <4> QED BY <1>5, <4>1, <4>2
    <3> QED BY <1>3, <2>1, <3>1
  <2> QED BY <2>2, <2>3
<1>6. CASE TimerRunsOut
  <2>1. rpc = "idle" /\ UNCHANGED <<dev, number, index, silent, passed>>
    BY <1>6 DEF TimerRunsOut, tableVars
  <2>2. flag'[j] = IF j = index THEN TRUE ELSE flag[j]
    BY <1>3, <1>6, <2>1 DEF TimerRunsOut, AliveTypeOK
  <2>3. Distance(j)' = Distance(j)
    BY <2>1 DEF Distance
  <2> QED BY <1>3, <2>1, <2>2, <2>3
<1>7. CASE Tick
  <2>1. rpc = "idle" /\ UNCHANGED <<dev, number, index, flag>> /\ passed /\ ~passed'
    BY <1>7 DEF Tick, tableVars
  <2>2. silent'[dev'[j]] = Older(silent[dev[j]])
    BY <1>3, <1>7, <2>1 DEF Tick
  <2>3. Older(silent[dev[j]]) <= silent[dev[j]] + 1 /\ Older(silent[dev[j]]) \in 0..Bound
    BY <1>3, <2>1, OlderFacts
  <2>4. Distance(j)' = Distance(j)
    BY <2>1 DEF Distance
  <2> QED BY <1>3, <2>1, <2>2, <2>3, <2>4
<1>8. CASE UNCHANGED timerVars
  <2>1. rpc = "idle" /\ UNCHANGED <<dev, number, index, flag, silent, passed>>
    BY <1>8 DEF timerVars, tableVars
  <2>2. Distance(j)' = Distance(j)
    BY <2>1 DEF Distance
  <2> QED BY <1>3, <2>1, <2>2
<1> QED
  BY <1>1, <1>2, <1>4, <1>5, <1>6, <1>7, <1>8, <1>9 DEF AliveNext, AliveCheck, InitDevices

(* The table, the timers and DeviceIndex belong together at every step.     *)
THEOREM AliveIsInductive == AliveSpec => []AliveProven
<1>1. AliveInit => AliveProven
  <2> SUFFICES ASSUME AliveInit PROVE AliveProven
    OBVIOUS
  <2>1. AliveTypeOK
    <3>1. 0 \in 0..Bound /\ 0 \in 0..MaxEdits /\ Len(Rows) \in 0..Len(Rows) /\ Rows \in Seq(Sensor)
      BY SlotFacts, AliveAssumption
    <3>2. /\ dev \in [Slots -> Sensor] /\ age \in [Slots -> 0..Bound]
          /\ flag \in [Slots -> BOOLEAN] /\ silent \in [Sensor -> 0..Bound]
      BY <3>1, SlotFacts DEF AliveInit
    <3>3. passed \in BOOLEAN /\ clean \in BOOLEAN /\ index \in Slots /\ number \in 0..Len(Rows)
      BY <3>1, SlotFacts DEF AliveInit
    <3> QED BY <3>1, <3>2, <3>3 DEF AliveInit, AliveTypeOK
  <2>2. RowsLoaded
    BY SlotFacts, AliveAssumption DEF AliveInit, RowsLoaded
  <2>3. \A i \in 1..number : age[i] = 0 /\ silent[dev[i]] = 0 /\ Alive[dev[i]] \in Nat
    BY SlotFacts DEF AliveInit
  <2>4. TimersTell /\ IndexComes
    BY <2>3 DEF TimersTell, IndexComes
  <2>5. JustHeard /\ AboutToLog /\ FailuresAreReal
    BY DEF AliveInit, JustHeard, AboutToLog, FailuresAreReal
  <2> QED BY <2>1, <2>2, <2>4, <2>5 DEF AliveProven
<1>2. AliveProven /\ [AliveNext]_timerVars => AliveProven'
  <2> SUFFICES ASSUME AliveProven, [AliveNext]_timerVars PROVE AliveProven'
    OBVIOUS
  <2>1. AliveTypeOK' /\ RowsLoaded'
    BY AliveTypes, RowsStep DEF AliveProven
  <2>2. TimersTell' /\ JustHeard' /\ IndexComes' /\ AboutToLog'
    BY <2>1, TimersStep, HeardStep, RoundStep, LogStep DEF AliveProven
  <2>3. FailuresAreReal'
    <3>1. CASE LogFailure
      <4>1. dev[index] \in Sensor /\ silent[dev[index]] \in 0..Bound /\ Alive[dev[index]] \in Nat
        BY SlotFacts DEF AliveProven, AliveTypeOK
      <4> QED BY <3>1, <4>1 DEF LogFailure, AliveProven, AboutToLog, FailuresAreReal
    <3>2. CASE ~LogFailure
      <4>1. wrong' = wrong
        BY <3>2 DEF AliveNext, AliveCheck, InitDevices, Hear, ResetTimer, StillAlive, TimerRunsOut, EditBySM,
                    EditByNet, ClearTable, LoadDeviceDb, CountDevices, SetTimers, Tick, timerVars
      <4> QED BY <4>1 DEF AliveProven, FailuresAreReal
    <3> QED BY <3>1, <3>2
  <2> QED BY <2>1, <2>2, <2>3 DEF AliveProven
<1> QED
  BY <1>1, <1>2, PTL DEF AliveSpec

(* AliveInv: the failure of a sensor is logged only when it has been silent *)
(* for its aliveperiod, for every table and whatever commands change it.    *)
THEOREM FailuresLoggedAreReal == AliveSpec => []AliveInv
<1>1. AliveProven => AliveInv
  BY DEF AliveProven, AliveInv
<1> QED
  BY <1>1, AliveIsInductive, PTL

(* SilenceIsNoticed: one round of DeviceIndex, a device each second, and    *)
(* the second that a pass may take, is as long as a silent sensor goes      *)
(* without its flag, for any number of sensors.                             *)
THEOREM SilentSensorsAreFlagged == AliveSpec => []SilenceIsNoticed
<1>1. AliveProven => SilenceIsNoticed
  <2> SUFFICES ASSUME AliveProven, rpc = "idle", NEW i \in 1..number,
                      silent[dev[i]] > Alive[dev[i]] + number + 1
               PROVE  flag[i]
    BY DEF SilenceIsNoticed
  <2>1. /\ number \in Nat /\ index \in 1..number /\ dev[i] \in Sensor
        /\ silent[dev[i]] \in 0..Bound /\ Alive[dev[i]] \in Nat
    BY IdleTable, SlotFacts DEF AliveProven, AliveTypeOK
  <2>2. Distance(i) \in Nat
    BY <2>1 DEF Distance
  <2> QED BY <2>1, <2>2 DEF AliveProven, IndexComes
<1> QED
  BY <1>1, AliveIsInductive, PTL
=============================================================================
