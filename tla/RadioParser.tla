----------------------------- MODULE RadioParser -----------------------------
(***************************************************************************)
(* The state machine by which Parser (protocolrimms.c) finds frames in the *)
(* bytes from the radio: a colon, the address of this gateway, the fields, *)
(* and the sum of all these modulo 256.                                    *)
(*                                                                         *)
(* The kernel's queue and the ring buffer are one sequence here: the       *)
(* buffer holds as many bytes as one read() may return, and Parser empties *)
(* it before it reads again, so LoadDataRf never finds it full.            *)
(***************************************************************************)
EXTENDS Integers, Sequences

CONSTANTS
    Modulus,  \* 256
    Colon,    \* the first byte of a frame
    Gw,       \* Gw.b, the two bytes of the gateway's address
    Fields    \* how many bytes of addresses and data follow, 40 in the code

Byte == 0..(Modulus - 1)

ASSUME RadioAssumption ==
    /\ Modulus \in Nat \ {0} /\ Fields \in Nat \ {0}
    /\ Colon \in Byte /\ Gw \in Byte \X Byte

VARIABLES
    tty,               \* the bytes that have arrived and are not yet taken
    unit,              \* what these bytes are, or were when the queue is empty
    protocolstate,     \* how many bytes of a frame Parser has seen
    protocolchecksum,  \* their sum
    fields,            \* those that follow the address, in Rp1 to bufferdata
    accepted,          \* the fields of the frame accepted since unit began
    aligned            \* observed only: unit began with protocolstate 0

parserVars == <<protocolstate, protocolchecksum, fields, accepted>>
vars == <<tty, unit, parserVars, aligned>>

None == <<>>

Payload == [1..Fields -> Byte]

Length == Fields + 4

(* The sums of the first bytes of s, none to all, as a byte holds them. *)
Sums(s) ==
    LET sum[n \in 0..Len(s)] ==
            IF n = 0 THEN 0 ELSE (sum[n - 1] + s[n]) % Modulus
    IN  sum

(* What a sensor sends for these fields. *)
Body(f) == <<Colon>> \o Gw \o f
Frame(f) == Append(Body(f), Sums(Body(f))[Length - 1])

(* Bytes that cannot be taken for the beginning of a frame but at the first. *)
Plain(bytes) == \A i \in 2..Len(bytes) : bytes[i] # Colon

(* All frames, and all frames with one byte changed, each with its fields. *)
Frames == {<<f, Frame(f)>> : f \in Payload}

ChangedFrames ==
    {<<s[1], [s[2] EXCEPT ![i] = b]>> : s \in Frames, i \in 1..Length, b \in Byte}
    \ Frames

-----------------------------------------------------------------------------
(* Bytes arrive.  A single stray byte, and with several of them any         *)
(* sequence: noise, a frame for another gateway, pieces of lost frames.     *)
Arrive(kind, f, bytes) ==
    /\ tty = <<>>
    /\ tty' = bytes
    /\ unit' = [kind |-> kind, fields |-> f, plain |-> Plain(bytes)]
    /\ accepted' = None
    /\ aligned' = (protocolstate = 0)
    /\ UNCHANGED <<protocolstate, protocolchecksum, fields>>

WholeFrame ==
    \E s \in Frames : Arrive("whole", s[1], s[2])

(* One byte of a frame is received as another one. *)
ChangedFrame ==
    \E s \in ChangedFrames : Arrive("changed", s[1], s[2])

StrayByte ==
    \E b \in Byte : Arrive("stray", None, <<b>>)

-----------------------------------------------------------------------------
(* One turn of the loop of Parser.  The byte is added to the sum in any     *)
(* case, after state 0 has cleared it at a colon.                           *)
TakeByte ==
    /\ tty # <<>>
    /\ tty' = Tail(tty)
    /\ UNCHANGED <<unit, aligned>>

AddByte(sum) == protocolchecksum' = (sum + Head(tty)) % Modulus

(* Mutant: the sum is not cleared at the beginning of a frame. *)
LookForColonKeepsSum ==
    /\ protocolstate = 0
    /\ TakeByte
    /\ AddByte(protocolchecksum)
    /\ IF Head(tty) = Colon
         THEN protocolstate' = 1 /\ fields' = <<>>
         ELSE UNCHANGED <<protocolstate, fields>>
    /\ UNCHANGED accepted

LookForColon ==
    /\ protocolstate = 0
    /\ TakeByte
    /\ IF Head(tty) = Colon
         THEN protocolstate' = 1 /\ AddByte(0) /\ fields' = <<>>
         ELSE AddByte(protocolchecksum) /\ UNCHANGED <<protocolstate, fields>>
    /\ UNCHANGED accepted

GatewayByte ==
    /\ protocolstate \in {1, 2}
    /\ TakeByte
    /\ protocolstate' = IF Head(tty) = Gw[protocolstate] THEN protocolstate + 1 ELSE 0
    /\ AddByte(protocolchecksum)
    /\ UNCHANGED <<fields, accepted>>

FieldByte ==
    /\ protocolstate \in 3..(Fields + 2)
    /\ TakeByte
    /\ protocolstate' = protocolstate + 1
    /\ fields' = Append(fields, Head(tty))
    /\ AddByte(protocolchecksum)
    /\ UNCHANGED accepted

(* Mutant: a wrong sum does not end the frame. *)
ChecksumByteWaits ==
    /\ protocolstate = Fields + 3
    /\ TakeByte
    /\ IF Head(tty) = protocolchecksum
         THEN accepted' = fields /\ protocolstate' = 0
         ELSE UNCHANGED <<accepted, protocolstate>>
    /\ AddByte(protocolchecksum)
    /\ UNCHANGED fields

(* Mutant: the sum is taken but not compared. *)
ChecksumByteUnchecked ==
    /\ protocolstate = Fields + 3
    /\ TakeByte
    /\ accepted' = fields
    /\ protocolstate' = 0
    /\ AddByte(protocolchecksum)
    /\ UNCHANGED fields

ChecksumByte ==
    /\ protocolstate = Fields + 3
    /\ TakeByte
    /\ accepted' = IF Head(tty) = protocolchecksum THEN fields ELSE accepted
    /\ protocolstate' = 0
    /\ AddByte(protocolchecksum)
    /\ UNCHANGED fields

Parser == LookForColon \/ GatewayByte \/ FieldByte \/ ChecksumByte

Init ==
    /\ tty = <<>>
    /\ unit = [kind |-> "stray", fields |-> None, plain |-> TRUE]
    /\ protocolstate = 0
    /\ protocolchecksum = 0
    /\ fields = <<>>
    /\ accepted = None
    /\ aligned = TRUE

Next == WholeFrame \/ ChangedFrame \/ StrayByte \/ Parser

Spec == Init /\ [][Next]_vars

-----------------------------------------------------------------------------
(* Types; a queue never holds more than one frame. *)
TypeOK ==
    /\ tty \in Seq(Byte) /\ Len(tty) <= Length
    /\ unit.kind \in {"whole", "changed", "stray"}
    /\ unit.fields \in Payload \union {None} /\ unit.plain \in BOOLEAN
    /\ protocolstate \in 0..(Fields + 3)
    /\ protocolchecksum \in Byte
    /\ fields \in Seq(Byte) /\ Len(fields) <= Fields
    /\ accepted \in Payload \union {None}
    /\ aligned \in BOOLEAN

(* A frame that arrives whole when Parser is in step, between two frames,   *)
(* is accepted, and Parser is in step again, whatever is in the frame.      *)
WholeFrameAccepted ==
    tty = <<>> /\ unit.kind = "whole" /\ aligned =>
        accepted = unit.fields /\ protocolstate = 0

(* The types of the parser, and that it accepts whole frames.               *)
FrameInv == TypeOK /\ WholeFrameAccepted

(* However far out of step noise and lost bytes have brought Parser, a frame *)
(* that has no colon in it but the first byte brings it back, so that the    *)
(* next one is accepted: also one that arrives with a byte changed.          *)
BackInStep ==
    tty = <<>> /\ unit.kind # "stray" /\ unit.plain => protocolstate = 0

(* Of a frame with one byte changed that finds Parser in step nothing is    *)
(* accepted while it arrives.  Nor is any of it accepted together with      *)
(* bytes that follow, when it has no colon inside: Parser has done with it. *)
(* From a colon inside it Parser goes on into the next bytes, and accepts   *)
(* what ends there if only the sum agrees.                                  *)
ChangedFrameRejected ==
    unit.kind = "changed" /\ aligned =>
        /\ accepted = None
        /\ tty = <<>> /\ unit.plain => protocolstate = 0
=============================================================================
