---------------------------- MODULE FtpUploadProofs ----------------------------
(***************************************************************************)
(* Proofs about FtpUpload, for every number of blocks and every server,    *)
(* one with replies that get_line tears apart included.                    *)
(***************************************************************************)
EXTENDS FtpUpload, TLAPS

(* What a server adds to the wire are lines, and it says the digit it means. *)
LEMMA AnswersAreLines ==
    ASSUME NEW to \in Reply, NEW digit \in Digit, Answer(to, digit)
    PROVE  \E pieces \in Seq(Line) :
              /\ wire' = wire \o pieces
              /\ \A i \in 1..Len(pieces) :
                    pieces[i].to # "rest" => pieces[i].to = to /\ pieces[i].digit = digit
              /\ replying' \in Line \cup {NoLine}
              /\ replying' # NoLine => replying'.to = to /\ replying'.digit = digit
<1>1. PICK more \in BOOLEAN :
        LET line == [to |-> to, digit |-> digit, more |-> more] IN
          /\ \E pieces \in Pieces(line) : wire' = wire \o pieces
          /\ replying' = IF more THEN line ELSE NoLine
  BY DEF Answer
<1> DEFINE line == [to |-> to, digit |-> digit, more |-> more]
<1>2. line \in Line /\ line.to = to /\ line.digit = digit
  BY DEF Line
<1>3. PICK pieces \in Pieces(line) : wire' = wire \o pieces
  BY <1>1
<1>4. /\ pieces \in Seq(Line)
      /\ \A i \in 1..Len(pieces) :
            pieces[i].to # "rest" => pieces[i].to = to /\ pieces[i].digit = digit
  <2> HIDE DEF line
  <2>1. CASE pieces = <<line>>
    BY <2>1, <1>2
  <2>2. CASE \E rest \in Text : pieces = <<line, rest>>
    <3>1. PICK rest \in Text : pieces = <<line, rest>>
      BY <2>2
    <3>2. rest \in Line /\ rest.to = "rest"
      BY DEF Text, Line
    <3>3. /\ pieces \in Seq(Line) /\ Len(pieces) = 2
          /\ pieces[1] = line /\ pieces[2] = rest
      BY <1>2, <3>1, <3>2
    <3>4. \A i \in 1..Len(pieces) : i = 1 \/ i = 2
      BY <3>3
    <3>5. QED
      BY <1>2, <3>2, <3>3, <3>4
  <2>3. QED
    BY <1>3, <2>1, <2>2 DEF Pieces
<1>5. /\ replying' \in Line \cup {NoLine}
      /\ replying' # NoLine => replying'.to = to /\ replying'.digit = digit
  BY <1>1, <1>2
<1>6. QED
  BY <1>3, <1>4, <1>5

(* The first line of a reply is not NoLine. *)
LEMMA NoLineIsNone == NoLine \notin Line /\ \A line \in Line : line # NoLine
  BY DEF NoLine, Line, Reply, Command

(* FtpUpload: every variable keeps its type. *)
THEOREM UploadTypes == Spec => []TypeOK
<1> USE BlocksAssumption, SwitchAssumption
<1>1. Init => TypeOK
  <2>1. <<>> \in Seq(Reply) /\ <<>> \in Seq(Line)
    OBVIOUS
  <2>2. ASSUME Init PROVE request \in Seq(Reply) /\ wire \in Seq(Line)
    BY <2>1, <2>2 DEF Init
  <2>3. ASSUME Init PROVE blocks \in 0..Blocks /\ sockets \subseteq {"ctrl", "data"}
    BY <2>3 DEF Init
  <2>4. ASSUME Init PROVE
            /\ at \in Reply \cup {"connect", "data", "write", "end"}
            /\ sent \in BOOLEAN /\ stray \in BOOLEAN /\ cut \in BOOLEAN
            /\ hungup \in BOOLEAN /\ receiving \in BOOLEAN
            /\ result \in {"none", "ok", "error"}
            /\ reading \in Line \cup {NoLine} /\ replying \in Line \cup {NoLine}
            /\ {tmp, final} \subseteq {"absent", "truncated", "whole"}
    BY <2>4 DEF Init
  <2>5. QED
    BY <2>2, <2>3, <2>4 DEF TypeOK
<1>2. TypeOK /\ [Next]_vars => TypeOK'
  <2> SUFFICES ASSUME TypeOK, [Next]_vars
               PROVE  TypeOK'
    OBVIOUS
  <2> USE DEF TypeOK, serverVars, readVars
  <2>0. \A r \in Reply : Wanted[r] \in Digit
    BY DEF Reply, Command, Wanted, Digit
  <2>00. NextLine => wire' \in Seq(Line) /\ Head(wire) \in Line
    BY DEF NextLine
  <2>000. ASSUME NEW to \in Reply, NEW digit \in Digit, Answer(to, digit)
          PROVE  wire' \in Seq(Line) /\ replying' \in Line \cup {NoLine}
    <3>1. PICK pieces \in Seq(Line) :
             /\ wire' = wire \o pieces
             /\ replying' \in Line \cup {NoLine}
      BY <2>000, AnswersAreLines
    <3>2. QED
      BY <3>1
  <2>1. CASE Connect
    BY <2>1 DEF Connect, Reply, Command, Wanted
  <2>2. CASE ConnectFails \/ DataSocketFails
    BY <2>2 DEF ConnectFails, DataSocketFails, Return
  <2>3. CASE SendCommand
    BY <2>3 DEF SendCommand, Reply
  <2>4. CASE ReplyWanted
    <3>1. at # "QUIT" => After[at] \in Reply \cup {"data"}
      BY <2>4 DEF ReplyWanted, TakeReply, NextLine, After, Reply, Command, Wanted
    <3>2. QED
      BY <2>4, <2>00, <3>1 DEF ReplyWanted, TakeReply, NextLine, Return
  <2>5. CASE EprtRefused
    BY <2>5, <2>00 DEF EprtRefused, TakeReply, NextLine, Reply, Command
  <2>6. CASE ReplyRefused
    BY <2>6, <2>00 DEF ReplyRefused, TakeReply, NextLine, Return
  <2>7. CASE CommandLost
    BY <2>7 DEF CommandLost, Return
  <2>8. CASE WriteBlock
    BY <2>8 DEF WriteBlock
  <2>9. CASE EndOfData
    BY <2>9 DEF EndOfData, Reply, Command, Wanted
  <2>10. CASE AcceptFails \/ WriteFails
    BY <2>10 DEF AcceptFails, WriteFails, SendFileFails
  <2>11. CASE ServerAccepts
    <3>1. Head(request) \in Reply /\ request' \in Seq(Reply)
      BY <2>11 DEF ServerAccepts
    <3>2. wire' \in Seq(Line) /\ replying' \in Line \cup {NoLine}
      BY <2>11, <3>1, <2>0, <2>000 DEF ServerAccepts
    <3>3. QED
      BY <2>11, <3>1, <3>2 DEF ServerAccepts, Done, clientVars
  <2>12. CASE ServerRefuses
    <3>1. Head(request) \in Reply /\ request' \in Seq(Reply)
      BY <2>12 DEF ServerRefuses
    <3>2. wire' \in Seq(Line) /\ replying' \in Line \cup {NoLine}
      BY <2>12, <3>1, <2>000 DEF ServerRefuses, Digit
    <3>3. QED
      BY <2>12, <3>1, <3>2 DEF ServerRefuses, clientVars
  <2>13. CASE ServerStores
    <3>1. wire' \in Seq(Line) /\ replying' \in Line \cup {NoLine}
      <4>1. PICK digit \in {Wanted["complete"], Refusal, Garbled} :
                Answer("complete", digit)
        BY <2>13 DEF ServerStores
      <4>2. digit \in Digit /\ "complete" \in Reply
        BY <4>1 DEF Wanted, Digit, Reply
      <4>3. QED
        BY <4>1, <4>2, <2>000
    <3>2. QED
      BY <2>13, <3>1 DEF ServerStores, clientVars
  <2>14. CASE ReadOn
    BY <2>14, <2>00 DEF ReadOn, NextLine, clientVars
  <2>15. CASE Accept
    BY <2>15 DEF Accept
  <2>16. CASE ServerGoesOn
    <3>1. PICK text \in Text : wire' = <<text>>
      BY <2>16 DEF ServerGoesOn
    <3>2. text \in Line
      BY DEF Text, Line
    <3>3. QED
      BY <2>16, <3>1, <3>2 DEF ServerGoesOn, clientVars
  <2>17. CASE ServerEnds
    <3>1. replying \in Line
      BY <2>17 DEF ServerEnds
    <3>2. [replying EXCEPT !.more = FALSE] \in Line
      BY <3>1 DEF Line
    <3>3. QED
      BY <2>17, <3>2 DEF ServerEnds, clientVars
  <2>18. CASE UNCHANGED vars
    BY <2>18 DEF vars, clientVars
  <2>19. QED
    BY <2>1, <2>2, <2>3, <2>4, <2>5, <2>6, <2>7, <2>8, <2>9, <2>10, <2>11,
       <2>12, <2>13, <2>14, <2>15, <2>16, <2>17, <2>18
       DEF Next, Client, Write, Server
<1>3. QED
  BY <1>1, <1>2, PTL DEF Spec

(* The rename is asked for only after send_file wrote every block. *)
RenameAfterData ==
    /\ at \in {"complete", "RNFR", "RNTO", "QUIT"} => blocks = Blocks
    /\ \A i \in 1..Len(request) : request[i] = "RNTO" => blocks = Blocks

(* The server closes the file only after send_file is over. *)
StoredAfterData ==
    /\ hungup => at \in {"complete", "RNFR", "RNTO", "QUIT", "end"}
    /\ tmp # "absent" => hungup
    /\ tmp = "truncated" => cut \/ blocks < Blocks

WholeFile == RenameAfterData /\ StoredAfterData /\ FinalIsWhole

(* FtpUpload: a truncated file never gets the name under which the server's *)
(* owner looks for it, except through a write that a signal cut short.      *)
THEOREM FinalFileIsWhole == Spec => []UploadInv
<1> USE BlocksAssumption DEF WholeFile, RenameAfterData, StoredAfterData,
        FinalIsWhole
<1>1. Init => WholeFile
  BY DEF Init
<1>2. TypeOK /\ WholeFile /\ [Next]_vars => WholeFile'
  <2> SUFFICES ASSUME TypeOK, WholeFile, [Next]_vars
               PROVE  WholeFile'
    OBVIOUS
  <2> USE DEF TypeOK, serverVars, readVars
  <2>1. CASE Connect
    BY <2>1 DEF Connect
  <2>2. CASE ConnectFails \/ DataSocketFails
    BY <2>2 DEF ConnectFails, DataSocketFails, Return
  <2>3. CASE SendCommand
    <3>1. /\ Len(request') = Len(request) + 1
          /\ request'[Len(request) + 1] = at
          /\ \A i \in 1..Len(request) : request'[i] = request[i]
      BY <2>3 DEF SendCommand
    <3>2. QED
      BY <2>3, <3>1 DEF SendCommand
  <2>4. CASE ReplyWanted
    <3>1. UNCHANGED <<blocks, cut, hungup, request, tmp, final>>
      BY <2>4 DEF ReplyWanted, TakeReply, NextLine, Return
    <3>2. \/ at' = "end"
          \/ at' = After[at] /\ at \in Reply /\ at # "QUIT"
      BY <2>4 DEF ReplyWanted, TakeReply, NextLine, Return
    <3>3. /\ at' \in {"RNFR", "RNTO", "QUIT"} => at \in {"complete", "RNFR", "RNTO"}
          /\ at' # "complete"
          /\ at \in {"complete", "RNFR", "RNTO"} =>
                at' \in {"RNFR", "RNTO", "QUIT", "end"}
      BY <3>2 DEF After, Reply, Command
    <3>4. at # "end"
      BY <2>4 DEF ReplyWanted, TakeReply, NextLine, Reply, Command
    <3>5. at = "QUIT" => at' = "end"
      BY <3>2
    <3>6. QED
      BY <3>1, <3>3, <3>4, <3>5
  <2>5. CASE EprtRefused
    BY <2>5 DEF EprtRefused, TakeReply, NextLine
  <2>6. CASE ReplyRefused
    BY <2>6 DEF ReplyRefused, TakeReply, NextLine, Return
  <2>7. CASE CommandLost
    BY <2>7 DEF CommandLost, Return
  <2>8. CASE WriteBlock
    <3>1. /\ ~hungup /\ tmp = "absent"
          /\ \A i \in 1..Len(request) : request[i] # "RNTO"
      BY <2>8 DEF WriteBlock
    <3>2. /\ UNCHANGED <<at, hungup, request, tmp, final>>
          /\ cut => cut'
          /\ at = "write"
      BY <2>8 DEF WriteBlock
    <3>3. RenameAfterData'
      BY <3>1, <3>2
    <3>4. StoredAfterData' /\ FinalIsWhole'
      BY <3>1, <3>2
    <3>5. QED
      BY <3>3, <3>4
  <2>9. CASE EndOfData
    BY <2>9 DEF EndOfData
  <2>10. CASE AcceptFails \/ WriteFails
    BY <2>10 DEF AcceptFails, WriteFails, SendFileFails
  <2>11. CASE ServerAccepts \/ ServerRefuses
    <3>0. request # <<>> /\ request' = Tail(request)
      BY <2>11 DEF ServerAccepts, ServerRefuses
    <3>1. /\ Len(request') = Len(request) - 1
          /\ \A i \in 1..Len(request') : request'[i] = request[i + 1]
          /\ Len(request) > 0 /\ Head(request) = request[1]
      BY <3>0
    <3>2. UNCHANGED clientVars
      BY <2>11 DEF ServerAccepts, ServerRefuses
    <3>3. RenameAfterData'
      BY <3>1, <3>2 DEF clientVars
    <3>4. StoredAfterData' /\ FinalIsWhole'
      BY <2>11, <3>1, <3>2 DEF ServerAccepts, ServerRefuses, Done, clientVars
    <3>5. QED
      BY <3>3, <3>4
  <2>12. CASE ServerStores
    BY <2>12 DEF ServerStores, clientVars
  <2>13. CASE ReadOn
    BY <2>13 DEF ReadOn, NextLine, clientVars
  <2>14. CASE Accept
    BY <2>14 DEF Accept
  <2>15. CASE ServerGoesOn \/ ServerEnds
    BY <2>15 DEF ServerGoesOn, ServerEnds, clientVars
  <2>16. CASE UNCHANGED vars
    BY <2>16 DEF vars, clientVars
  <2>17. QED
    BY <2>1, <2>2, <2>3, <2>4, <2>5, <2>6, <2>7, <2>8, <2>9, <2>10, <2>11,
       <2>12, <2>13, <2>14, <2>15, <2>16 DEF Next, Client, Write, Server
<1>3. TypeOK /\ WholeFile => UploadInv
  BY DEF UploadInv
<1>4. QED
  BY <1>1, <1>2, <1>3, UploadTypes, PTL DEF Spec

-----------------------------------------------------------------------------
(* Where a call that is over stands, and what led to CWD and EPRT. *)
Ending ==
    /\ answered \in [want : Reply \cup {"none"}, digit : Digit, misread : BOOLEAN]
    /\ result # "none" <=> at = "end"
    /\ stray => at = "end"
    /\ at = "connect" => answered.want = "none"
    /\ at = "CWD" => HasDirectory /\ answered.want = "TYPE"
    /\ at = "EPRT" => /\ answered.want = BeforeData
                      /\ answered.digit = Wanted[BeforeData]

(* A line that confirms the rename was sent after it, so the client that has *)
(* read it, and took no other line for it, knows that the file is there.     *)
Confirms(line) == line.to = "RNTO" /\ line.digit = Wanted["RNTO"]

RenameConfirmed ==
    /\ \A i \in 1..Len(wire) : Confirms(wire[i]) => final # "absent"
    /\ Confirms(replying) => final # "absent"

RenameKnown == at = "QUIT" /\ ~answered.misread => final # "absent"

CallProven == Ending /\ SocketsAccounted /\ RenameConfirmed /\ RenameKnown

(* What is taken from the wire was on it. *)
LEMMA TakenFromTheWire ==
    ASSUME TypeOK, RenameConfirmed, NextLine
    PROVE  /\ RenameConfirmed'
           /\ Head(wire) = wire[1] /\ 1 \in 1..Len(wire)
           /\ final' = final
<1>1. /\ wire \in Seq(Line) /\ wire # <<>> /\ wire' = Tail(wire)
      /\ final' = final /\ replying' = replying
  BY DEF TypeOK, NextLine, serverVars
<1>2. /\ Len(wire') = Len(wire) - 1
      /\ \A i \in 1..Len(wire') : wire'[i] = wire[i + 1] /\ i + 1 \in 1..Len(wire)
      /\ Head(wire) = wire[1] /\ 1 \in 1..Len(wire)
  BY <1>1
<1>3. RenameConfirmed'
  BY <1>1, <1>2 DEF RenameConfirmed, Confirms
<1>4. QED
  BY <1>1, <1>2, <1>3

(* What the call takes for the last line of a reply. *)
LEMMA ReplyTaken ==
    ASSUME TypeOK, CallProven, TakeReply
    PROVE  /\ RenameConfirmed' /\ final' = final
           /\ at \in Reply
           /\ Head(wire) = wire[1] /\ 1 \in 1..Len(wire)
           /\ answered'.want = at
           /\ answered'.digit = Head(wire).digit
           /\ answered' \in [want : Reply \cup {"none"}, digit : Digit,
                            misread : BOOLEAN]
           /\ answered'.misread \in BOOLEAN
           /\ ~answered'.misread => ~answered.misread /\ Head(wire).to = at
<1>1. NextLine /\ at \in Reply
  BY DEF TakeReply, NextLine
<1>2. /\ answered' = [want |-> at, digit |-> Head(wire).digit,
                      misread |-> answered.misread \/ Head(wire).to # at]
      /\ answered.misread \in BOOLEAN
  BY DEF TakeReply, CallProven, Ending
<1>3. Head(wire) \in Line
  BY <1>1 DEF TypeOK, NextLine
<1>4. answered' \in [want : Reply \cup {"none"}, digit : Digit, misread : BOOLEAN]
  BY <1>1, <1>2, <1>3 DEF Line
<1>5. QED
  BY <1>1, <1>2, <1>4, TakenFromTheWire DEF CallProven

(* What the server adds to the wire says what it did. *)
LEMMA AnsweredTruly ==
    ASSUME TypeOK, RenameConfirmed,
           NEW to \in Reply, NEW digit \in Digit, Answer(to, digit),
           final # "absent" => final' # "absent",
           to = "RNTO" /\ digit = Wanted["RNTO"] => final' # "absent"
    PROVE  RenameConfirmed'
<1>1. PICK pieces \in Seq(Line) :
         /\ wire' = wire \o pieces
         /\ \A i \in 1..Len(pieces) :
               pieces[i].to # "rest" => pieces[i].to = to /\ pieces[i].digit = digit
         /\ replying' \in Line \cup {NoLine}
         /\ replying' # NoLine => replying'.to = to /\ replying'.digit = digit
  BY AnswersAreLines
<1>2. wire \in Seq(Line)
  BY DEF TypeOK
<1>3. ASSUME NEW i \in 1..Len(wire'), Confirms(wire'[i])
      PROVE  final' # "absent"
  <2>1. CASE i \in 1..Len(wire)
    <3>1. wire'[i] = wire[i]
      BY <2>1, <1>1, <1>2
    <3>2. QED
      BY <2>1, <1>3, <3>1 DEF RenameConfirmed
  <2>2. CASE i \notin 1..Len(wire)
    <3>1. i - Len(wire) \in 1..Len(pieces) /\ wire'[i] = pieces[i - Len(wire)]
      BY <2>2, <1>1, <1>2
    <3>2. QED
      BY <3>1, <1>1, <1>3 DEF Confirms
  <2>3. QED
    BY <2>1, <2>2
<1>4. Confirms(replying') => final' # "absent"
  BY <1>1 DEF Confirms, NoLine
<1>5. QED
  BY <1>3, <1>4 DEF RenameConfirmed, Confirms

(* FtpUpload: what the call knows of its reply, its sockets and the rename   *)
(* is inductive.                                                             *)
THEOREM CallIsInductive == Spec => []CallProven
<1> USE DEF CallProven
<1>1. Init => CallProven
  BY DEF Init, Ending, SocketsAccounted, RenameConfirmed, RenameKnown, Confirms,
     NoLine, Digit
<1>2. TypeOK /\ CallProven /\ [Next]_vars => CallProven'
  <2> SUFFICES ASSUME TypeOK, CallProven, [Next]_vars
               PROVE  CallProven'
    OBVIOUS
  <2> USE DEF TypeOK, Ending, SocketsAccounted, RenameKnown
  <2>0. UNCHANGED <<wire, replying, final>> => RenameConfirmed'
    BY DEF RenameConfirmed, Confirms
  <2>1. CASE Connect
    BY <2>1, <2>0 DEF Connect, serverVars, readVars
  <2>2. CASE ConnectFails
    <3>1. PICK open \in {{}, {"ctrl"}} : Return("error", open)
      BY <2>2 DEF ConnectFails
    <3>2. "data" \notin sockets'
      BY <3>1 DEF Return
    <3>3. /\ answered.want = "none" /\ ~stray
          /\ UNCHANGED <<stray, answered>>
          /\ at' = "end" /\ result' = "error"
      BY <2>2, <3>1 DEF ConnectFails, Return, readVars
    <3>4. RenameConfirmed'
      BY <2>2, <2>0 DEF ConnectFails, serverVars, readVars
    <3>5. QED
      BY <3>2, <3>3, <3>4
  <2>3. CASE SendCommand
    <3>1. at \notin {"connect", "end"}
      BY <2>3 DEF SendCommand, Command
    <3>2. QED
      BY <2>3, <2>0, <3>1 DEF SendCommand, serverVars, readVars
  <2>4. CASE DataSocketFails
    <3>1. PICK open \in {{}, {"data"}} : Return("error", open)
      BY <2>4 DEF DataSocketFails
    <3>2. "ctrl" \notin sockets'
      BY <3>1 DEF Return
    <3>3. /\ at = "EPRT" /\ ~stray
          /\ UNCHANGED <<stray, answered>>
          /\ at' = "end" /\ result' = "error"
      BY <2>4, <3>1 DEF DataSocketFails, Return, readVars
    <3>4. RenameConfirmed'
      BY <2>4, <2>0 DEF DataSocketFails, serverVars, readVars
    <3>5. QED
      BY <3>2, <3>3, <3>4
  <2>5. CASE ReplyWanted
    <3>1. /\ TakeReply
          /\ Head(wire).digit = Wanted[at]
          /\ stray' = stray
      BY <2>5 DEF ReplyWanted
    <3>2. at \notin {"connect", "end"} /\ ~stray /\ result = "none"
      BY <3>1, ReplyTaken DEF Reply, Command
    <3>3. CASE at = "QUIT"
      BY <2>5, <3>1, <3>2, <3>3, ReplyTaken DEF ReplyWanted, Return
    <3>4. CASE at # "QUIT"
      <4>1. at' = After[at] /\ result' = result
        BY <2>5, <3>4 DEF ReplyWanted
      <4>2. /\ at' \notin {"connect", "end"}
            /\ at' = "CWD" => at = "TYPE" /\ HasDirectory
            /\ at' = "EPRT" => at = BeforeData
            /\ at' = "QUIT" => at = "RNTO"
        BY <3>1, <3>4, <4>1, SwitchAssumption, ReplyTaken
           DEF After, Reply, Command, BeforeData
      <4>3. RenameKnown'
        BY <3>1, <4>2, ReplyTaken DEF RenameConfirmed, Confirms
      <4>4. QED
        BY <3>1, <3>2, <4>1, <4>2, <4>3, ReplyTaken
    <3>5. QED
      BY <3>3, <3>4
  <2>6. CASE EprtRefused
    <3>1. TakeReply /\ at = "EPRT" /\ at' = "PORT" /\ UNCHANGED <<stray, result>>
      BY <2>6 DEF EprtRefused
    <3>2. QED
      BY <3>1, ReplyTaken
  <2>7. CASE ReplyRefused
    <3>1. /\ TakeReply
          /\ stray' = (at = "CWD" /\ Head(wire).digit = Garbled)
          /\ Return("error", IF at \in {"RNFR", "RNTO"} /\ Head(wire).digit # Garbled
                               THEN {"data"} ELSE {})
      BY <2>7 DEF ReplyRefused
    <3>2. at \notin {"connect", "end"} /\ ~stray
      BY <3>1, ReplyTaken DEF Reply, Command
    <3>3. QED
      BY <3>1, <3>2, ReplyTaken DEF Return
  <2>8. CASE CommandLost
    BY <2>8, <2>0 DEF CommandLost, Return, serverVars, readVars
  <2>9. CASE WriteBlock
    BY <2>9, <2>0 DEF WriteBlock, serverVars, readVars
  <2>10. CASE EndOfData
    BY <2>10, <2>0 DEF EndOfData, serverVars, readVars
  <2>11. CASE AcceptFails \/ WriteFails
    BY <2>11, <2>0 DEF AcceptFails, WriteFails, SendFileFails, serverVars, readVars
  <2>12. CASE ServerAccepts
    <3>1. Head(request) \in Reply /\ UNCHANGED <<clientVars, answered>>
      BY <2>12 DEF ServerAccepts
    <3>2. /\ final # "absent" => final' # "absent"
          /\ Head(request) = "RNTO" => final' # "absent"
      BY <2>12 DEF ServerAccepts, Done
    <3>3. Wanted[Head(request)] \in Digit
      BY <3>1 DEF Reply, Command, Wanted, Digit
    <3>4. RenameConfirmed'
      <4>1. CASE Answer(Head(request), Wanted[Head(request)])
        BY <3>1, <3>2, <3>3, <4>1, AnsweredTruly
      <4>2. CASE UNCHANGED <<wire, replying>>
        BY <3>2, <4>2 DEF RenameConfirmed, Confirms
      <4>3. QED
        BY <2>12, <4>1, <4>2 DEF ServerAccepts
    <3>5. QED
      BY <3>1, <3>2, <3>4 DEF clientVars
  <2>13. CASE ServerRefuses
    <3>1. /\ Head(request) \in Reply
          /\ UNCHANGED <<clientVars, final, answered>>
      BY <2>13 DEF ServerRefuses
    <3>2. PICK digit \in {Refusal, Garbled} : Answer(Head(request), digit)
      BY <2>13 DEF ServerRefuses
    <3>3. digit \in Digit /\ digit # Wanted["RNTO"]
      BY <3>2 DEF Refusal, Garbled, Wanted, Digit
    <3>4. RenameConfirmed'
      BY <3>1, <3>2, <3>3, AnsweredTruly
    <3>5. QED
      BY <3>1, <3>4 DEF clientVars
  <2>14. CASE ServerStores
    <3>1. UNCHANGED <<clientVars, final, answered>>
      BY <2>14 DEF ServerStores
    <3>2. PICK digit \in {Wanted["complete"], Refusal, Garbled} : Answer("complete", digit)
      BY <2>14 DEF ServerStores
    <3>3. digit \in Digit /\ "complete" \in Reply /\ "complete" # "RNTO"
      BY <3>2 DEF Wanted, Digit, Reply
    <3>4. RenameConfirmed'
      BY <3>1, <3>2, <3>3, AnsweredTruly
    <3>5. QED
      BY <3>1, <3>4 DEF clientVars
  <2>15. CASE ReadOn
    <3>1. NextLine /\ UNCHANGED clientVars
      BY <2>15 DEF ReadOn
    <3>2. /\ answered' \in [want : Reply \cup {"none"}, digit : Digit,
                            misread : BOOLEAN]
          /\ answered'.want = answered.want /\ answered'.digit = answered.digit
          /\ answered.misread => answered'.misread
      <4>1. \/ UNCHANGED answered
            \/ answered' = [answered EXCEPT !.misread = @ \/ Head(wire).to # at]
        BY <2>15 DEF ReadOn
      <4>2. QED
        BY <4>1
    <3>3. RenameConfirmed' /\ final' = final
      BY <3>1, TakenFromTheWire
    <3>4. QED
      BY <3>1, <3>2, <3>3 DEF clientVars
  <2>16. CASE Accept
    BY <2>16, <2>0 DEF Accept, serverVars, readVars
  <2>17. CASE ServerGoesOn
    <3>1. PICK text \in Text : wire' = <<text>>
      BY <2>17 DEF ServerGoesOn
    <3>2. \A i \in 1..Len(wire') : wire'[i].to = "rest"
      BY <3>1 DEF Text
    <3>3. RenameConfirmed'
      BY <2>17, <3>2 DEF ServerGoesOn, RenameConfirmed, Confirms, serverVars
    <3>4. QED
      BY <2>17, <3>3 DEF ServerGoesOn, clientVars, serverVars
  <2>18. CASE ServerEnds
    <3>1. /\ replying \in Line /\ wire \in Seq(Line)
          /\ wire' = Append(wire, [replying EXCEPT !.more = FALSE])
          /\ replying' = NoLine /\ final' = final
          /\ UNCHANGED <<clientVars, answered>>
      BY <2>18 DEF ServerEnds
    <3>2. /\ [replying EXCEPT !.more = FALSE].to = replying.to
          /\ [replying EXCEPT !.more = FALSE].digit = replying.digit
      BY <3>1 DEF Line
    <3>3. ASSUME NEW i \in 1..Len(wire'), Confirms(wire'[i]) PROVE final # "absent"
      <4>1. CASE i \in 1..Len(wire)
        BY <3>1, <3>3, <4>1 DEF RenameConfirmed
      <4>2. CASE i \notin 1..Len(wire)
        <5>1. wire'[i] = [replying EXCEPT !.more = FALSE]
          BY <3>1, <4>2
        <5>2. QED
          BY <3>2, <3>3, <5>1 DEF RenameConfirmed, Confirms
      <4>3. QED
        BY <4>1, <4>2
    <3>4. ~Confirms(NoLine)
      BY DEF Confirms, NoLine
    <3>5. RenameConfirmed'
      BY <3>1, <3>3, <3>4 DEF RenameConfirmed, Confirms
    <3>6. QED
      BY <3>1, <3>5 DEF clientVars
  <2>19. CASE UNCHANGED vars
    BY <2>19, <2>0 DEF vars, clientVars, serverVars, readVars
  <2>20. QED
    BY <2>1, <2>2, <2>3, <2>4, <2>5, <2>6, <2>7, <2>8, <2>9, <2>10, <2>11,
       <2>12, <2>13, <2>14, <2>15, <2>16, <2>17, <2>18, <2>19
       DEF Next, Client, Write, Server
<1>3. QED
  BY <1>1, <1>2, UploadTypes, PTL DEF Spec

(* FtpUpload: whatever the server refuses, loses, garbles or tears apart,   *)
(* the call leaves a socket open only where the connection failed, a rename *)
(* was refused with a digit or the data socket got no timeout, and closes   *)
(* one that was never opened only at CWD, where the connection broke or the *)
(* reply was garbled.                                                       *)
THEOREM CallAccountsForSockets == Spec => []SocketsAccounted
<1>1. CallProven => SocketsAccounted
  BY DEF CallProven
<1>2. QED
  BY <1>1, CallIsInductive, PTL

(* FtpUpload: the call implements AtomicUpload: the file appears once and   *)
(* stays, a call that returns 0 without having misread a reply has put it   *)
(* there, and what a call returned never changes.                           *)
THEOREM CallImplementsAtomicUpload == Spec => ImplementsAtomicUpload
<1>1. Init => Upload!UploadInit
  BY DEF Init, Upload!UploadInit, Told
<1>2. TypeOK /\ CallProven /\ [Next]_vars
        => [Upload!UploadNext]_(Upload!uploadVars)
  <2> SUFFICES ASSUME TypeOK, CallProven, [Next]_vars
               PROVE  [Upload!UploadNext]_(Upload!uploadVars)
    OBVIOUS
  <2> USE DEF Told, Upload!UploadNext, Upload!uploadVars
  <2>0. UNCHANGED <<final, result, answered>> => UNCHANGED Upload!uploadVars
    OBVIOUS
  <2>1. at \notin {"end"} <=> result = "none"
    BY DEF CallProven, Ending
  <2>2. ASSUME at # "end", final' = final, result' = "error"
        PROVE  Upload!ReturnError
    BY <2>1, <2>2 DEF Upload!ReturnError
  <2>3. CASE Connect
    BY <2>3, <2>0 DEF Connect, serverVars, readVars
  <2>4. CASE ConnectFails \/ DataSocketFails
    BY <2>4, <2>2 DEF ConnectFails, DataSocketFails, Return, serverVars
  <2>5. CASE SendCommand
    BY <2>5, <2>0 DEF SendCommand, serverVars, readVars
  <2>6. CASE ReplyWanted
    <3>1. /\ TakeReply /\ at \in Reply /\ final' = final
      BY <2>6, ReplyTaken DEF ReplyWanted
    <3>2. result = "none"
      BY <2>1, <3>1 DEF Reply, Command
    <3>3. CASE at # "QUIT"
      BY <2>6, <3>1, <3>2, <3>3 DEF ReplyWanted
    <3>4. CASE at = "QUIT"
      <4>1. result' = "ok"
        BY <2>6, <3>4 DEF ReplyWanted, Return
      <4>2. CASE answered'.misread
        BY <3>1, <3>2, <4>1, <4>2 DEF Upload!ReturnError
      <4>3. CASE ~answered'.misread
        <5>1. final # "absent"
          BY <3>1, <3>4, <4>3, ReplyTaken DEF CallProven, RenameKnown
        <5>2. QED
          BY <3>1, <3>2, <4>1, <4>3, <5>1 DEF Upload!ReturnOk
      <4>4. QED
        BY <4>2, <4>3, <3>1, ReplyTaken
    <3>5. QED
      BY <3>3, <3>4
  <2>7. CASE EprtRefused
    <3>1. result = "none" /\ result' = "none" /\ final' = final
      BY <2>7, <2>1, ReplyTaken DEF EprtRefused
    <3>2. QED
      BY <3>1
  <2>8. CASE ReplyRefused
    <3>1. at # "end" /\ final' = final /\ result' = "error"
      BY <2>8, ReplyTaken DEF ReplyRefused, Return, Reply, Command
    <3>2. QED
      BY <2>2, <3>1
  <2>9. CASE CommandLost
    <3>1. at # "end" /\ final' = final /\ result' = "error"
      BY <2>9 DEF CommandLost, Return, serverVars, Reply, Command
    <3>2. QED
      BY <2>2, <3>1
  <2>10. CASE WriteBlock
    BY <2>10, <2>0 DEF WriteBlock, serverVars, readVars
  <2>11. CASE EndOfData
    BY <2>11, <2>0 DEF EndOfData, serverVars, readVars
  <2>12. CASE AcceptFails \/ WriteFails
    BY <2>12, <2>2 DEF AcceptFails, WriteFails, SendFileFails, serverVars
  <2>13. CASE ServerAccepts
    <3>1. /\ final # "absent" => final' # "absent"
          /\ UNCHANGED <<result, answered>>
      BY <2>13 DEF ServerAccepts, Done, clientVars
    <3>2. (final # "absent") = (final' # "absent") => UNCHANGED Upload!uploadVars
      BY <3>1
    <3>3. final = "absent" /\ final' # "absent" => Upload!Store
      BY <3>1 DEF Upload!Store
    <3>4. QED
      BY <3>1, <3>2, <3>3
  <2>14. CASE ServerRefuses \/ ServerStores \/ ServerGoesOn \/ ServerEnds
    BY <2>14, <2>0 DEF ServerRefuses, ServerStores, ServerGoesOn, ServerEnds,
       serverVars, clientVars
  <2>15. CASE ReadOn
    <3>1. /\ final' = final /\ result' = result
          /\ at \in Reply
      BY <2>15 DEF ReadOn, NextLine, clientVars, serverVars
    <3>2. result = "none"
      BY <2>1, <3>1 DEF Reply, Command
    <3>3. QED
      BY <3>1, <3>2
  <2>16. CASE Accept
    BY <2>16, <2>0 DEF Accept, serverVars, readVars
  <2>17. CASE UNCHANGED vars
    BY <2>17, <2>0 DEF vars, clientVars, serverVars, readVars
  <2>18. QED
    BY <2>3, <2>4, <2>5, <2>6, <2>7, <2>8, <2>9, <2>10, <2>11, <2>12, <2>13,
       <2>14, <2>15, <2>16, <2>17 DEF Next, Client, Write, Server
<1>3. QED
  BY <1>1, <1>2, UploadTypes, CallIsInductive, PTL
     DEF Spec, ImplementsAtomicUpload, Upload!UploadSpec

=============================================================================
