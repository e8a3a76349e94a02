------------------------------ MODULE FtpUpload ------------------------------
(***************************************************************************)
(* One call of ftpupload_RiMMS (ftpclient.c) and the FTP server it talks   *)
(* to.  The client sends a command, reads lines until the reply is over,   *)
(* compares its first character with the digit it wants, and goes on or    *)
(* gives up; the file is stored as tmpfilename and renamed when the server *)
(* has confirmed it.  The server is external: it answers in order, refuses *)
(* what it likes, makes its replies as long as it likes, and may have done *)
(* what it was asked although the client never learns it.                  *)
(***************************************************************************)
EXTENDS Integers, Sequences

CONSTANTS
    Blocks,        \* the writes send_file needs for the file
    HasDirectory,  \* ftpdir is not empty
    LongReplies,   \* the replies that may exceed the 100 characters of get_line
    MultiReplies   \* the replies that may have more than one line

ASSUME BlocksAssumption == Blocks \in Nat \ {0}
ASSUME SwitchAssumption == HasDirectory \in BOOLEAN

(* The first digit the client wants in reply to each command; "welcome" and *)
(* "complete" are the replies that follow the connection and the data.      *)
Wanted == [welcome |-> 2, USER |-> 3, PASS |-> 2, TYPE |-> 2, CWD |-> 2,
           EPRT |-> 2, PORT |-> 2, STOR |-> 1, complete |-> 2, RNFR |-> 3,
           RNTO |-> 2, QUIT |-> 2]

Command == {"USER", "PASS", "TYPE", "CWD", "EPRT", "PORT", "STOR", "RNFR",
            "RNTO", "QUIT"}
Reply == Command \cup {"welcome", "complete"}

(* get_reply returns the first character less '0': Refusal stands for every *)
(* digit that is never wanted, Garbled for a line that begins with a        *)
(* character below the digits, which is a negative return without an error. *)
Refusal == 5
Garbled == -1
Digit == {Garbled, 1, 2, 3, Refusal}

(* What a line says: the reply it belongs to ("rest": text that is no reply *)
(* of its own), the digit, and whether a '-' follows the code.              *)
Line == [to : Reply \cup {"rest"}, digit : Digit, more : BOOLEAN]
NoLine == [to |-> "none", digit |-> Garbled, more |-> FALSE]

VARIABLES
    at,       \* the reply the client works for, "connect", "data", "write" or "end"
    sent,     \* the command is on its way: the client waits in get_reply
    reading,  \* the first line of a reply of several lines, or NoLine
    sockets,  \* the client's open sockets
    stray,    \* close was called on a data_s that was never assigned
    blocks,   \* the blocks send_file has written
    cut,      \* a signal cut one of these writes short, unnoticed
    hungup,   \* send_file has closed the data connection
    result,   \* what ftpupload_RiMMS returned
    request,  \* commands on their way to the server
    wire,     \* reply lines on their way to the client
    replying, \* the server is within this reply of several lines, or NoLine
    receiving,\* the server has answered STOR and takes data
    tmp,      \* the file under tmpfilename on the server
    final,    \* the file under filename on the server
    answered  \* observed only: what the client took the last reply for, its digit,
              \* and whether any line was not the reply it was taken for

clientVars == <<at, sent, sockets, stray, blocks, cut, hungup, result>>
serverVars == <<replying, receiving, tmp, final>>
readVars == <<reading, wire, answered>>
vars == <<clientVars, readVars, request, serverVars>>

-----------------------------------------------------------------------------
(* The client *)

(* Mutant: the file is never renamed. *)
AfterWithoutRename ==
    [welcome |-> "USER", USER |-> "PASS", PASS |-> "TYPE",
     TYPE |-> IF HasDirectory THEN "CWD" ELSE "EPRT", CWD |-> "EPRT",
     EPRT |-> "STOR", PORT |-> "STOR", STOR |-> "data",
     complete |-> "QUIT", RNFR |-> "RNTO", RNTO |-> "QUIT"]

(* What ftpupload_RiMMS_var turns to after a reply it wanted. *)
After ==
    [welcome |-> "USER", USER |-> "PASS", PASS |-> "TYPE",
     TYPE |-> IF HasDirectory THEN "CWD" ELSE "EPRT", CWD |-> "EPRT",
     EPRT |-> "STOR", PORT |-> "STOR", STOR |-> "data",
     complete |-> "RNFR", RNFR |-> "RNTO", RNTO |-> "QUIT"]

(* The call returns, with these sockets left open. *)
Return(value, open) ==
    /\ result' = value
    /\ sockets' = open
    /\ at' = "end"
    /\ UNCHANGED <<sent, blocks, cut, hungup>>

(* connect_to_server *)
Connect ==
    /\ at = "connect"
    /\ sockets' = {"ctrl"}
    /\ at' = "welcome"
    /\ sent' = TRUE
    /\ request' = <<"welcome">>
    /\ UNCHANGED <<stray, blocks, cut, hungup, result, readVars, serverVars>>

(* No host, no address or no connection: the socket is not closed, except   *)
(* where getsockname fails; where socket fails there is none.               *)
ConnectFails ==
    /\ at = "connect"
    /\ \E open \in {{}, {"ctrl"}} : Return("error", open)
    /\ UNCHANGED <<stray, request, readVars, serverVars>>

(* send_cmd; opendatasock opens its socket before it sends EPRT. *)
SendCommand ==
    /\ at \in Command /\ ~sent
    /\ sent' = TRUE
    /\ request' = Append(request, at)
    /\ sockets' = IF at = "EPRT" THEN sockets \cup {"data"} ELSE sockets
    /\ UNCHANGED <<at, stray, blocks, cut, hungup, result, readVars, serverVars>>

(* opendatasock fails before it sends EPRT: it closes its socket, except     *)
(* where the receive timeout cannot be set; where socket fails there is none.*)
DataSocketFails ==
    /\ at = "EPRT" /\ ~sent
    /\ \E open \in {{}, {"data"}} : Return("error", open)
    /\ UNCHANGED <<stray, request, readVars, serverVars>>

(* Is the reply over with this line, and can it go on after it?  A line       *)
(* within a reply ends it when it has the code of the first line and no '-'   *)
(* after it: text may have that by chance.  strtoul makes 0 of a garbled      *)
(* first line, and 000 is a refusal.                                          *)
SameDigit(line) ==
    line.digit = IF reading.digit = Garbled THEN Refusal ELSE reading.digit

MayEnd(line) == IF reading = NoLine THEN ~line.more ELSE SameDigit(line) /\ ~line.more

MayGoOn(line) ==
    IF reading = NoLine THEN line.more
    ELSE line.to # reading.to \/ line.to = "rest" \/ ~SameDigit(line)

NextLine ==
    /\ at \in Reply /\ sent
    /\ wire # <<>>
    /\ wire' = Tail(wire)
    /\ UNCHANGED <<request, serverVars>>

(* get_reply takes a line and goes on to the next. *)
ReadOn ==
    /\ NextLine
    /\ MayGoOn(Head(wire))
    /\ IF reading = NoLine
          THEN /\ reading' = Head(wire)
               /\ answered' = [answered EXCEPT !.misread = @ \/ Head(wire).to # at]
          ELSE UNCHANGED <<reading, answered>>
    /\ UNCHANGED clientVars

(* get_reply takes the last line of a reply. *)
TakeReply ==
    /\ NextLine
    /\ MayEnd(Head(wire))
    /\ reading' = NoLine
    /\ answered' = [want |-> at, digit |-> Head(wire).digit,
                    misread |-> answered.misread \/ Head(wire).to # at]

ReplyWanted ==
    /\ TakeReply
    /\ Head(wire).digit = Wanted[at]
    /\ IF at = "QUIT"
          THEN Return("ok", {})
          ELSE /\ at' = After[at]
               /\ sent' = FALSE
               /\ UNCHANGED <<sockets, blocks, cut, hungup, result>>
    /\ UNCHANGED stray

(* EPRT was refused, with a digit: the older PORT is tried. *)
EprtRefused ==
    /\ at = "EPRT"
    /\ TakeReply
    /\ Head(wire).digit \notin {Wanted[at], Garbled}
    /\ at' = "PORT"
    /\ sent' = FALSE
    /\ UNCHANGED <<sockets, stray, blocks, cut, hungup, result>>

(* Mutant: a refused CWD is taken for a broken connection as well. *)
ReplyRefusedClosingData ==
    /\ TakeReply
    /\ Head(wire).digit # Wanted[at]
    /\ at = "EPRT" => Head(wire).digit = Garbled
    /\ Return("error", IF at \in {"RNFR", "RNTO"} /\ Head(wire).digit # Garbled
                         THEN {"data"} ELSE {})
    /\ stray' = (at = "CWD")

(* Any other reply that was not wanted ends the call.  With a digit, RNFR    *)
(* and RNTO leave data_s open.  Without one, the call takes it for a broken *)
(* connection: at CWD it closes data_s, which has not been assigned yet.    *)
ReplyRefused ==
    /\ TakeReply
    /\ Head(wire).digit # Wanted[at]
    /\ at = "EPRT" => Head(wire).digit = Garbled
    /\ Return("error", IF at \in {"RNFR", "RNTO"} /\ Head(wire).digit # Garbled
                         THEN {"data"} ELSE {})
    /\ stray' = (at = "CWD" /\ Head(wire).digit = Garbled)

(* Mutant: read waits for a reply for ever. *)
CommandLostInWriteOnly ==
    /\ at \in Reply
    /\ ~sent
    /\ Return("error", {})
    /\ stray' = (at = "CWD")
    /\ UNCHANGED <<request, readVars, serverVars>>

(* The command is too long, write fails, or read finds nothing in any of its *)
(* 5001 tries, each of which waits up to ten seconds.  Every caller closes   *)
(* both sockets; at CWD data_s has not been assigned yet.                    *)
CommandLost ==
    /\ at \in Reply
    /\ sent => wire = <<>>
    /\ Return("error", {})
    /\ stray' = (at = "CWD")
    /\ UNCHANGED <<request, readVars, serverVars>>

(* send_file: the server connects within the ten seconds accept waits. *)
Accept ==
    /\ at = "data"
    /\ receiving
    /\ at' = "write"
    /\ UNCHANGED <<sent, sockets, stray, blocks, cut, hungup, result, request,
                   readVars, serverVars>>

(* A block is written.  The socket has no send timeout: write waits until    *)
(* the server takes the block or the connection breaks.  A write that a      *)
(* signal interrupts returns less than it was given, which is not noticed.   *)
WriteBlock ==
    /\ at = "write"
    /\ blocks < Blocks
    /\ blocks' = blocks + 1
    /\ cut' \in BOOLEAN /\ (cut => cut')
    /\ UNCHANGED <<at, sent, sockets, stray, hungup, result, request, readVars,
                   serverVars>>

(* Mutant: the last block is not waited for. *)
EndOfDataEarly ==
    /\ at = "write"
    /\ blocks + 1 >= Blocks
    /\ hungup' = TRUE
    /\ at' = "complete"
    /\ sent' = TRUE
    /\ UNCHANGED <<sockets, stray, blocks, cut, result, request, readVars, serverVars>>

(* The end of the file: close(s), then get_reply. *)
EndOfData ==
    /\ at = "write"
    /\ blocks = Blocks
    /\ hungup' = TRUE
    /\ at' = "complete"
    /\ sent' = TRUE
    /\ UNCHANGED <<sockets, stray, blocks, cut, result, request, readVars, serverVars>>

(* accept or write fails; the server sees the data end. *)
SendFileFails ==
    /\ result' = "error"
    /\ sockets' = {}
    /\ at' = "end"
    /\ hungup' = TRUE
    /\ UNCHANGED <<sent, stray, blocks, cut, request, readVars, serverVars>>

AcceptFails == at = "data" /\ SendFileFails
WriteFails == at = "write" /\ blocks < Blocks /\ SendFileFails

-----------------------------------------------------------------------------
(* The server *)

(* A line reaches the client in the pieces get_line makes of it: the rest of *)
(* a long line stays on the wire and looks like a line of its own.           *)
Text == [to : {"rest"}, digit : Digit, more : BOOLEAN]

Pieces(line) ==
    {<<line>>} \cup (IF line.to \in LongReplies THEN {<<line, rest>> : rest \in Text}
                                               ELSE {})

(* A reply is sent: as a whole, or the first of its lines. *)
Answer(to, digit) ==
    \E more \in BOOLEAN :
        LET line == [to |-> to, digit |-> digit, more |-> more] IN
          /\ more => to \in MultiReplies
          /\ \E pieces \in Pieces(line) : wire' = wire \o pieces
          /\ replying' = IF more THEN line ELSE NoLine

(* Bound: the server sends another line of text when the client has taken    *)
(* the one before, as often as it likes.                                     *)
ServerGoesOn ==
    /\ replying # NoLine
    /\ wire = <<>>
    /\ \E text \in Text : wire' = <<text>>
    /\ UNCHANGED <<clientVars, reading, request, serverVars, answered>>

(* The last line of a reply, which has the code of the first. *)
ServerEnds ==
    /\ replying # NoLine
    /\ wire' = Append(wire, [replying EXCEPT !.more = FALSE])
    /\ replying' = NoLine
    /\ UNCHANGED <<clientVars, reading, request, receiving, tmp, final, answered>>

Done(cmd) ==
    /\ receiving' = (receiving \/ cmd = "STOR")
    /\ final' = IF cmd = "RNTO" THEN tmp ELSE final
    /\ tmp' = IF cmd = "RNTO" THEN "absent" ELSE tmp

(* The command is carried out, and the reply is sent or lost. *)
ServerAccepts ==
    /\ replying = NoLine
    /\ request # <<>>
    /\ LET cmd == Head(request) IN
         /\ cmd \in {"RNFR", "RNTO"} => tmp # "absent"
         /\ Done(cmd)
         /\ Answer(cmd, Wanted[cmd]) \/ UNCHANGED <<wire, replying>>
    /\ request' = Tail(request)
    /\ UNCHANGED <<clientVars, reading, answered>>

ServerRefuses ==
    /\ replying = NoLine
    /\ request # <<>>
    /\ \E digit \in {Refusal, Garbled} : Answer(Head(request), digit)
    /\ request' = Tail(request)
    /\ UNCHANGED <<clientVars, reading, receiving, tmp, final, answered>>

(* The data connection was closed: whatever came is the file. *)
ServerStores ==
    /\ replying = NoLine
    /\ receiving /\ hungup
    /\ receiving' = FALSE
    /\ tmp' = IF cut \/ blocks < Blocks THEN "truncated" ELSE "whole"
    /\ \E digit \in {Wanted["complete"], Refusal, Garbled} : Answer("complete", digit)
    /\ UNCHANGED <<clientVars, reading, request, final, answered>>

-----------------------------------------------------------------------------
Init ==
    /\ at = "connect" /\ sent = FALSE /\ sockets = {} /\ stray = FALSE
    /\ blocks = 0 /\ cut = FALSE /\ hungup = FALSE /\ result = "none"
    /\ request = <<>> /\ wire = <<>> /\ reading = NoLine /\ replying = NoLine
    /\ receiving = FALSE /\ tmp = "absent" /\ final = "absent"
    /\ answered = [want |-> "none", digit |-> Garbled, misread |-> FALSE]

(* What the client does by itself: it waits for nothing without a timeout. *)
Client ==
    \/ Connect
    \/ ConnectFails
    \/ SendCommand
    \/ DataSocketFails
    \/ ReadOn
    \/ ReplyWanted
    \/ EprtRefused
    \/ ReplyRefused
    \/ CommandLost
    \/ Accept
    \/ AcceptFails
    \/ EndOfData

(* What needs the other end of the data connection. *)
Write == WriteBlock \/ WriteFails

Server == ServerAccepts \/ ServerRefuses \/ ServerGoesOn \/ ServerEnds \/ ServerStores

Next == Client \/ Write \/ Server

Spec == Init /\ [][Next]_vars /\ WF_vars(Client)

-----------------------------------------------------------------------------
TypeOK ==
    /\ at \in Reply \cup {"connect", "data", "write", "end"}
    /\ sent \in BOOLEAN /\ stray \in BOOLEAN /\ cut \in BOOLEAN /\ hungup \in BOOLEAN
    /\ sockets \subseteq {"ctrl", "data"}
    /\ blocks \in 0..Blocks
    /\ result \in {"none", "ok", "error"}
    /\ request \in Seq(Reply)
    /\ wire \in Seq(Line)
    /\ reading \in Line \cup {NoLine}
    /\ replying \in Line \cup {NoLine}
    /\ receiving \in BOOLEAN
    /\ {tmp, final} \subseteq {"absent", "truncated", "whole"}

(* A file appears under its name only when all of it was written, whatever  *)
(* is refused, lost or, after a long reply, misread: only a write cut short *)
(* by a signal gets through.                                                *)
FinalIsWhole == final = "truncated" => cut

(* The types of the call and the server, and that the final file is whole.  *)
UploadInv == TypeOK /\ FinalIsWhole

(* Where a socket may stay open or a foreign one be closed: the connection   *)
(* failed; the server refused a rename with a digit; the receive timeout of *)
(* the data socket could not be set; at CWD the connection broke or the     *)
(* reply was garbled.  Nothing else leaks a socket or closes a stray one.   *)
BeforeData == IF HasDirectory THEN "CWD" ELSE "TYPE"

SocketsAccounted ==
    /\ result # "none" /\ "data" \in sockets =>
          \/ answered.want \in {"RNFR", "RNTO"} /\ answered.digit # Garbled
          \/ answered.want = BeforeData /\ answered.digit = Wanted[BeforeData]
    /\ result # "none" /\ "ctrl" \in sockets => answered.want = "none"
    /\ stray => /\ HasDirectory
                /\ \/ answered.want = "TYPE"
                   \/ answered.want = "CWD" /\ answered.digit = Garbled

(* The call returns, unless it waits for ever in a write the server does not *)
(* take, or the server never ends a reply: get_line gives up a silent server,*)
(* but nothing bounds the lines of a reply or the wait of write.             *)
WriteBlocked == at = "write" /\ blocks < Blocks
CallReturns ==
    <>(result # "none") \/ <>[]WriteBlocked \/ []<><<ServerGoesOn>>_vars

(* The call implements AtomicUpload: GestFtp may remove SAMPLE_FILE when it  *)
(* returns 0, and knows nothing when it returns an error.  It may also      *)
(* return 0 for nothing once a line was read as the reply to another command:*)
(* the rest of a long line, or what follows a line of text that looked like *)
(* the last of its reply.  That is left out here.                           *)
Told == IF result = "ok" /\ answered.misread THEN "error" ELSE result
Upload == INSTANCE AtomicUpload WITH stored <- final # "absent", result <- Told
ImplementsAtomicUpload == Upload!UploadSpec
=============================================================================
