--------------------------- MODULE SampleStoreProofs ---------------------------
(***************************************************************************)
(* Proofs about SampleStore, for every set of records and every set of     *)
(* faults.  The inductive invariant has a part for each thing the two      *)
(* threads rely on without a lock.                                         *)
(***************************************************************************)
EXTENDS SampleStore, TLAPS

(* Where GestFtp holds FtpUploading set, and where it holds it clear. *)
Uploading == {"create", "load", "send", "remove", "clear"}
FlagFollowsUpload ==
    /\ pc \in Uploading => flag
    /\ pc \in {"start", "cat", "rm"} => ~flag

(* A write that noticed no change of FtpUploading goes to the file that     *)
(* FtpUploading selects now.                                                *)
QuietWriteFollowsFlag ==
    wpc # "idle" /\ ~overlap => path = IF flag THEN "ram" ELSE "sample"

(* From the snapshot to RemoveFileSample, what is on the way to the server  *)
(* covers the quiet records of SAMPLE_FILE.                                 *)
SnapshotCoversSample ==
    /\ pc = "load" => sample \cap Quiet \subseteq data
    /\ pc = "send" => sample \cap Quiet \subseteq buffer
    /\ pc = "remove" => sample \cap Quiet \subseteq server

(* Between cat and rm, SAMPLE_FILE covers the quiet records of SAMPLE_RAM. *)
SampleCoversRam == pc = "rm" => ram \cap Quiet \subseteq sample

(* The files hold stored records only, never the one being written. *)
FilesHoldStored ==
    /\ (sample \cup ram \cup data \cup buffer \cup server) \cap Record
           \subseteq stored
    /\ wrec \cap stored = {}

Durability ==
    /\ FlagFollowsUpload
    /\ QuietWriteFollowsFlag
    /\ SnapshotCoversSample
    /\ SampleCoversRam
    /\ FilesHoldStored
    /\ QuietRecordsSurvive

(* What is uploaded is still in SAMPLE_FILE until RemoveFileSample. *)
SnapshotInSample ==
    /\ pc = "load" => data \subseteq sample
    /\ pc \in {"send", "remove"} => buffer \subseteq sample

(* The two files share only doubtful records, except between cat and rm. *)
FilesApart ==
    pc # "rm" => sample \cap ram \cap Record \subseteq doubtful

(* A delivered record is kept only if it is doubtful, except between the    *)
(* upload and RemoveFileSample.                                             *)
DeliveredNotKept ==
    /\ pc # "remove" => server \cap (sample \cup ram) \subseteq doubtful
    /\ pc = "remove" => server \cap (sample \cup ram) \subseteq doubtful \cup buffer

NoRepetition ==
    /\ FilesHoldStored
    /\ SnapshotInSample
    /\ FilesApart
    /\ DeliveredNotKept
    /\ DeliveredOnce

-----------------------------------------------------------------------------
(* SampleStore: every variable keeps its type, whatever fails. *)
THEOREM TypeCorrect == Spec => []TypeOK
<1> USE DEF Entry, Tag, AppendTag, SetFlag, RemovedPath, Land, Restart
<1>1. Init => TypeOK
  BY DEF Init, TypeOK
<1>2. TypeOK /\ [Next]_vars => TypeOK'
  <2> SUFFICES ASSUME TypeOK, [Next]_vars
               PROVE  TypeOK'
    OBVIOUS
  <2> USE DEF TypeOK
  <2>1. CASE \E r \in Record : ChoosePath(r)
    BY <2>1 DEF ChoosePath, commVars, serverVars
  <2>2. CASE OpenFile
    BY <2>2 DEF OpenFile, commVars, serverVars
  <2>3. CASE OpenFileFails
    BY <2>3 DEF OpenFileFails, commVars, serverVars
  <2>4. CASE WriteAndClose
    BY <2>4 DEF WriteAndClose, commVars, serverVars
  <2>5. CASE StartTags
    BY <2>5 DEF StartTags, writerVars, serverVars
  <2>6. CASE BeginUpload
    BY <2>6 DEF BeginUpload, writerVars, serverVars
  <2>7. CASE CreateFile
    BY <2>7 DEF CreateFile, writerVars, serverVars
  <2>8. CASE CreateFileFails
    BY <2>8 DEF CreateFileFails, writerVars, serverVars
  <2>9. CASE LoadData
    BY <2>9 DEF LoadData, writerVars, serverVars
  <2>10. CASE LoadDataFails
    BY <2>10 DEF LoadDataFails, writerVars, serverVars
  <2>11. CASE SendFile
    BY <2>11 DEF SendFile, writerVars
  <2>12. CASE SendFileFails
    BY <2>12 DEF SendFileFails, writerVars, serverVars
  <2>13. CASE QuitFails
    BY <2>13 DEF QuitFails, writerVars
  <2>14. CASE RemoveSample
    BY <2>14 DEF RemoveSample, serverVars
  <2>15. CASE ClearFlag
    BY <2>15 DEF ClearFlag, writerVars, serverVars
  <2>16. CASE AppendRam
    BY <2>16 DEF AppendRam, writerVars, serverVars
  <2>17. CASE RemoveRam
    BY <2>17 DEF RemoveRam, serverVars
  <2>18. CASE Kill
    BY <2>18 DEF Kill, serverVars
  <2>19. CASE PowerLoss
    BY <2>19 DEF PowerLoss, serverVars
  <2>20. CASE UNCHANGED vars
    BY <2>20 DEF vars, commVars, writerVars, serverVars
  <2>21. QED
    BY <2>1, <2>2, <2>3, <2>4, <2>5, <2>6, <2>7, <2>8, <2>9, <2>10, <2>11,
       <2>12, <2>13, <2>14, <2>15, <2>16, <2>17, <2>18, <2>19, <2>20
       DEF Next, Writer, Comunication, GestFtp
<1>3. QED
  BY <1>1, <1>2, PTL DEF Spec

(* Durability is inductive, given the types. *)
LEMMA DurabilityInvariant == Spec => []Durability
<1> USE DEF Entry, Tag, AppendTag, SetFlag, RemovedPath, Land, Restart, Quiet,
            Durability, FlagFollowsUpload, Uploading,
            QuietWriteFollowsFlag, SnapshotCoversSample, SampleCoversRam,
            FilesHoldStored, QuietRecordsSurvive
<1>1. Init => Durability
  BY TagAssumption DEF Init
<1>2. TypeOK /\ Durability /\ [Next]_vars => Durability'
  <2> SUFFICES ASSUME TypeOK, Durability, [Next]_vars
               PROVE  Durability'
    OBVIOUS
  <2> USE TagAssumption DEF TypeOK
  <2>1. CASE \E r \in Record : ChoosePath(r)
    BY <2>1 DEF ChoosePath, commVars, serverVars
  <2>2. CASE OpenFile
    BY <2>2 DEF OpenFile, commVars, serverVars
  <2>3. CASE OpenFileFails
    BY <2>3 DEF OpenFileFails, commVars, serverVars
  <2>4. CASE WriteAndClose
    BY <2>4 DEF WriteAndClose, commVars, serverVars
  <2>5. CASE StartTags
    BY <2>5 DEF StartTags, writerVars, serverVars
  <2>6. CASE BeginUpload
    BY <2>6 DEF BeginUpload, writerVars, serverVars
  <2>7. CASE CreateFile
    BY <2>7 DEF CreateFile, writerVars, serverVars
  <2>8. CASE CreateFileFails
    BY <2>8 DEF CreateFileFails, writerVars, serverVars
  <2>9. CASE LoadData
    BY <2>9 DEF LoadData, writerVars, serverVars
  <2>10. CASE LoadDataFails
    BY <2>10 DEF LoadDataFails, writerVars, serverVars
  <2>11. CASE SendFile
    BY <2>11 DEF SendFile, writerVars
  <2>12. CASE SendFileFails
    BY <2>12 DEF SendFileFails, writerVars, serverVars
  <2>13. CASE QuitFails
    BY <2>13 DEF QuitFails, writerVars
  <2>14. CASE RemoveSample
    BY <2>14 DEF RemoveSample, serverVars
  <2>15. CASE ClearFlag
    BY <2>15 DEF ClearFlag, writerVars, serverVars
  <2>16. CASE AppendRam
    BY <2>16 DEF AppendRam, writerVars, serverVars
  <2>17. CASE RemoveRam
    BY <2>17 DEF RemoveRam, serverVars
  <2>18. CASE Kill
    BY <2>18 DEF Kill, serverVars
  <2>19. CASE PowerLoss
    BY <2>19 DEF PowerLoss, serverVars
  <2>20. CASE UNCHANGED vars
    BY <2>20 DEF vars, commVars, writerVars, serverVars
  <2>21. QED
    BY <2>1, <2>2, <2>3, <2>4, <2>5, <2>6, <2>7, <2>8, <2>9, <2>10, <2>11,
       <2>12, <2>13, <2>14, <2>15, <2>16, <2>17, <2>18, <2>19, <2>20
       DEF Next, Writer, Comunication, GestFtp
<1>3. QED
  BY <1>1, <1>2, TypeCorrect, PTL DEF Spec

(* NoRepetition is inductive, given the types. *)
LEMMA NoRepetitionInvariant == Spec => []NoRepetition
<1> USE DEF Entry, Tag, AppendTag, SetFlag, RemovedPath, Land, Restart, Quiet,
            NoRepetition, FilesHoldStored, SnapshotInSample,
            FilesApart, DeliveredNotKept, DeliveredOnce
<1>1. Init => NoRepetition
  BY TagAssumption DEF Init
<1>2. TypeOK /\ NoRepetition /\ [Next]_vars => NoRepetition'
  <2> SUFFICES ASSUME TypeOK, NoRepetition, [Next]_vars
               PROVE  NoRepetition'
    OBVIOUS
  <2> USE TagAssumption DEF TypeOK
  <2>1. CASE \E r \in Record : ChoosePath(r)
    BY <2>1 DEF ChoosePath, commVars, serverVars
  <2>2. CASE OpenFile
    BY <2>2 DEF OpenFile, commVars, serverVars
  <2>3. CASE OpenFileFails
    BY <2>3 DEF OpenFileFails, commVars, serverVars
  <2>4. CASE WriteAndClose
    BY <2>4 DEF WriteAndClose, commVars, serverVars
  <2>5. CASE StartTags
    BY <2>5 DEF StartTags, writerVars, serverVars
  <2>6. CASE BeginUpload
    BY <2>6 DEF BeginUpload, writerVars, serverVars
  <2>7. CASE CreateFile
    BY <2>7 DEF CreateFile, writerVars, serverVars
  <2>8. CASE CreateFileFails
    BY <2>8 DEF CreateFileFails, writerVars, serverVars
  <2>9. CASE LoadData
    BY <2>9 DEF LoadData, writerVars, serverVars
  <2>10. CASE LoadDataFails
    BY <2>10 DEF LoadDataFails, writerVars, serverVars
  <2>11. CASE SendFile
    BY <2>11 DEF SendFile, writerVars
  <2>12. CASE SendFileFails
    BY <2>12 DEF SendFileFails, writerVars, serverVars
  <2>13. CASE QuitFails
    BY <2>13 DEF QuitFails, writerVars
  <2>14. CASE RemoveSample
    BY <2>14 DEF RemoveSample, serverVars
  <2>15. CASE ClearFlag
    BY <2>15 DEF ClearFlag, writerVars, serverVars
  <2>16. CASE AppendRam
    BY <2>16 DEF AppendRam, writerVars, serverVars
  <2>17. CASE RemoveRam
    BY <2>17 DEF RemoveRam, serverVars
  <2>18. CASE Kill
    BY <2>18 DEF Kill, serverVars
  <2>19. CASE PowerLoss
    BY <2>19 DEF PowerLoss, serverVars
  <2>20. CASE UNCHANGED vars
    BY <2>20 DEF vars, commVars, writerVars, serverVars
  <2>21. QED
    BY <2>1, <2>2, <2>3, <2>4, <2>5, <2>6, <2>7, <2>8, <2>9, <2>10, <2>11,
       <2>12, <2>13, <2>14, <2>15, <2>16, <2>17, <2>18, <2>19, <2>20
       DEF Next, Writer, Comunication, GestFtp
<1>3. QED
  BY <1>1, <1>2, TypeCorrect, PTL DEF Spec

(* SampleStore: a record that WriteToFile accepted while FtpUploading did   *)
(* not change is on the disk, on the RAM disk or at the server, unless a    *)
(* loss of power found it on the RAM disk.                                  *)
THEOREM QuietRecordsAreKept == Spec => []QuietRecordsSurvive
  BY DurabilityInvariant, PTL DEF Durability

(* SampleStore: the server stores again only what a fault explains.        *)
THEOREM RecordsAreDeliveredOnce == Spec => []DeliveredOnce
  BY NoRepetitionInvariant, PTL DEF NoRepetition

(* SampleStore: a failing upload, and every other step that is not a removal *)
(* of a file by GestFtp nor a restart, forgets no record whatever, not even  *)
(* one whose write overlapped a change of FtpUploading.                      *)
THEOREM FailedUploadsAreHarmless == Spec => FailedUploadsLoseNothing
<1> DEFINE A == pc' \notin {"start"} /\ pc # "remove" /\ pc # "rm"
                  => Kept \subseteq Kept'
<1>1. TypeOK /\ FilesHoldStored /\ [Next]_vars => [A]_vars
  <2> SUFFICES ASSUME TypeOK, FilesHoldStored, Next
               PROVE  A
    OBVIOUS
  <2>1. CASE Writer
    BY <2>1 DEF TypeOK, Writer, ChoosePath, OpenFile, OpenFileFails,
       WriteAndClose, commVars, serverVars, Kept
  <2>2. CASE Comunication
    BY <2>2 DEF TypeOK, Comunication, StartTags, GestFtp, BeginUpload,
       CreateFile, CreateFileFails, LoadData, LoadDataFails, SendFile,
       SendFileFails, QuitFails, RemoveSample, ClearFlag, AppendRam, RemoveRam,
       AppendTag, Land, writerVars, serverVars, Kept
  <2>3. CASE Kill \/ PowerLoss
    BY <2>3 DEF Kill, PowerLoss, Restart
  <2>4. QED
    BY <2>1, <2>2, <2>3 DEF Next
<1>2. QED
  BY <1>1, TypeCorrect, DurabilityInvariant, PTL
     DEF Spec, Durability, FailedUploadsLoseNothing

-----------------------------------------------------------------------------
(* WriteToFile writes one record at a time. *)
OneRecordAtATime == wpc # "idle" => \E r \in Record : wrec = {r}

LEMMA WritesOneRecord == Spec => []OneRecordAtATime
<1> USE DEF OneRecordAtATime
<1>1. Init => OneRecordAtATime
  BY DEF Init
<1>2. OneRecordAtATime /\ [Next]_vars => OneRecordAtATime'
  BY DEF Next, vars, Writer, ChoosePath, OpenFile, OpenFileFails, WriteAndClose,
     Comunication, StartTags, GestFtp, BeginUpload, CreateFile,
     CreateFileFails, LoadData, LoadDataFails, SendFile, SendFileFails,
     QuitFails, RemoveSample, ClearFlag, AppendRam, RemoveRam, Kill, PowerLoss,
     Restart, writerVars
<1>3. QED
  BY <1>1, <1>2, PTL DEF Spec

(* What the refinement rests on. *)
LogInvariant ==
    /\ TypeOK
    /\ Durability
    /\ SnapshotInSample
    /\ OneRecordAtATime

(* A step of GestFtp or of WriteToFile that is not one of the steps of the  *)
(* log below leaves the three parts of the log as they are.                 *)
LEMMA SilentSteps ==
    ASSUME LogInvariant,
           \/ \E r \in Record : ChoosePath(r)
           \/ OpenFile \/ OpenFileFails \/ StartTags \/ BeginUpload
           \/ CreateFile \/ CreateFileFails \/ LoadData \/ LoadDataFails
           \/ SendFileFails \/ RemoveSample \/ ClearFlag \/ RemoveRam \/ Kill
    PROVE  UNCHANGED Log!logVars
<1> USE TagAssumption DEF LogInvariant, TypeOK, Durability, Quiet, Tag,
        Log!logVars, AppendTag, commVars, writerVars, serverVars
<1>1. CASE (\E r \in Record : ChoosePath(r)) \/ OpenFile \/ OpenFileFails
  BY <1>1 DEF ChoosePath, OpenFile, OpenFileFails
<1>2. CASE StartTags \/ BeginUpload \/ CreateFile \/ CreateFileFails
  BY <1>2 DEF StartTags, BeginUpload, CreateFile, CreateFileFails
<1>3. CASE LoadData \/ LoadDataFails \/ SendFileFails \/ ClearFlag
  BY <1>3 DEF LoadData, LoadDataFails, SendFileFails, ClearFlag
<1>4. CASE RemoveSample
  BY <1>4 DEF RemoveSample, SnapshotCoversSample
<1>5. CASE RemoveRam
  BY <1>5 DEF RemoveRam, SampleCoversRam
<1>6. CASE Kill
  BY <1>6 DEF Kill, Restart
<1>7. QED
  BY <1>1, <1>2, <1>3, <1>4, <1>5, <1>6

(* SampleStore implements RecordLog: the log that the threads and the files *)
(* form for the quiet records moves by steps of RecordLog only.             *)
THEOREM StoreImplementsLog == Spec => ImplementsLog
<1>1. Init => Log!LogInit
  BY DEF Init, Log!LogInit, Quiet
<1>2. LogInvariant /\ [Next]_vars => [Log!LogNext]_Log!logVars
  <2> SUFFICES ASSUME LogInvariant, [Next]_vars
               PROVE  Log!LogNext \/ UNCHANGED Log!logVars
    OBVIOUS
  <2> USE DEF LogInvariant, TypeOK, Quiet
  <2>1. CASE WriteAndClose
    <3>1. PICK r \in Record : wrec = {r}
      BY <2>1 DEF WriteAndClose, OneRecordAtATime
    <3>2. CASE overlap
      BY <2>1, <3>1, <3>2 DEF WriteAndClose, Durability, FilesHoldStored,
         Log!logVars, serverVars
    <3>3. CASE ~overlap
      <4>1. path = "sample" \/ path = "ram"
        BY <2>1, <3>3 DEF WriteAndClose, Durability, QuietWriteFollowsFlag
      <4>2. r \notin stored /\ r \notin sample \cup ram \cup server
        BY <3>1 DEF Durability, FilesHoldStored
      <4>3. /\ stored' \ raced' = (stored \ raced) \cup {r}
            /\ server' = server
        BY <2>1, <3>1, <3>3, <4>2 DEF WriteAndClose, serverVars
      <4>4. Log!Accept(r)
        <5>1. CASE path = "sample"
          BY <2>1, <3>1, <4>2, <4>3, <5>1 DEF WriteAndClose, Log!Accept
        <5>2. CASE path = "ram"
          BY <2>1, <3>1, <4>2, <4>3, <5>2 DEF WriteAndClose, Log!Accept
        <5>3. QED
          BY <4>1, <5>1, <5>2
      <4>5. QED
        BY <4>4 DEF Log!LogNext
    <3>4. QED
      BY <3>2, <3>3
  <2>2. CASE SendFile \/ QuitFails
    <3> DEFINE S == buffer \cap Quiet
    <3>1. buffer \subseteq sample
      BY <2>2 DEF SendFile, QuitFails, SnapshotInSample
    <3>2. /\ server' = server \cup (buffer \cap Record)
          /\ UNCHANGED <<sample, stored, raced>>
          /\ \/ ram' = ram
             \/ ram' = ram \cup {"FAILED"}
      BY <2>2 DEF SendFile, QuitFails, Land, AppendTag, writerVars
    <3>3. "FAILED" \notin Record
      BY TagAssumption DEF Tag
    <3>4. Log!Deliver(S)
      BY <3>1, <3>2, <3>3 DEF Log!Deliver
    <3>5. S \in SUBSET Record
      OBVIOUS
    <3>6. QED
      BY <3>4, <3>5 DEF Log!LogNext
  <2>3. CASE AppendRam
    BY <2>3 DEF AppendRam, Log!Settle, Log!LogNext, writerVars, serverVars
  <2>4. CASE PowerLoss
    BY <2>4 DEF PowerLoss, Restart, Log!LosePower, Log!LogNext, serverVars
  <2>5. CASE UNCHANGED vars
    BY <2>5 DEF vars, writerVars, serverVars, Log!logVars
  <2>6. QED
    BY <2>1, <2>2, <2>3, <2>4, <2>5, SilentSteps
       DEF Next, Writer, Comunication, GestFtp
<1>3. Spec => []LogInvariant
  BY TypeCorrect, DurabilityInvariant, NoRepetitionInvariant, WritesOneRecord,
     PTL DEF LogInvariant, NoRepetition
<1>4. QED
  BY <1>1, <1>2, <1>3, PTL DEF Spec, ImplementsLog, Log!LogSpec

-----------------------------------------------------------------------------
(* SAMPLE_FILE is there except from RemoveFileSample, or the start of the   *)
(* process, until a tag or SAMPLE_RAM is appended to it; SAMPLE_RAM holds   *)
(* STORAGE_DOWNLOAD_STARTED for that from the start of the upload on.       *)
SampleKeptUp ==
    /\ pc \notin {"start", "clear", "cat"} => sample # {}
    /\ pc \in Uploading \cup {"cat"} => ram # {}

(* SampleStore: as long as fopen does not fail, CreateFileToUpload finds    *)
(* something to upload, whatever else fails and wherever the process dies   *)
(* or the power is lost.                                                    *)
THEOREM UploadFindsSample ==
    ASSUME "open" \notin Faults
    PROVE  Spec => []SampleToUpload
<1> USE DEF SampleKeptUp, Uploading
<1>1. Init => SampleKeptUp
  BY DEF Init
<1>2. SampleKeptUp /\ [Next]_vars => SampleKeptUp'
  <2> SUFFICES ASSUME SampleKeptUp, [Next]_vars
               PROVE  SampleKeptUp'
    OBVIOUS
  <2>1. CASE Writer
    BY <2>1 DEF Writer, ChoosePath, OpenFile, OpenFileFails, WriteAndClose,
       commVars
  <2>2. CASE StartTags \/ BeginUpload \/ CreateFile \/ CreateFileFails
    BY <2>2 DEF StartTags, BeginUpload, CreateFile, CreateFileFails, AppendTag
  <2>3. CASE LoadData \/ LoadDataFails \/ SendFile \/ SendFileFails \/ QuitFails
    BY <2>3 DEF LoadData, LoadDataFails, SendFile, SendFileFails, QuitFails,
       AppendTag
  <2>4. CASE RemoveSample \/ ClearFlag \/ AppendRam \/ RemoveRam
    BY <2>4 DEF RemoveSample, ClearFlag, AppendRam, RemoveRam, AppendTag
  <2>5. CASE Kill \/ PowerLoss
    BY <2>5 DEF Kill, PowerLoss, Restart
  <2>6. CASE UNCHANGED vars
    BY <2>6 DEF vars, commVars
  <2>7. QED
    BY <2>1, <2>2, <2>3, <2>4, <2>5, <2>6 DEF Next, Comunication, GestFtp
<1>3. SampleKeptUp => SampleToUpload
  BY DEF SampleToUpload
<1>4. QED
  BY <1>1, <1>2, <1>3, PTL DEF Spec

=============================================================================
