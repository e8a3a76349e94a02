----------------------------- MODULE SampleStore -----------------------------
(***************************************************************************)
(* The sample log of RiMMS (rimms.c, with the thread bodies of main.c).    *)
(*                                                                         *)
(* thread_RiMMS appends the radio records with WriteToFile, which looks at *)
(* FtpUploading to choose between the file on the disk, SAMPLE_FILE, and   *)
(* the file on the RAM disk, SAMPLE_RAM.  thread_comunication runs GestFtp *)
(* which snapshots SAMPLE_FILE, uploads the snapshot, removes SAMPLE_FILE  *)
(* and appends SAMPLE_RAM to it.  No lock protects any of this: a step of  *)
(* this module is one file operation or one access to FtpUploading.        *)
(*                                                                         *)
(* A file is the set of the records it holds: LoadFile refuses a missing   *)
(* and an empty file alike, so an absent file is {}.  A record is one call *)
(* of WriteToFile; the tags GestFtp writes itself are the entries Tag.     *)
(***************************************************************************)

CONSTANTS
    Record,  \* the records thread_RiMMS writes, each once
    Faults   \* the faults the environment and the server may inject

FaultKinds == {"open", "create", "load", "upload", "quit", "kill", "power"}

ASSUME FaultsAssumption == Faults \subseteq FaultKinds

(* STORAGE_CLEARED stands for the pair with DOWNLOAD_COMPLETED after it. *)
Tag == {"POWER_OFF", "STARTED", "FAILED", "CLEARED"}

ASSUME TagAssumption == Record \cap Tag = {}

Entry == Record \cup Tag

VARIABLES
    flag,    \* FtpUploading
    sample,  \* SAMPLE_FILE, on the disk
    ram,     \* SAMPLE_RAM, on the RAM disk
    data,    \* DATA_FILE, the file CreateFileToUpload writes
    buffer,  \* the copy of DATA_FILE that ftpupload_RiMMS sends
    pc,      \* where thread_comunication is
    wpc,     \* where thread_RiMMS is in WriteToFile
    wrec,    \* the record being written, as a set
    path,    \* the file name WriteToFile chose, then the file it opened
    begun,   \* the records whose write has begun
    \* what is observed, and influences nothing:
    stored,  \* the records whose WriteToFile returned 0
    overlap, \* FtpUploading changed since the current WriteToFile read it
    raced,   \* the stored records whose write overlapped such a change
    spilled, \* the stored records wiped off the RAM disk by a loss of power
    server,  \* the records the FTP server has stored
    again,   \* the records the FTP server has stored more than once
    doubtful \* the records a fault left both kept and delivered, or kept twice

commVars   == <<data, buffer, pc>>
writerVars == <<wpc, wrec, path, begun, stored, raced>>
serverVars == <<server, again>>
vars == <<flag, sample, ram, commVars, writerVars, overlap, spilled,
          serverVars, doubtful>>

-----------------------------------------------------------------------------
(* thread_RiMMS: WriteToFile *)

(* strcpy of the path, chosen by FtpUploading. *)
ChoosePath(r) ==
    /\ wpc = "idle"
    /\ r \in Record \ begun
    /\ begun' = begun \cup {r}
    /\ wrec' = {r}
    /\ path' = IF flag THEN "ram" ELSE "sample"
    /\ overlap' = FALSE
    /\ wpc' = "open"
    /\ UNCHANGED <<flag, sample, ram, commVars, stored, raced, spilled,
                   serverVars, doubtful>>

OpenFile ==
    /\ wpc = "open"
    /\ wpc' = "write"
    /\ UNCHANGED <<flag, sample, ram, commVars, wrec, path, begun, stored,
                   raced, overlap, spilled, serverVars, doubtful>>

(* Mutant: the failing fopen leaves the chosen path behind. *)
OpenFileFailsKeepingPath ==
    /\ "open" \in Faults
    /\ wpc = "open"
    /\ wpc' = "idle"
    /\ wrec' = {}
    /\ UNCHANGED <<flag, sample, ram, commVars, path, begun, stored, raced,
                   overlap, spilled, serverVars, doubtful>>

(* fopen fails: WriteToFile returns -1, which no caller looks at. *)
OpenFileFails ==
    /\ "open" \in Faults
    /\ wpc = "open"
    /\ wpc' = "idle"
    /\ wrec' = {}
    /\ path' = "none"
    /\ UNCHANGED <<flag, sample, ram, commVars, begun, stored, raced, overlap,
                   spilled, serverVars, doubtful>>

(* fclose flushes the record into the open file, wherever that is now: a    *)
(* file removed since fopen is an inode without a name, "orphan".           *)
WriteAndClose ==
    /\ wpc = "write"
    /\ sample' = IF path = "sample" THEN sample \cup wrec ELSE sample
    /\ ram' = IF path = "ram" THEN ram \cup wrec ELSE ram
    /\ stored' = stored \cup wrec
    /\ raced' = IF overlap THEN raced \cup wrec ELSE raced
    /\ wpc' = "idle"
    /\ wrec' = {}
    /\ path' = "none"
    /\ UNCHANGED <<flag, commVars, begun, overlap, spilled, serverVars,
                   doubtful>>

-----------------------------------------------------------------------------
(* thread_comunication: the tags of its start, then GestFtp *)

(* An assignment to FtpUploading; overlap notices a write it falls into. *)
SetFlag(v) ==
    /\ flag' = v
    /\ overlap' = (overlap \/ (wpc # "idle" /\ v # flag))

(* A file is removed; a writer that holds it open keeps the orphan. *)
RemovedPath(name) == IF wpc = "write" /\ path = name THEN "orphan" ELSE path

(* WriteToFile by thread_comunication itself, which alone assigns           *)
(* FtpUploading: the file is ram while an upload runs.  Nothing comes of it *)
(* when fopen fails.                                                        *)
AppendTag(file, tag) ==
    \/ file' = file \cup {tag}
    \/ "open" \in Faults /\ UNCHANGED file

(* Mutant: no tag is written when the thread starts. *)
StartWithoutTags ==
    /\ pc = "start"
    /\ pc' = "idle"
    /\ UNCHANGED <<flag, sample, ram, data, buffer, writerVars, overlap,
                   spilled, serverVars, doubtful>>

StartTags ==
    /\ pc = "start"
    /\ AppendTag(sample, "POWER_OFF")
    /\ pc' = "idle"
    /\ UNCHANGED <<flag, ram, data, buffer, writerVars, overlap, spilled,
                   serverVars, doubtful>>

(* Mutant: FtpUploading is not set for the upload. *)
BeginUploadUnflagged ==
    /\ pc = "idle"
    /\ AppendTag(ram, "STARTED")
    /\ pc' = "create"
    /\ UNCHANGED <<flag, sample, data, buffer, writerVars, overlap, spilled,
                   serverVars, doubtful>>

(* The upload is due and the modem is online (UploadSchedule, Modem). *)
BeginUpload ==
    /\ pc = "idle"
    /\ SetFlag(TRUE)
    /\ AppendTag(ram, "STARTED")
    /\ pc' = "create"
    /\ UNCHANGED <<sample, data, buffer, writerVars, spilled, serverVars,
                   doubtful>>

(* CreateFileToUpload compresses a snapshot of SAMPLE_FILE into DATA_FILE. *)
CreateFile ==
    /\ pc = "create"
    /\ sample # {}
    /\ data' = sample
    /\ pc' = "load"
    /\ UNCHANGED <<flag, sample, ram, buffer, writerVars, overlap, spilled,
                   serverVars, doubtful>>

(* CreateFileToUpload fails: GestFtp returns and FtpUploading stays set. *)
CreateFileFails ==
    /\ pc = "create"
    /\ sample = {} \/ "create" \in Faults
    /\ data' = {}
    /\ AppendTag(ram, "FAILED")
    /\ pc' = "idle"
    /\ UNCHANGED <<flag, sample, buffer, writerVars, overlap, spilled, serverVars,
                   doubtful>>

LoadData ==
    /\ pc = "load"
    /\ buffer' = data
    /\ pc' = "send"
    /\ UNCHANGED <<flag, sample, ram, data, writerVars, overlap, spilled,
                   serverVars, doubtful>>

(* LoadFile(DATA_FILE) fails: FtpUploading is cleared, and GestFtp returns  *)
(* without appending SAMPLE_RAM to SAMPLE_FILE.                             *)
LoadDataFails ==
    /\ "load" \in Faults
    /\ pc = "load"
    /\ data' = {}
    /\ AppendTag(ram, "FAILED")
    /\ SetFlag(FALSE)
    /\ pc' = "idle"
    /\ UNCHANGED <<sample, buffer, writerVars, spilled, serverVars, doubtful>>

(* The server has stored what is in buffer. *)
Land ==
    /\ server' = server \cup (buffer \cap Record)
    /\ again' = again \cup (server \cap buffer)

SendFile ==
    /\ pc = "send"
    /\ Land
    /\ pc' = "remove"
    /\ UNCHANGED <<flag, sample, ram, data, buffer, writerVars, overlap,
                   spilled, doubtful>>

(* Mutant: SAMPLE_FILE is removed after a failed upload too. *)
SendFileFailsRemovingSample ==
    /\ "upload" \in Faults
    /\ pc = "send"
    /\ sample' = {}
    /\ AppendTag(ram, "FAILED")
    /\ pc' = "clear"
    /\ UNCHANGED <<flag, data, buffer, writerVars, overlap, spilled,
                   serverVars, doubtful>>

(* ftpupload_RiMMS reports an error and the server has stored nothing. *)
SendFileFails ==
    /\ "upload" \in Faults
    /\ pc = "send"
    /\ AppendTag(ram, "FAILED")
    /\ pc' = "clear"
    /\ UNCHANGED <<flag, sample, data, buffer, writerVars, overlap, spilled,
                   serverVars, doubtful>>

(* The file was renamed on the server, but no good reply to RNTO or QUIT    *)
(* reached the client: ftpupload_RiMMS reports an error for a file that is *)
(* there.                                                                  *)
QuitFails ==
    /\ "quit" \in Faults
    /\ pc = "send"
    /\ Land
    /\ doubtful' = doubtful \cup (buffer \cap Record)
    /\ AppendTag(ram, "FAILED")
    /\ pc' = "clear"
    /\ UNCHANGED <<flag, sample, data, buffer, writerVars, overlap, spilled>>

RemoveSample ==
    /\ pc = "remove"
    /\ sample' = {}
    /\ path' = RemovedPath("sample")
    /\ AppendTag(ram, "CLEARED")
    /\ pc' = "clear"
    /\ UNCHANGED <<flag, data, buffer, wpc, wrec, begun, stored, raced,
                   overlap, spilled, serverVars, doubtful>>

(* Mutant: FtpUploading stays set. *)
ClearFlagForgotten ==
    /\ pc = "clear"
    /\ data' = {}
    /\ buffer' = {}
    /\ pc' = "cat"
    /\ UNCHANGED <<flag, sample, ram, writerVars, overlap, spilled, serverVars,
                   doubtful>>

(* free(buffer); RemoveFileToUpload(); FtpUploading=0 *)
ClearFlag ==
    /\ pc = "clear"
    /\ data' = {}
    /\ buffer' = {}
    /\ SetFlag(FALSE)
    /\ pc' = "cat"
    /\ UNCHANGED <<sample, ram, writerVars, spilled, serverVars, doubtful>>

(* Mutant: > instead of >>. *)
AppendRamOverwriting ==
    /\ pc = "cat"
    /\ sample' = ram
    /\ pc' = "rm"
    /\ UNCHANGED <<flag, ram, data, buffer, writerVars, overlap, spilled,
                   serverVars, doubtful>>

(* Mutant: SAMPLE_RAM is not appended at all. *)
AppendRamSkipped ==
    /\ pc = "cat"
    /\ pc' = "rm"
    /\ UNCHANGED <<flag, sample, ram, data, buffer, writerVars, overlap,
                   spilled, serverVars, doubtful>>

(* system("cat ramdisk/sample.dat >> sample.dat") *)
AppendRam ==
    /\ pc = "cat"
    /\ sample' = sample \cup ram
    /\ pc' = "rm"
    /\ UNCHANGED <<flag, ram, data, buffer, writerVars, overlap, spilled,
                   serverVars, doubtful>>

(* Mutant: SAMPLE_RAM is not removed after it was appended. *)
RemoveRamForgotten ==
    /\ pc = "rm"
    /\ pc' = "idle"
    /\ UNCHANGED <<flag, sample, ram, data, buffer, writerVars, overlap,
                   spilled, serverVars, doubtful>>

(* system("rm ramdisk/sample.dat") *)
RemoveRam ==
    /\ pc = "rm"
    /\ ram' = {}
    /\ path' = RemovedPath("ram")
    /\ pc' = "idle"
    /\ UNCHANGED <<flag, sample, data, buffer, wpc, wrec, begun, stored, raced,
                   overlap, spilled, serverVars, doubtful>>

-----------------------------------------------------------------------------
(* The process dies and is started again; InitRiMMS clears FtpUploading and *)
(* nothing looks at what the files still hold.                              *)
Restart ==
    /\ flag' = FALSE
    /\ buffer' = {}
    /\ pc' = "start"
    /\ wpc' = "idle"
    /\ wrec' = {}
    /\ path' = "none"
    /\ overlap' = FALSE
    /\ doubtful' = doubtful
         \cup (IF pc = "remove" THEN buffer \cap Record ELSE {})
         \cup (IF pc = "rm" THEN sample \cap ram \cap Record ELSE {})
    /\ UNCHANGED <<sample, begun, stored, raced, serverVars>>

Kill ==
    /\ "kill" \in Faults
    /\ Restart
    /\ UNCHANGED <<ram, data, spilled>>

(* A reboot or a power cut empties the RAM disk as well, where DATA_FILE is. *)
PowerLoss ==
    /\ "power" \in Faults
    /\ Restart
    /\ ram' = {} /\ data' = {}
    /\ spilled' = spilled \cup (ram \cap stored)

-----------------------------------------------------------------------------
Init ==
    /\ flag = FALSE
    /\ sample = {} /\ ram = {} /\ data = {} /\ buffer = {}
    /\ pc = "start"
    /\ wpc = "idle" /\ wrec = {} /\ path = "none" /\ begun = {}
    /\ stored = {} /\ overlap = FALSE /\ raced = {} /\ spilled = {}
    /\ server = {} /\ again = {} /\ doubtful = {}

Writer ==
    \/ \E r \in Record : ChoosePath(r)
    \/ OpenFile
    \/ OpenFileFails
    \/ WriteAndClose

GestFtp ==
    \/ BeginUpload
    \/ CreateFile
    \/ CreateFileFails
    \/ LoadData
    \/ LoadDataFails
    \/ SendFile
    \/ SendFileFails
    \/ QuitFails
    \/ RemoveSample
    \/ ClearFlag
    \/ AppendRam
    \/ RemoveRam

Comunication == StartTags \/ GestFtp

Next == Writer \/ Comunication \/ Kill \/ PowerLoss

Spec == Init /\ [][Next]_vars

(* Both threads keep running; the upload is tried again for ever, and the   *)
(* steps that can fail do not fail for ever.                                *)
Fairness ==
    /\ WF_vars(Writer)
    /\ WF_vars(Comunication)
    /\ SF_vars(CreateFile)
    /\ SF_vars(LoadData)
    /\ SF_vars(SendFile)

FairSpec == Spec /\ Fairness

-----------------------------------------------------------------------------
TypeOK ==
    /\ flag \in BOOLEAN /\ overlap \in BOOLEAN
    /\ sample \subseteq Entry /\ ram \subseteq Entry
    /\ data \subseteq Entry /\ buffer \subseteq Entry
    /\ pc \in {"start", "idle", "create", "load", "send", "remove", "clear",
               "cat", "rm"}
    /\ wpc \in {"idle", "open", "write"}
    /\ wrec \subseteq begun /\ begun \subseteq Record
    /\ path \in {"none", "sample", "ram", "orphan"}
    /\ path = "none" <=> wpc = "idle"
    /\ stored \subseteq begun /\ raced \subseteq stored
    /\ spilled \subseteq stored
    /\ server \subseteq Record /\ again \subseteq server
    /\ doubtful \subseteq Record

(* The records whose write did not overlap a change of FtpUploading. *)
Quiet == stored \ raced

(* What WriteToFile accepted quietly is on the disk, on the RAM disk or at  *)
(* the server, whatever fails, unless a loss of power found it on the RAM   *)
(* disk: the interleavings of WriteToFile with GestFtp, the early returns   *)
(* of GestFtp and restarts lose nothing else.                               *)
QuietRecordsSurvive == Quiet \ spilled \subseteq sample \cup ram \cup server

(* The server stores a record again only if a fault explains it: the QUIT   *)
(* after a complete upload failed, or the process died between the upload  *)
(* and RemoveFileSample, or between cat and rm.                             *)
DeliveredOnce == again \subseteq doubtful

(* CreateFileToUpload finds something to upload: between two uploads        *)
(* SAMPLE_FILE never stays missing, which would leave FtpUploading set and  *)
(* SAMPLE_FILE unwritten for ever.                                          *)
SampleToUpload == pc = "create" => sample # {}

(* A step that forgets the last copy of a record forgets only raced or      *)
(* spilled ones, and is GestFtp removing a file or a loss of power: a       *)
(* failed upload loses nothing at all, not even a raced record.             *)
Kept == stored \cap (sample \cup ram \cup server)
FailedUploadsLoseNothing ==
    [][ pc' \notin {"start"} /\ pc # "remove" /\ pc # "rm"
        => Kept \subseteq Kept' ]_vars

(* Once FtpUploading is set it is cleared again, when creating the file can *)
(* succeed: records do not pile up on the RAM disk for ever.                *)
UploadEnds == flag ~> ~flag

(* Every record accepted quietly reaches the server, if the process stays   *)
(* up and uploads do not fail for ever.                                     *)
QuietRecordsDelivered ==
    \A r \in Record : r \in Quiet ~> r \in server

-----------------------------------------------------------------------------
(* The log that SampleStore implements for the quiet records. *)
Log == INSTANCE RecordLog WITH
           durable   <- (Quiet \cap sample) \ server,
           volatile  <- (Quiet \cap ram) \ (sample \cup server),
           delivered <- Quiet \cap server

ImplementsLog == Log!LogSpec
=============================================================================
