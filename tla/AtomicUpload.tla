----------------------------- MODULE AtomicUpload -----------------------------
(***************************************************************************)
(* What GestFtp relies on when it calls ftpupload_RiMMS (ftpclient.c): the *)
(* file appears under its name as a whole or not at all, and the call      *)
(* returns 0 only for a file that is there.  An error says nothing: the    *)
(* file may be there, or appear later.                                     *)
(***************************************************************************)
VARIABLES stored,  \* the file is on the server under its name
          result   \* what the call returned

uploadVars == <<stored, result>>

UploadInit == stored = FALSE /\ result = "none"

Store == ~stored /\ stored' = TRUE /\ UNCHANGED result

ReturnOk == result = "none" /\ stored /\ result' = "ok" /\ UNCHANGED stored

ReturnError == result = "none" /\ result' = "error" /\ UNCHANGED stored

UploadNext == Store \/ ReturnOk \/ ReturnError

UploadSpec == UploadInit /\ [][UploadNext]_uploadVars
=============================================================================
