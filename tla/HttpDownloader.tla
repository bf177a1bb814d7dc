---------------------------- MODULE HttpDownloader ----------------------------
(***************************************************************************)
(* transport::HttpDownloader (src/src/transport/http_downloader.cpp): one  *)
(* start_download() at a time, the thread that downloads, and cancel() by  *)
(* anybody.  What on_complete does, and who starts a download, is left to  *)
(* the module that uses the downloader.                                    *)
(***************************************************************************)
EXTENDS Naturals

VARIABLES
    downloading,    \* downloading_
    cancelled,      \* cancelled_
    starter,        \* where the start_download() that got through is
    worker,         \* download_thread_: "none", where it is, or "exited"
    verdict,        \* what curl, and then the thread, makes of the transfer
    file            \* what was written to dest_path

httpVars == <<downloading, cancelled, starter, worker, verdict, file>>

Starters == {"none", "join", "reset", "spawn"}
Busy     == {"open", "transfer", "judge", "report"}
Workers  == {"none", "exited"} \cup Busy
Verdicts == {"none", "ok", "failed"}
Written  == {"full", "cut"}     \* all of it, or all but the tail of the buffer
Files    == {"none", "partial"} \cup Written

HttpInit ==
    /\ downloading = FALSE /\ cancelled = FALSE /\ starter = "none"
    /\ worker = "none" /\ verdict = "none" /\ file = "none"

-----------------------------------------------------------------------------
(* start_download() *)

(* An empty URL, or a download in progress. *)
StartRefused == UNCHANGED httpVars

StartEnter ==
    /\ starter = "none" /\ ~downloading
    /\ downloading' = TRUE /\ starter' = "join"
    /\ UNCHANGED <<cancelled, worker, verdict, file>>

StartJoinMutant ==
    /\ starter = "join" /\ starter' = "reset"
    /\ UNCHANGED <<downloading, cancelled, worker, verdict, file>>

(* cleanup_thread() *)
StartJoin ==
    /\ starter = "join" /\ worker \in {"none", "exited"}
    /\ worker' = "none" /\ starter' = "reset"
    /\ UNCHANGED <<downloading, cancelled, verdict, file>>

StartReset ==
    /\ starter = "reset" /\ starter' = "spawn" /\ cancelled' = FALSE
    /\ UNCHANGED <<downloading, worker, verdict, file>>

(* The thread is created, and start_download() returns Ok. *)
StartSpawn ==
    /\ starter = "spawn" /\ starter' = "none"
    /\ worker' = "open" /\ verdict' = "none"
    /\ UNCHANGED <<downloading, cancelled, file>>

Cancel ==
    /\ cancelled' = TRUE
    /\ UNCHANGED <<downloading, starter, worker, verdict, file>>

-----------------------------------------------------------------------------
(* The download thread. *)

OpenFailsMutant ==
    /\ worker = "open" /\ worker' = "report" /\ verdict' = "failed"
    /\ file' \in {file, "none"}
    /\ UNCHANGED <<downloading, cancelled, starter>>

(* The file cannot be opened, or curl cannot be initialized, in which case *)
(* the file, already truncated, is removed.                                *)
OpenFails ==
    /\ worker = "open" /\ worker' = "report" /\ verdict' = "failed"
    /\ file' \in {file, "none"}
    /\ downloading' = FALSE
    /\ UNCHANGED <<cancelled, starter>>

Opens ==
    /\ worker = "open" /\ worker' = "transfer" /\ file' = "partial"
    /\ UNCHANGED <<downloading, cancelled, starter, verdict>>

(* curl_easy_perform() returns: it succeeds with a 2xx or 3xx answer and a *)
(* body, or it fails, is aborted by progress_callback() or write_callback, *)
(* or gets an error page or no body, which is no download.  Nobody looks   *)
(* whether close() could flush what the stream still held.                 *)
Performs ==
    /\ worker = "transfer" /\ worker' = "judge"
    /\ \/ verdict' = "ok" /\ file' \in Written
       \/ verdict' = "failed" /\ UNCHANGED file
    /\ downloading' = FALSE
    /\ UNCHANGED <<cancelled, starter>>

JudgesMutant ==
    /\ worker = "judge" /\ worker' = "report"
    /\ IF cancelled \/ verdict = "failed" THEN file' = "none" ELSE UNCHANGED file
    /\ UNCHANGED <<verdict, downloading, cancelled, starter>>

(* Whatever is not reported as a success leaves no file. *)
Judges ==
    /\ worker = "judge" /\ worker' = "report"
    /\ IF cancelled \/ verdict = "failed"
       THEN verdict' = "failed" /\ file' = "none"
       ELSE UNCHANGED <<verdict, file>>
    /\ UNCHANGED <<downloading, cancelled, starter>>

Download == Opens \/ OpenFails \/ Performs \/ Judges

HttpTypeOK ==
    /\ downloading \in BOOLEAN /\ cancelled \in BOOLEAN
    /\ starter \in Starters /\ worker \in Workers
    /\ verdict \in Verdicts /\ file \in Files
=============================================================================
