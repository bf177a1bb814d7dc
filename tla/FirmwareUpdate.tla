---------------------------- MODULE FirmwareUpdate ----------------------------
(***************************************************************************)
(* objects::FirmwareUpdateObject (src/src/objects/firmware_update.cpp),    *)
(* with an HttpDownloader behind its start_download callback and           *)
(* download_complete() behind the downloader's on_complete.                *)
(*                                                                         *)
(* Three threads meet here: the CoAP thread, which handles the server's    *)
(* writes and executes one after the other, the download thread, and the   *)
(* application's, which cancels downloads and reports the end of an        *)
(* update.  state_ and update_result_ are two atomics: every access to     *)
(* either is a step of its own where another thread can see it.            *)
(***************************************************************************)
EXTENDS HttpDownloader

VARIABLES
    state,      \* state_
    result,     \* update_result_
    package,    \* package_data_: is there a verified package?
    source,     \* history: how the current package came
    coap,       \* where the CoAP thread is
    done,       \* how far the download thread is in download_complete()
    app         \* how far the application is in update_complete()

fwVars == <<state, result, package, source, coap, done, app>>
vars   == <<httpVars, fwVars>>

FirmwareState == {"Idle", "Downloading", "Downloaded", "Updating"}
FirmwareUpdateResult ==
    {"Initial", "Success", "ConnectionLostDuringDownload",
     "IntegrityCheckFailure", "InvalidUri", "UpdateFailed"}

Init ==
    /\ HttpInit
    /\ state = "Idle" /\ result = "Initial" /\ package = FALSE
    /\ source = "none" /\ coap = "idle" /\ done = "no"
    /\ app = "idle"

-----------------------------------------------------------------------------
(* The CoAP thread. *)

(* write_resource(1), in the Idle state only: start_download() is called,  *)
(* or refuses at once.                                                     *)
WriteUri ==
    /\ coap = "idle" /\ state = "Idle"
    /\ \/ StartEnter /\ result' = "Initial" /\ coap' = "starting"
       \/ StartRefused /\ result' = "InvalidUri" /\ UNCHANGED coap
    /\ UNCHANGED <<state, package, source, done, app>>

Starting ==
    /\ coap = "starting"
    /\ \/ (StartJoin \/ StartReset) /\ UNCHANGED coap
       \/ StartSpawn /\ coap' = "started"
    /\ UNCHANGED <<state, result, package, source, done, app>>

(* Only now, with the thread running, does the object say so. *)
SetDownloading ==
    /\ coap = "started" /\ coap' = "idle" /\ state' = "Downloading"
    /\ UNCHANGED <<httpVars, result, package, source, done, app>>

WritePackageMutant(valid) ==
    /\ coap = "idle"
    /\ package' = valid
    /\ IF valid THEN state' = "Downloaded" /\ result' = "Initial" /\ source' = "push"
       ELSE result' = "IntegrityCheckFailure" /\ UNCHANGED <<state, source>>
    /\ UNCHANGED <<httpVars, coap, done, app>>

(* write_resource(0) and push_package(). *)
WritePackage(valid) ==
    /\ coap = "idle" /\ state \in {"Idle", "Downloaded"}
    /\ package' = valid
    /\ IF valid THEN state' = "Downloaded" /\ result' = "Initial" /\ source' = "push"
       ELSE result' = "IntegrityCheckFailure" /\ UNCHANGED <<state, source>>
    /\ UNCHANGED <<httpVars, coap, done, app>>

(* execute_resource(2): apply_update() runs on the CoAP thread. *)
ExecuteUpdate ==
    /\ coap = "idle" /\ state = "Downloaded"
    /\ state' = "Updating" /\ coap' = "applying"
    /\ UNCHANGED <<httpVars, result, package, source, done, app>>

ApplyReturns(ok) ==
    /\ coap = "applying" /\ coap' = "idle"
    /\ IF ok THEN UNCHANGED <<state, result>>
       ELSE state' = "Idle" /\ result' = "UpdateFailed"
    /\ UNCHANGED <<httpVars, package, source, done, app>>

-----------------------------------------------------------------------------
(* download_complete(), on the download thread: a look at the state, then  *)
(* one or two stores, then the thread ends.                                *)

Checks ==
    /\ worker = "report" /\ done = "no"
    /\ IF state = "Downloading"
       THEN done' = "checked" /\ UNCHANGED worker
       ELSE worker' = "exited" /\ UNCHANGED done
    /\ UNCHANGED <<downloading, cancelled, starter, verdict, file,
                   state, result, package, source, coap, app>>

Stores ==
    /\ worker = "report" /\ done = "checked"
    /\ IF verdict = "ok"
       THEN /\ state' = "Downloaded" /\ source' = "pull"
            /\ done' = "no" /\ worker' = "exited"
       ELSE state' = "Idle" /\ done' = "stored" /\ UNCHANGED <<source, worker>>
    /\ UNCHANGED <<downloading, cancelled, starter, verdict, file,
                   result, package, coap, app>>

StoresResult ==
    /\ worker = "report" /\ done = "stored"
    /\ result' = "ConnectionLostDuringDownload"
    /\ done' = "no" /\ worker' = "exited"
    /\ UNCHANGED <<downloading, cancelled, starter, verdict, file,
                   state, package, source, coap, app>>

-----------------------------------------------------------------------------
(* The application. *)

(* update_complete(), once the update it was asked for has ended: two      *)
(* stores and the clearing of the package.                                 *)
UpdateComplete ==
    /\ app = "idle" /\ state = "Updating"
    /\ state' = "Idle" /\ app' = "result"
    /\ UNCHANGED <<httpVars, result, package, source, coap, done>>

UpdateResult(r) ==
    /\ app = "result" /\ result' = r /\ app' = "clear"
    /\ UNCHANGED <<httpVars, state, package, source, coap, done>>

ClearPackage ==
    /\ app = "clear" /\ package' = FALSE /\ app' = "idle"
    /\ UNCHANGED <<httpVars, state, result, source, coap, done>>

AppCancel == Cancel /\ UNCHANGED fwVars

-----------------------------------------------------------------------------
Worker == (Download /\ UNCHANGED fwVars) \/ Checks \/ Stores \/ StoresResult

Coap == Starting \/ SetDownloading \/ \E ok \in BOOLEAN : ApplyReturns(ok)

Requests == WriteUri \/ ExecuteUpdate \/ \E v \in BOOLEAN : WritePackage(v)

Application ==
    \/ AppCancel \/ UpdateComplete \/ ClearPackage
    \/ \E r \in {"Success", "UpdateFailed"} : UpdateResult(r)

Next == Worker \/ Coap \/ Requests \/ Application

Spec == Init /\ [][Next]_vars

(* curl's timeouts end every transfer, and a handler that can go on does;  *)
(* nothing is assumed of the server or the application.                    *)
FairSpec == Spec /\ WF_vars(Worker) /\ WF_vars(Coap)

-----------------------------------------------------------------------------
(* The fields keep their types. *)
TypeOK ==
    /\ HttpTypeOK
    /\ state \in FirmwareState /\ result \in FirmwareUpdateResult
    /\ package \in BOOLEAN /\ source \in {"none", "push", "pull"}
    /\ coap \in {"idle", "starting", "started", "applying"}
    /\ done \in {"no", "checked", "stored"} /\ app \in {"idle", "result", "clear"}

(* A package that counts as Downloaded from its URI is on disk as the      *)
(* transfer that was reported left it: no late completion, cancellation or *)
(* second download takes it away or writes over it                         *)
(* (firmware_update.cpp:90, http_downloader.cpp:139, 223-248). It may lack *)
(* the tail that close() could not write (218), which nobody looks at.     *)
DownloadedMeansFile ==
    state = "Downloaded" /\ source = "pull" => file \in Written

(* A transfer under way has an object that waits for it, or is just about  *)
(* to: nothing the server writes meanwhile takes the object out of the     *)
(* Downloading state (firmware_update.cpp:80, 91, 199).                    *)
DownloadAwaited ==
    worker \in {"open", "transfer", "judge"} =>
        state = "Downloading" \/ coap = "started"

(* download_thread_ is assigned only when it holds no thread, or one that  *)
(* has been joined: anything else is std::terminate()                      *)
(* (http_downloader.cpp:139-150).                                          *)
ThreadJoined == starter \in {"reset", "spawn"} => worker = "none"

(* Every download, however it ends, makes the downloader available again   *)
(* (http_downloader.cpp:161, 171, 220).                                    *)
DownloadEnds == downloading ~> ~downloading

(* The object leaves the Downloading state: "Called by application when    *)
(* download completes" (firmware_update.hpp:126).                          *)
ObjectSettles == state = "Downloading" ~> state # "Downloading"
=============================================================================
