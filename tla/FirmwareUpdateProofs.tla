------------------------- MODULE FirmwareUpdateProofs -------------------------
(***************************************************************************)
(* Proofs about FirmwareUpdate: the safety properties of a firmware        *)
(* download, for behaviours of any length.                                 *)
(***************************************************************************)
EXTENDS FirmwareUpdate, TLAPS

(* start_download() runs inside the write of the URI, in the Idle state,   *)
(* and apply_update() leaves no download under way.                        *)
CoapOK ==
    /\ starter # "none" <=> coap = "starting"
    /\ coap \in {"starting", "started"} => state = "Idle"
    /\ coap = "applying" => state \in {"Idle", "Updating"}

(* A success is reported of a file that is there, as curl's last write and *)
(* the unchecked close() left it.                                          *)
VerdictOK == worker \in {"judge", "report"} /\ verdict = "ok" => file \in Written

(* Between its look at the state and its stores, download_complete() finds *)
(* the state as it was.                                                    *)
DoneOK ==
    /\ done # "no" => worker = "report"
    /\ done = "checked" => state = "Downloading"

FotaInv ==
    /\ TypeOK /\ CoapOK /\ VerdictOK /\ DoneOK
    /\ DownloadedMeansFile /\ DownloadAwaited /\ ThreadJoined

(* The invariant holds initially. *)
LEMMA InitFotaInv == Init => FotaInv
BY DEF Init, HttpInit, FotaInv, TypeOK, HttpTypeOK,
       CoapOK, VerdictOK, DoneOK, DownloadedMeansFile, DownloadAwaited, ThreadJoined,
       Starters, Workers, Busy, Verdicts, Files, Written, FirmwareState,
       FirmwareUpdateResult

(* Every step of the three threads preserves it.  The download thread acts *)
(* on the file only while the object waits for it, and the CoAP thread     *)
(* never leaves a state that the download thread has looked at.            *)
LEMMA NextFotaInv == FotaInv /\ [Next]_vars => FotaInv'
<1> SUFFICES ASSUME FotaInv, [Next]_vars PROVE FotaInv'
  OBVIOUS
<1> USE DEF FotaInv, TypeOK, HttpTypeOK, CoapOK, VerdictOK, DoneOK,
            DownloadedMeansFile, DownloadAwaited, ThreadJoined,
            Starters, Workers, Busy, Verdicts, Files, Written, FirmwareState,
            FirmwareUpdateResult
<1>1. CASE Opens /\ UNCHANGED fwVars
  BY <1>1 DEF Opens, fwVars
<1>2. CASE OpenFails /\ UNCHANGED fwVars
  <2>1. downloading' \in BOOLEAN
    BY <1>2, Zenon DEF OpenFails
  <2>2. QED
    BY <1>2, <2>1 DEF OpenFails, fwVars
<1>3. CASE Performs /\ UNCHANGED fwVars
  <2>1. downloading' \in BOOLEAN
    BY <1>3, Zenon DEF Performs
  <2>2. QED
    BY <1>3, <2>1 DEF Performs, fwVars
<1>4. CASE Judges /\ UNCHANGED fwVars
  BY <1>4 DEF Judges, fwVars
<1>5. CASE Checks
  BY <1>5 DEF Checks
<1>6. CASE Stores
  BY <1>6 DEF Stores
<1>7. CASE StoresResult
  BY <1>7 DEF StoresResult
<1>8. CASE Starting
  <2>1. CASE StartJoin  BY <1>8, <2>1 DEF Starting, StartJoin, StartReset, StartSpawn
  <2>2. CASE StartReset
    <3>1. cancelled' \in BOOLEAN  BY <2>2, Zenon DEF StartReset
    <3> QED  BY <1>8, <2>2, <3>1 DEF Starting, StartJoin, StartReset, StartSpawn
  <2>3. CASE StartSpawn  BY <1>8, <2>3 DEF Starting, StartJoin, StartReset, StartSpawn
  <2> QED  BY <1>8, <2>1, <2>2, <2>3 DEF Starting
<1>9. CASE SetDownloading
  BY <1>9 DEF SetDownloading, httpVars
<1>10. CASE \E ok \in BOOLEAN : ApplyReturns(ok)
  BY <1>10 DEF ApplyReturns, httpVars
<1>11. CASE WriteUri
  <2>1. CASE StartEnter /\ result' = "Initial" /\ coap' = "starting"
    BY <1>11, <2>1 DEF WriteUri, StartEnter
  <2>2. CASE StartRefused /\ result' = "InvalidUri" /\ UNCHANGED coap
    BY <1>11, <2>2 DEF WriteUri, StartRefused, httpVars
  <2> QED  BY <1>11, <2>1, <2>2 DEF WriteUri
<1>12. CASE ExecuteUpdate
  BY <1>12 DEF ExecuteUpdate, httpVars
<1>13. CASE \E v \in BOOLEAN : WritePackage(v)
  BY <1>13 DEF WritePackage, httpVars
<1>14. CASE AppCancel
  BY <1>14 DEF AppCancel, Cancel, fwVars
<1>15. CASE UpdateComplete
  BY <1>15 DEF UpdateComplete, httpVars
<1>16. CASE ClearPackage
  <2>1. package' \in BOOLEAN
    BY <1>16, Zenon DEF ClearPackage
  <2>2. QED
    BY <1>16, <2>1 DEF ClearPackage, httpVars
<1>17. CASE \E r \in {"Success", "UpdateFailed"} : UpdateResult(r)
  BY <1>17 DEF UpdateResult, httpVars
<1>18. CASE UNCHANGED vars
  BY <1>18 DEF vars, httpVars, fwVars
<1>q. QED
  BY <1>1, <1>2, <1>3, <1>4, <1>5, <1>6, <1>7, <1>8, <1>9, <1>10, <1>11,
     <1>12, <1>13, <1>14, <1>15, <1>16, <1>17, <1>18
     DEF Next, Worker, Download, Coap, Requests, Application

(* FotaInv is an invariant of the specification. *)
THEOREM FotaInvariant == Spec => []FotaInv
BY InitFotaInv, NextFotaInv, PTL DEF Spec

(* A package that counts as downloaded from its URI stays on disk as its   *)
(* transfer wrote it, whatever is cancelled, refused or completed late; it *)
(* lacks its tail if close() could not flush it                            *)
(* (http_downloader.cpp:223-248, firmware_update.cpp:198-209).             *)
THEOREM DownloadedCorrect == Spec => []DownloadedMeansFile
BY FotaInvariant, PTL DEF FotaInv

(* A transfer never runs without an object that waits for it               *)
(* (firmware_update.cpp:79-103).                                           *)
THEOREM AwaitedCorrect == Spec => []DownloadAwaited
BY FotaInvariant, PTL DEF FotaInv

(* download_thread_ is never assigned over a thread that was not joined    *)
(* (http_downloader.cpp:139-150).                                          *)
THEOREM JoinedCorrect == Spec => []ThreadJoined
BY FotaInvariant, PTL DEF FotaInv
=============================================================================
