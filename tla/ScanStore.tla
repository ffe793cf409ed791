----------------------------- MODULE ScanStore -----------------------------
(***************************************************************************)
(* The frontend's view of the scan life cycle: scanStatus in the Zustand   *)
(* store (store/useScanStore.ts), set by the handlers that                 *)
(* useScanEvents.ts subscribes to the backend's events and by the actions  *)
(* of lib/scan-controller.ts.  JavaScript runs each of them to its end, so *)
(* each is one step.                                                       *)
(*                                                                         *)
(* isScanning is left out: every transition sets it to "the status is      *)
(* active".  The reports themselves (merge, buffering while live updates   *)
(* are off, import) never influence the status and are left out too.       *)
(***************************************************************************)

VARIABLE scanStatus

ScanStatus == {"idle", "starting", "scanning", "updating", "completed", "failed", "cancelled"}
Active == scanStatus \in {"starting", "scanning", "updating"}

StoreInit == scanStatus = "idle"

-----------------------------------------------------------------------------
(* Event handlers *)

OnScanStarted == scanStatus' = "scanning"

\* "Keep updating if a merge is mid-flight; otherwise reflect scanning".
\* (Mutant: a tick is heeded only while the store believes a scan is on.)
OnScanProgressIfActive == scanStatus' = IF scanStatus = "starting" THEN "scanning" ELSE scanStatus
OnScanProgress == scanStatus' = IF scanStatus = "updating" THEN "updating" ELSE "scanning"

\* topology:updated: nothing for an empty report; otherwise onScanUpdating and then
\* applyRawReport, which fails the scan when the report does not validate.
OnTopologyUpdated(out) ==
    scanStatus' = CASE out = "empty" -> scanStatus
                    [] out = "invalid" -> "failed"
                    [] OTHER -> "updating"

\* scan:completed applies the report once more and then completes, whatever came of it.
OnScanCompleted == scanStatus' = "completed"
OnScanFailed == scanStatus' = "failed"

\* (Mutant: a status that is not a member of the ScanStatus union.)
OnScanCancelledMisspelt == scanStatus' = "canceled"
OnScanCancelled == scanStatus' = "cancelled"

-----------------------------------------------------------------------------
(* Actions of the user and of startScan *)

\* beginScan, from Run Scan, Rescan or the launch screen: disabled while active.
BeginScanUI == ~Active /\ scanStatus' = "starting"

\* startScan after its await: with an id the events take over, an error fails the scan.
StartResolved == UNCHANGED scanStatus

\* (Mutant: the error is only logged.)
StartRejectedLogOnly == UNCHANGED scanStatus
StartRejected == scanStatus' = "failed"

\* clearReport, "New scan" in the menu, at any time.
ClearReport == scanStatus' = "idle"
=============================================================================
