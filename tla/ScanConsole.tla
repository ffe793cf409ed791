---------------------------- MODULE ScanConsole ----------------------------
(***************************************************************************)
(* The desktop console: the backend's ScanController and the frontend's    *)
(* ScanStore, joined by the Wails bridge.  Calls go to the backend one     *)
(* goroutine each, events come back in the order they were emitted, and a  *)
(* call's result comes back on its own, in any order with the events.      *)
(***************************************************************************)
EXTENDS ScanController, ScanStore

vars == <<scanVars, scanStatus>>

TypeOK == ScanTypeOK /\ scanStatus \in ScanStatus

Init == ScanInit /\ StoreInit

\* startScan (lib/scan-controller.ts) up to its await: beginScan, then the call.
StartScanCall(j) ==
    /\ call[j] = "none"
    /\ \A i \in 1..(j - 1) : call[i] # "none"
    /\ BeginScanUI
    /\ call' = [call EXCEPT ![j] = "requested"]
    /\ UNCHANGED <<pc, ctx, output, phases, scanCancel, scanID, lastReport, events>>

\* The rest of startScan.
StartScanReturn(j) ==
    /\ \/ call[j] = "accepted" /\ StartResolved
       \/ call[j] = "refused" /\ StartRejected
    /\ call' = [call EXCEPT ![j] = "returned"]
    /\ UNCHANGED <<pc, ctx, output, phases, scanCancel, scanID, lastReport, events>>

\* The Stop button, shown while a scan is active.
StopButton ==
    /\ Active
    /\ CancelScan
    /\ UNCHANGED scanStatus

\* The handlers ignore which scan an event is about.
Handle(e) ==
    \/ e.kind = "started" /\ OnScanStarted
    \/ e.kind = "progress" /\ OnScanProgress
    \/ e.kind = "topology" /\ OnTopologyUpdated(e.raw)
    \/ e.kind = "completed" /\ OnScanCompleted
    \/ e.kind = "failed" /\ OnScanFailed
    \/ e.kind = "cancelled" /\ OnScanCancelled

Deliver ==
    /\ events # <<>>
    /\ Handle(Head(events))
    /\ events' = Tail(events)
    /\ UNCHANGED <<call, pc, ctx, output, phases, scanCancel, scanID, lastReport>>

NewScan ==
    /\ ClearReport
    /\ UNCHANGED scanVars

Backend(j) ==
    /\ \/ Accept(j)
       \/ Job(j)
       \/ Agent(j)
       \/ Deadline(j)
       \/ Progress(j)
       \/ PhasesExit(j)
    /\ UNCHANGED scanStatus

Next ==
    \/ \E j \in Scan : StartScanCall(j) \/ StartScanReturn(j) \/ Backend(j)
    \/ StopButton
    \/ Deliver
    \/ NewScan

Spec == Init /\ [][Next]_vars

\* Goroutines run, tickers tick, the runtime delivers, and an agent whose context is
\* done is killed; left alone, it may run for as long as it likes.  (Strong fairness
\* where the bound on the undelivered events may disable a step for a while.)  Nothing
\* is assumed of the user.
Fairness ==
    /\ WF_vars(Deliver)
    /\ \A j \in Scan :
          /\ WF_vars(StartScanReturn(j))
          /\ WF_vars(Accept(j) /\ UNCHANGED scanStatus)
          /\ SF_vars(Job(j) /\ UNCHANGED scanStatus)
          /\ WF_vars(ctx[j] # "live" /\ Agent(j) /\ UNCHANGED scanStatus)
          /\ WF_vars(PhasesExit(j) /\ UNCHANGED scanStatus)
          /\ SF_vars(Progress(j) /\ UNCHANGED scanStatus)

FairSpec == Spec /\ Fairness

-----------------------------------------------------------------------------
(* Properties *)

\* useScanStore: the status panel "can show exactly where a scan is".  While the agent
\* runs, the console comes to show an active scan, even after the events of a superseded
\* scan, a rejected call or "New scan" have told it otherwise.
LiveScanShown ==
    \A j \in Scan :
        (pc[j] = "running" /\ ctx[j] = "live") ~> (Active \/ pc[j] # "running" \/ ctx[j] # "live")

\* startScan never leaves the console in "starting": either the backend's events take
\* over or the rejected call fails the scan.
StartingEnds == (scanStatus = "starting") ~> (scanStatus # "starting")

\* Nothing is under way: no call, no scan, no phase ticker, no event.
Quiet ==
    /\ \A j \in Scan : call[j] \in {"none", "returned"} /\ pc[j] \in {"none", "over"}
    /\ phases = {}
    /\ events = <<>>

\* scan_controller.go: "scan:progress - periodic phase/elapsed update while the scan
\* runs".  Once every scan has ended and every event is handled, the console does not
\* show an active scan.
QuietMeansSettled == Quiet => ~Active

=============================================================================
