--------------------------- MODULE ScanController ---------------------------
(***************************************************************************)
(* The desktop backend's managed scans (apps/desktop/scan_controller.go).  *)
(* StartScan runs the agent as a child process on a goroutine and reports  *)
(* through events; several scans may be winding down while a new one runs. *)
(*                                                                         *)
(* A scan is identified by the call that asked for it.  What the agent     *)
(* prints matters only as far as the console can use it: a report that     *)
(* validates, one that does not, nothing, or an error exit.                *)
(***************************************************************************)
EXTENDS Naturals, Sequences

CONSTANTS
    MaxScans,   \* bound on the calls of StartScan explored
    MaxEvents,  \* bound on the events emitted and not yet delivered
    AgentOutput \* the outputs of the agent that are explored

ASSUME ScanBoundAssumption == MaxScans \in Nat \ {0} /\ MaxEvents \in Nat \ {0}

Scan == 1..MaxScans
NoScan == 0

VARIABLES
    call,        \* per scan: the StartScan call, as its caller sees it
    pc,          \* per scan: where its StartScan call or its runScanJob is
    ctx,         \* per scan: its context
    output,      \* per scan: what cmd.Output returned
    phases,      \* scans whose emitPhases goroutine runs
    scanCancel,  \* the scan the stored cancel function belongs to, NoScan when nil
    scanID,      \* the id of the scan in flight, NoScan when ""
    lastReport,  \* the scan whose output LatestSnapshot returns
    events       \* events emitted and not yet delivered (the Wails runtime keeps their order)

scanVars == <<call, pc, ctx, output, phases, scanCancel, scanID, lastReport, events>>

CallState == {"none", "requested", "accepted", "refused", "returned"}
JobState == {"none", "begun", "running", "exited", "reporting", "completing", "clearing", "over"}
Output == {"valid", "invalid", "empty", "error"}

ASSUME OutputAssumption == AgentOutput \subseteq Output

EventKind == {"started", "progress", "topology", "completed", "failed", "cancelled"}
Event == [kind : EventKind, scan : Scan, raw : Output \cup {"none"}]

ScanTypeOK ==
    /\ call \in [Scan -> CallState]
    /\ pc \in [Scan -> JobState]
    /\ ctx \in [Scan -> {"live", "cancelled", "deadline"}]
    /\ output \in [Scan -> Output \cup {"none"}]
    /\ phases \subseteq Scan
    /\ scanCancel \in Scan \cup {NoScan}
    /\ scanID \in Scan \cup {NoScan}
    /\ lastReport \in Scan \cup {NoScan}
    /\ events \in Seq(Event)

ScanInit ==
    /\ call = [j \in Scan |-> "none"]
    /\ pc = [j \in Scan |-> "none"]
    /\ ctx = [j \in Scan |-> "live"]
    /\ output = [j \in Scan |-> "none"]
    /\ phases = {}
    /\ scanCancel = NoScan /\ scanID = NoScan /\ lastReport = NoScan
    /\ events = <<>>

\* The payload names the scan and carries the report, if there is one.
Emit(kind, j) ==
    /\ Len(events) < MaxEvents
    /\ events' = Append(events, [kind |-> kind, scan |-> j,
                              raw |-> IF kind \in {"topology", "completed"} THEN output[j] ELSE "none"])

\* A context keeps its first reason for being done.
Cancelled(j) == IF j # NoScan /\ ctx[j] = "live" THEN [ctx EXCEPT ![j] = "cancelled"] ELSE ctx

-----------------------------------------------------------------------------
(* StartScan, CancelScan *)

\* resolveAgentBin fails: the call is refused before anything changes.
RefuseScan(j) ==
    /\ call[j] = "requested" /\ pc[j] = "none"
    /\ call' = [call EXCEPT ![j] = "refused"]
    /\ UNCHANGED <<pc, ctx, output, phases, scanCancel, scanID, lastReport, events>>

\* The critical section.  (Mutant: the predecessor is not cancelled.)
BeginScanKeepPredecessor(j) ==
    /\ call[j] = "requested" /\ pc[j] = "none"
    /\ scanCancel' = j
    /\ scanID' = j
    /\ pc' = [pc EXCEPT ![j] = "begun"]
    /\ UNCHANGED <<call, ctx, output, phases, lastReport, events>>

BeginScan(j) ==
    /\ call[j] = "requested" /\ pc[j] = "none"
    /\ ctx' = Cancelled(scanCancel)
    /\ scanCancel' = j
    /\ scanID' = j
    /\ pc' = [pc EXCEPT ![j] = "begun"]
    /\ UNCHANGED <<call, output, phases, lastReport, events>>

\* scan:started after the unlock, then runScanJob with its emitPhases goroutine.
LaunchScan(j) ==
    /\ pc[j] = "begun"
    /\ Emit("started", j)
    /\ pc' = [pc EXCEPT ![j] = "running"]
    /\ phases' = phases \cup {j}
    /\ call' = [call EXCEPT ![j] = "accepted"]
    /\ UNCHANGED <<ctx, output, scanCancel, scanID, lastReport>>

CancelScan ==
    /\ ctx' = Cancelled(scanCancel)
    /\ UNCHANGED <<call, pc, output, phases, scanCancel, scanID, lastReport, events>>

-----------------------------------------------------------------------------
(* runScanJob *)

\* The timeout of the context.
Deadline(j) ==
    /\ pc[j] = "running" /\ ctx[j] = "live"
    /\ ctx' = [ctx EXCEPT ![j] = "deadline"]
    /\ UNCHANGED <<call, pc, output, phases, scanCancel, scanID, lastReport, events>>

\* The agent exits, by itself or killed; a kill may come too late to matter.
AgentExit(j, out) ==
    /\ pc[j] = "running"
    /\ pc' = [pc EXCEPT ![j] = "exited"]
    /\ output' = [output EXCEPT ![j] = out]
    /\ UNCHANGED <<call, ctx, phases, scanCancel, scanID, lastReport, events>>

\* "Cancellation takes precedence"; then an error; then the report is kept.
Decide(j) ==
    /\ pc[j] = "exited"
    /\ \/ /\ ctx[j] = "cancelled"
          /\ Emit("cancelled", j)
          /\ pc' = [pc EXCEPT ![j] = "clearing"]
          /\ UNCHANGED lastReport
       \/ /\ ctx[j] # "cancelled" /\ output[j] = "error"
          /\ Emit("failed", j)
          /\ pc' = [pc EXCEPT ![j] = "clearing"]
          /\ UNCHANGED lastReport
       \/ /\ ctx[j] # "cancelled" /\ output[j] # "error"
          /\ lastReport' = j
          /\ pc' = [pc EXCEPT ![j] = "reporting"]
          /\ UNCHANGED events
    /\ UNCHANGED <<call, ctx, output, phases, scanCancel, scanID>>

EmitTopology(j) ==
    /\ pc[j] = "reporting"
    /\ Emit("topology", j)
    /\ pc' = [pc EXCEPT ![j] = "completing"]
    /\ UNCHANGED <<call, ctx, output, phases, scanCancel, scanID, lastReport>>

EmitCompleted(j) ==
    /\ pc[j] = "completing"
    /\ Emit("completed", j)
    /\ pc' = [pc EXCEPT ![j] = "clearing"]
    /\ UNCHANGED <<call, ctx, output, phases, scanCancel, scanID, lastReport>>

\* clearScan, the deferred cancel and the end of the goroutine.  (Mutant: the id is not compared.)
ClearScanAlways(j) ==
    /\ pc[j] = "clearing"
    /\ scanCancel' = NoScan
    /\ scanID' = NoScan
    /\ ctx' = Cancelled(j)
    /\ output' = [output EXCEPT ![j] = "none"]
    /\ pc' = [pc EXCEPT ![j] = "over"]
    /\ UNCHANGED <<call, phases, lastReport, events>>

ClearScan(j) ==
    /\ pc[j] = "clearing"
    /\ scanCancel' = IF scanID = j THEN NoScan ELSE scanCancel
    /\ scanID' = IF scanID = j THEN NoScan ELSE scanID
    /\ ctx' = Cancelled(j)
    /\ output' = [output EXCEPT ![j] = "none"]
    /\ pc' = [pc EXCEPT ![j] = "over"]
    /\ UNCHANGED <<call, phases, lastReport, events>>

-----------------------------------------------------------------------------
(* emitPhases: when a tick and the end of the scan are both ready, the select *)
(* takes either, so a last tick may come after the scan's final event.        *)

Progress(j) ==
    /\ j \in phases
    /\ Emit("progress", j)
    /\ UNCHANGED <<call, pc, ctx, output, phases, scanCancel, scanID, lastReport>>

PhasesExit(j) ==
    /\ j \in phases
    /\ pc[j] # "running" \/ ctx[j] # "live"
    /\ phases' = phases \ {j}
    /\ UNCHANGED <<call, pc, ctx, output, scanCancel, scanID, lastReport, events>>

Job(j) ==
    \/ LaunchScan(j)
    \/ Decide(j)
    \/ EmitTopology(j)
    \/ EmitCompleted(j)
    \/ ClearScan(j)

Agent(j) == \E out \in AgentOutput : AgentExit(j, out)

Accept(j) == RefuseScan(j) \/ BeginScan(j)

-----------------------------------------------------------------------------
(* What the controller promises *)

Live(j) == pc[j] \notin {"none", "over"} /\ ctx[j] = "live"

\* "A single managed scan can be in flight at a time" (App) and CancelScan "cancels the
\* in-flight managed scan, if any": a scan whose context is still live is the one that
\* scanCancel and scanID name, so there is only one and CancelScan reaches it, however
\* calls, exits and the clean-up of superseded scans interleave.
LiveScanIsCurrent ==
    \A j \in Scan : Live(j) => scanCancel = j /\ scanID = j

=============================================================================
