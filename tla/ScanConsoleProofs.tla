------------------------- MODULE ScanConsoleProofs -------------------------
(***************************************************************************)
(* Proofs about the desktop console, for any number of StartScan calls and *)
(* any bound on the undelivered events.                                    *)
(***************************************************************************)
EXTENDS ScanConsole, TLAPS

-----------------------------------------------------------------------------
(* Types *)

LEMMA EventFacts ==
    ASSUME NEW s \in Seq(Event)
    PROVE  /\ \A e \in Event : Append(s, e) \in Seq(Event)
           /\ s # <<>> => Head(s) \in Event /\ Tail(s) \in Seq(Event)
  OBVIOUS

LEMMA EmitType ==
    ASSUME ScanTypeOK, NEW j \in Scan, NEW kind \in EventKind, Emit(kind, j)
    PROVE  events' \in Seq(Event)
<1> DEFINE raw == IF kind \in {"topology", "completed"} THEN output[j] ELSE "none"
<1>1. raw \in Output \cup {"none"}
  BY DEF ScanTypeOK
<1>2. [kind |-> kind, scan |-> j, raw |-> raw] \in Event
  BY <1>1 DEF Event
<1> QED
  BY <1>2, EventFacts DEF Emit, ScanTypeOK

LEMMA CancelledType ==
    ASSUME ScanTypeOK, NEW j \in Scan \cup {NoScan}
    PROVE  Cancelled(j) \in [Scan -> {"live", "cancelled", "deadline"}]
  BY DEF Cancelled, ScanTypeOK, NoScan

LEMMA TypeStep == TypeOK /\ [Next]_vars => TypeOK'
<1> SUFFICES ASSUME TypeOK, [Next]_vars PROVE TypeOK'
  OBVIOUS
<1>0. ScanTypeOK /\ scanStatus \in ScanStatus
  BY DEF TypeOK
<1> USE DEF EventKind
<1>1. ASSUME NEW j \in Scan, StartScanCall(j) \/ StartScanReturn(j) PROVE TypeOK'
  BY <1>0, <1>1 DEF StartScanCall, StartScanReturn, BeginScanUI, StartResolved, StartRejected,
                    TypeOK, ScanTypeOK, CallState, ScanStatus
<1>2. ASSUME NEW j \in Scan, Backend(j) PROVE TypeOK'
  <2>0. scanStatus' \in ScanStatus
    BY <1>0, <1>2 DEF Backend
  <2>1. CASE RefuseScan(j)
    BY <2>1, <2>0, <1>0 DEF RefuseScan, TypeOK, ScanTypeOK, CallState
  <2>2. CASE BeginScan(j)
    <3>1. ctx' \in [Scan -> {"live", "cancelled", "deadline"}]
      BY <2>2, <1>0, CancelledType DEF BeginScan, ScanTypeOK
    <3> QED
      BY <2>2, <2>0, <3>1, <1>0 DEF BeginScan, TypeOK, ScanTypeOK, JobState
  <2>3. CASE LaunchScan(j)
    <3>1. events' \in Seq(Event)
      BY <2>3, <1>0, EmitType DEF LaunchScan
    <3> QED
      BY <2>3, <2>0, <3>1, <1>0 DEF LaunchScan, TypeOK, ScanTypeOK, JobState, CallState
  <2>4. ASSUME NEW out \in AgentOutput, AgentExit(j, out) PROVE TypeOK'
    BY <2>4, <2>0, <1>0, OutputAssumption DEF AgentExit, TypeOK, ScanTypeOK, JobState
  <2>5. CASE Decide(j)
    <3>1. events' \in Seq(Event)
      BY <2>5, <1>0, EmitType DEF Decide, ScanTypeOK
    <3>2. pc' \in [Scan -> JobState] /\ lastReport' \in Scan \cup {NoScan}
      BY <2>5, <1>0 DEF Decide, ScanTypeOK, JobState
    <3> QED
      BY <2>5, <2>0, <3>1, <3>2, <1>0 DEF Decide, TypeOK, ScanTypeOK
  <2>6. CASE EmitTopology(j) \/ EmitCompleted(j)
    <3>1. events' \in Seq(Event)
      BY <2>6, <1>0, EmitType DEF EmitTopology, EmitCompleted
    <3> QED
      BY <2>6, <2>0, <3>1, <1>0 DEF EmitTopology, EmitCompleted, TypeOK, ScanTypeOK, JobState
  <2>7. CASE ClearScan(j)
    <3>1. ctx' \in [Scan -> {"live", "cancelled", "deadline"}]
      BY <2>7, <1>0, CancelledType DEF ClearScan
    <3> QED
      BY <2>7, <2>0, <3>1, <1>0 DEF ClearScan, TypeOK, ScanTypeOK, JobState
  <2>8. CASE Deadline(j) \/ PhasesExit(j)
    BY <2>8, <2>0, <1>0 DEF Deadline, PhasesExit, TypeOK, ScanTypeOK
  <2>9. CASE Progress(j)
    <3>1. events' \in Seq(Event)
      BY <2>9, <1>0, EmitType DEF Progress
    <3> QED
      BY <2>9, <2>0, <3>1, <1>0 DEF Progress, TypeOK, ScanTypeOK
  <2> QED
    BY <1>2, <2>1, <2>2, <2>3, <2>4, <2>5, <2>6, <2>7, <2>8, <2>9 DEF Backend, Accept, Job, Agent
<1>3. CASE StopButton
  BY <1>3, <1>0, CancelledType DEF StopButton, CancelScan, TypeOK, ScanTypeOK
<1>4. CASE Deliver
  <2>1. events' \in Seq(Event)
    BY <1>4, <1>0, EventFacts DEF Deliver, ScanTypeOK
  <2>2. scanStatus' \in ScanStatus
    BY <1>4, <1>0 DEF Deliver, Handle, OnScanStarted, OnScanProgress, OnTopologyUpdated,
                      OnScanCompleted, OnScanFailed, OnScanCancelled, ScanStatus
  <2> QED
    BY <1>4, <2>1, <2>2, <1>0 DEF Deliver, TypeOK, ScanTypeOK
<1>5. CASE NewScan
  BY <1>5, <1>0 DEF NewScan, ClearReport, scanVars, TypeOK, ScanTypeOK, ScanStatus
<1>6. CASE UNCHANGED vars
  BY <1>6, <1>0 DEF vars, scanVars, TypeOK, ScanTypeOK
<1> QED
  BY <1>1, <1>2, <1>3, <1>4, <1>5, <1>6 DEF Next

\* Every scan, event and status of the console is one its handlers know.
THEOREM ConsoleTypes == Spec => []TypeOK
<1>1. Init => TypeOK
  BY DEF Init, ScanInit, StoreInit, TypeOK, ScanTypeOK, CallState, JobState, ScanStatus
<1> QED
  BY <1>1, TypeStep, PTL DEF Spec

-----------------------------------------------------------------------------
(* One live scan *)

LEMMA CurrentStep == TypeOK /\ LiveScanIsCurrent /\ [Next]_vars => LiveScanIsCurrent'
<1> SUFFICES ASSUME TypeOK, LiveScanIsCurrent, [Next]_vars PROVE LiveScanIsCurrent'
  OBVIOUS
<1>0. /\ pc \in [Scan -> JobState] /\ ctx \in [Scan -> {"live", "cancelled", "deadline"}]
      /\ scanCancel \in Scan \cup {NoScan}
  BY DEF TypeOK, ScanTypeOK
<1>s. NoScan \notin Scan
  BY DEF Scan, NoScan
\* A step that keeps the two fields and brings no scan to life.
<1>k. ASSUME UNCHANGED <<scanCancel, scanID>>, \A k \in Scan : Live(k)' => Live(k)
      PROVE  LiveScanIsCurrent'
  BY <1>k DEF LiveScanIsCurrent
<1>c. ASSUME NEW j \in Scan \cup {NoScan}, NEW k \in Scan
      PROVE  /\ Cancelled(j)[k] = "live" => ctx[k] = "live"
             /\ k = j => Cancelled(j)[k] # "live"
  BY <1>c, <1>0, <1>s DEF Cancelled
<1>1. ASSUME NEW j \in Scan, BeginScan(j) PROVE LiveScanIsCurrent'
  <2>1. ASSUME NEW k \in Scan, k # j PROVE ~Live(k)'
    <3>1. pc'[k] = pc[k] /\ ctx'[k] = Cancelled(scanCancel)[k]
      BY <1>1, <2>1, <1>0 DEF BeginScan
    <3> QED
      BY <3>1, <1>c, <1>0 DEF Live, LiveScanIsCurrent
  <2> QED
    BY <1>1, <2>1 DEF BeginScan, LiveScanIsCurrent
<1>2. ASSUME NEW j \in Scan, ClearScan(j) PROVE LiveScanIsCurrent'
  <2>1. ~Live(j)'
    BY <1>2, <1>0 DEF ClearScan, Live
  <2>2. ASSUME NEW k \in Scan, k # j, Live(k)' PROVE scanCancel' = k /\ scanID' = k
    <3>1. pc'[k] = pc[k] /\ ctx'[k] = Cancelled(j)[k]
      BY <1>2, <2>2, <1>0 DEF ClearScan
    <3>2. Live(k)
      BY <2>2, <3>1, <1>c DEF Live
    <3> QED
      BY <1>2, <2>2, <3>2 DEF ClearScan, LiveScanIsCurrent
  <2> QED
    BY <2>1, <2>2 DEF LiveScanIsCurrent
<1>3. ASSUME NEW j \in Scan, Job(j) \/ Agent(j), ~ClearScan(j) PROVE LiveScanIsCurrent'
  BY <1>3, <1>k, <1>0 DEF Job, LaunchScan, Agent, AgentExit, Decide, EmitTopology, EmitCompleted, Live
<1>4. CASE CancelScan
  BY <1>4, <1>k, <1>c, <1>0 DEF CancelScan, Live
<1>5. ASSUME NEW j \in Scan, RefuseScan(j) \/ Deadline(j) \/ Progress(j) \/ PhasesExit(j)
      PROVE  LiveScanIsCurrent'
  BY <1>5, <1>k, <1>0 DEF RefuseScan, Deadline, Progress, PhasesExit, Live
<1>6. ASSUME NEW j \in Scan, Backend(j) PROVE LiveScanIsCurrent'
  BY <1>1, <1>2, <1>3, <1>5, <1>6 DEF Backend, Accept
<1>7. ASSUME NEW j \in Scan, StartScanCall(j) \/ StartScanReturn(j) PROVE LiveScanIsCurrent'
  BY <1>7, <1>k DEF StartScanCall, StartScanReturn, Live
<1>8. CASE Deliver \/ NewScan \/ UNCHANGED vars
  BY <1>8, <1>k DEF Deliver, NewScan, vars, scanVars, Live
<1> QED
  BY <1>4, <1>6, <1>7, <1>8 DEF Next, StopButton

\* "A single managed scan can be in flight at a time": for any number of calls and any
\* interleaving with the clean-up of superseded scans, a scan with a live context is the
\* one CancelScan would cancel.
THEOREM OneLiveScan == Spec => []LiveScanIsCurrent
<1>1. Init => LiveScanIsCurrent
  BY DEF Init, ScanInit, LiveScanIsCurrent, Live
<1> QED
  BY <1>1, CurrentStep, ConsoleTypes, PTL DEF Spec

=============================================================================
