------------------------ MODULE DiscoveryPoolProofs ------------------------
(***************************************************************************)
(* Proofs about the discovery pool, for any addresses, scope, subnets,     *)
(* number of workers and of sessions: it uses the registry only through    *)
(* the operations of DevicePool, it probes nothing outside its scope, it   *)
(* probes no address twice at once, keeps no mark without a probe while    *)
(* its goroutines live, and no candidate waits twice.                      *)
(***************************************************************************)
EXTENDS DiscoveryPool, LiveRegistryProofs, FiniteSetTheorems

-----------------------------------------------------------------------------
(* Helpers *)

\* What the channel operations do to the elements of a sequence.
LEMMA SeqFacts ==
    ASSUME NEW S, NEW s \in Seq(S)
    PROVE  /\ \A x \in S : Append(s, x) \in Seq(S)
           /\ s # <<>> => Head(s) \in S /\ Tail(s) \in Seq(S)
           /\ \A t \in Seq(S) : s \o t \in Seq(S)
  OBVIOUS

\* enqueue's first half marks and hands over an allowed address.
LEMMA MarkScope ==
    ASSUME QueuesOK(Allowed), NEW s \in Caller, NEW ip \in Allowed, Mark(s, ip)
    PROVE  inflight' \subseteq Allowed /\ sending' \subseteq Caller \X Allowed
  BY DEF Mark, QueuesOK

\* expandSubnet appends guard-checked candidates only.
LEMMA ExpandScope ==
    ASSUME QueuesOK(Allowed), NEW ip \in IP, ExpandSubnet(ip)
    PROVE  expanded' \subseteq Subnet /\ backlog' \in Seq(Allowed)
<1>1. SubnetOf[ip] \in Subnet /\ Hosts[SubnetOf[ip]] \in Seq(Allowed)
  BY ScopeAssumption
<1>2. backlog \o Hosts[SubnetOf[ip]] \in Seq(Allowed)
  BY <1>1, SeqFacts DEF QueuesOK
<1> QED
  BY <1>1, <1>2 DEF ExpandSubnet, QueuesOK

\* A seed that passed the ScopeGuard keeps the queues in scope.
LEMMA SeedScope ==
    ASSUME QueuesOK(Allowed), NEW s \in Caller, NEW ip \in Allowed, SeedStep(s, ip)
    PROVE  QueuesOK(Allowed)'
  BY MarkScope DEF SeedStep, QueuesOK

-----------------------------------------------------------------------------
(* The manager uses the registry only through its operations *)

LEMMA RefineStep == ScopeInv /\ [Next]_vars => [PoolNext]_poolVars
<1> SUFFICES ASSUME ScopeInv, [Next]_vars PROVE [PoolNext]_poolVars
  OBVIOUS
<1> USE DEF PoolNext
<1>1. ASSUME NEW s, NEW ip \in IP, SeedStep(s, ip) PROVE PoolNext
  BY <1>1, EvidenceAssumption DEF SeedStep
<1>2. ASSUME User PROVE [PoolNext]_poolVars
  <2>1. ASSUME NEW ip \in SeedInput, AddSeed(ip) PROVE PoolNext
    BY <2>1, <1>1, InputAssumption DEF AddSeed
  <2>2. ASSUME NEW ip \in EvidenceInput, NEW k \in EvidenceKey, NEW gr \in Grade,
               AddDeviceEvidence(ip, k, gr)
        PROVE  PoolNext
    BY <2>2, InputAssumption DEF AddDeviceEvidence
  <2> QED
    BY <1>2, <2>1, <2>2 DEF User, Start, Stop, SetPaused, ManagerClearStale
<1>3. ASSUME NEW g \in Session, Background(g) PROVE [PoolNext]_poolVars
  <2>1. ASSUME NEW ip \in IP, StartSeed(g, ip) PROVE [PoolNext]_poolVars
    BY <2>1, <1>1 DEF StartSeed, poolVars
  <2>2. ASSUME Feed(g) PROVE PoolNext
    <3>1. Head(backlog) \in IP
      BY <2>2, SeqFacts, ScopeAssumption DEF Feed, ScopeInv, QueuesOK
    <3> QED
      BY <2>2, <3>1 DEF Feed
  <2>3. ASSUME con[g].pc = "record" PROVE con[g].ip \in IP
    BY <2>3, ScopeAssumption DEF ScopeInv, Wired, PipelineOK, ConsumerState
  <2>4. ASSUME Consume(g) PROVE [PoolNext]_poolVars
    <3>1. CASE ConsumerRecordSuccess(g)
      BY <3>1, <2>3, EvidenceAssumption DEF ConsumerRecordSuccess
    <3>2. CASE ConsumerRecordFailure(g)
      BY <3>2, <2>3 DEF ConsumerRecordFailure
    <3> QED
      BY <2>4, <3>1, <3>2 DEF Consume, ConsumerEnter, ConsumerReceive, ConsumerReturn, CloseResults
  <2>5. ASSUME Dispatch(g) \/ \E w \in Worker : Work(g, w) PROVE UNCHANGED poolVars
    BY <2>5 DEF Dispatch, DispatcherTake, DispatcherHand, DispatcherExit, SchedulerOnly,
                Work, Probe, WorkerSend, WorkerExit
  <2> QED
    BY <1>3, <2>1, <2>2, <2>4, <2>5 DEF Background, Launch, Cancel, RetestTick, RetestEnqueue
<1>4. ASSUME NEW s \in Caller, NEW ip \in IP, SendTask(s, ip) \/ ExpandSeed(s, ip)
      PROVE  UNCHANGED poolVars
  BY <1>4 DEF SendTask, ExpandSeed
<1>5. CASE UNCHANGED vars
  BY <1>5 DEF vars
<1> QED
  BY <1>2, <1>3, <1>4, <1>5 DEF Next

-----------------------------------------------------------------------------
(* Only allowed addresses circulate *)

LEMMA ControlStep == ScopeInv /\ Next => ControlOK'
<1> SUFFICES ASSUME ScopeInv, Next PROVE ControlOK'
  OBVIOUS
<1> USE BoundAssumption, InputAssumption DEF ScopeInv, ControlOK, Session
<1>1. ASSUME User PROVE ControlOK'
  <2>1. ASSUME NEW S \in SUBSET IP, Start(S) PROVE ControlOK'
    <3>1. session' \in 0..MaxSessions
      BY <2>1 DEF Start
    <3>2. seeds' \in [Session -> SUBSET IP]
      BY <2>1 DEF Start
    <3>3. cancelled' \subseteq Session /\ launched' \subseteq Session
      BY <2>1 DEF Start
    <3>4. running' \in BOOLEAN /\ paused' \in BOOLEAN /\ panicked' \in BOOLEAN
      BY <2>1 DEF Start
    <3> QED
      BY <3>1, <3>2, <3>3, <3>4
  <2>2. ASSUME NEW p \in PauseInput, SetPaused(p) PROVE ControlOK'
    BY <2>2 DEF SetPaused
  <2> QED
    BY <1>1, <2>1, <2>2 DEF User, Stop, AddSeed, AddDeviceEvidence, ManagerClearStale, control
<1>2. ASSUME NEW g \in Session, Background(g) PROVE ControlOK'
  <2>1. ASSUME NEW ip \in IP, StartSeed(g, ip) PROVE ControlOK'
    BY <2>1 DEF StartSeed
  <2>2. ASSUME Launch(g) \/ Cancel(g) PROVE ControlOK'
    BY <2>2 DEF Launch, Cancel
  <2>3. ASSUME Dispatch(g) PROVE ControlOK'
    BY <2>3 DEF Dispatch, DispatcherTake, DispatcherHand, DispatcherExit, SchedulerOnly, control
  <2>4. ASSUME NEW w \in Worker, Work(g, w) PROVE ControlOK'
    BY <2>4 DEF Work, Probe, WorkerSend, WorkerExit, SchedulerOnly, control
  <2>5. ASSUME Consume(g) PROVE ControlOK'
    BY <2>5 DEF Consume, ConsumerEnter, ConsumerReceive, ConsumerRecordSuccess,
                ConsumerRecordFailure, ConsumerReturn, CloseResults, control
  <2> QED
    BY <1>2, <2>1, <2>2, <2>3, <2>4, <2>5 DEF Background, Feed, RetestTick, RetestEnqueue, control
<1>3. ASSUME NEW s \in Caller, NEW ip \in IP, SendTask(s, ip) \/ ExpandSeed(s, ip)
      PROVE  ControlOK'
  BY <1>3 DEF SendTask, ExpandSeed, control
<1> QED
  BY <1>1, <1>2, <1>3 DEF Next

LEMMA QueuesStep == ScopeInv /\ Next => QueuesOK(Allowed)'
<1> SUFFICES ASSUME ScopeInv, Next PROVE QueuesOK(Allowed)'
  OBVIOUS
<1>0. QueuesOK(Allowed) /\ PipelineOK(Allowed)
  BY DEF ScopeInv
<1>f. ASSUME UNCHANGED queues PROVE QueuesOK(Allowed)'
  BY <1>f, <1>0 DEF queues, QueuesOK
<1>1. ASSUME User PROVE QueuesOK(Allowed)'
  <2>1. ASSUME NEW ip \in SeedInput, AddSeed(ip) PROVE QueuesOK(Allowed)'
    BY <2>1, <1>0, SeedScope DEF AddSeed, Caller
  <2> QED
    BY <1>1, <1>f, <2>1 DEF User, Start, Stop, AddDeviceEvidence, SetPaused, ManagerClearStale
<1>2. ASSUME NEW g \in Session, Background(g) PROVE QueuesOK(Allowed)'
  <2>0. {<<g, "start">>, <<g, "feed">>, <<g, "retest">>} \subseteq Caller
    BY DEF Caller
  <2>1. ASSUME NEW ip \in IP, StartSeed(g, ip) PROVE QueuesOK(Allowed)'
    BY <2>1, <2>0, <1>0, <1>f, SeedScope DEF StartSeed
  <2>2. ASSUME Feed(g) PROVE QueuesOK(Allowed)'
    <3>1. Head(backlog) \in Allowed /\ Tail(backlog) \in Seq(Allowed)
      BY <2>2, <1>0, SeqFacts DEF Feed, QueuesOK
    <3>2. inflight' \subseteq Allowed /\ sending' \subseteq Caller \X Allowed
      BY <2>2, <2>0, <3>1, <1>0, MarkScope DEF Feed
    <3> QED
      BY <2>2, <3>1, <3>2, <1>0 DEF Feed, QueuesOK
  <2>3. ASSUME NEW S \in {{"active", "recently_seen"}, {"stale"}}, RetestTick(g, S)
        PROVE  QueuesOK(Allowed)'
    <3>1. {ip \in IP : status[ip] \in S} \subseteq Allowed
      BY <2>3 DEF ScopeInv, MapShowsRespondersOnly, OnMap
    <3> QED
      BY <2>3, <3>1, <1>0 DEF RetestTick, QueuesOK
  <2>4. ASSUME NEW ip \in IP, RetestEnqueue(g, ip) PROVE QueuesOK(Allowed)'
    <3>1. ip \in Allowed
      BY <2>4, <1>0 DEF RetestEnqueue, QueuesOK
    <3>2. inflight' \subseteq Allowed /\ sending' \subseteq Caller \X Allowed
      BY <2>4, <2>0, <3>1, <1>0, MarkScope DEF RetestEnqueue
    <3> QED
      BY <2>4, <3>2, <1>0 DEF RetestEnqueue, QueuesOK
  <2>5. ASSUME Dispatch(g) PROVE UNCHANGED queues
    BY <2>5 DEF Dispatch, DispatcherTake, DispatcherHand, DispatcherExit, SchedulerOnly
  <2>6. ASSUME NEW w \in Worker, Work(g, w) PROVE UNCHANGED queues
    BY <2>6 DEF Work, Probe, WorkerSend, WorkerExit, SchedulerOnly
  <2>7. ASSUME Consume(g) PROVE QueuesOK(Allowed)'
    <3>1. CASE ConsumerReceive(g)
      BY <3>1, <1>0 DEF ConsumerReceive, QueuesOK
    <3>2. CASE ConsumerRecordSuccess(g)
      <4>1. con[g].ip \in IP
        BY <3>2, <1>0, ScopeAssumption DEF ConsumerRecordSuccess, ScopeInv, Wired, PipelineOK, ConsumerState
      <4> QED
        BY <3>2, <4>1, <1>0, ExpandScope DEF ConsumerRecordSuccess, QueuesOK
    <3> QED
      BY <2>7, <3>1, <3>2, <1>f DEF Consume, ConsumerEnter, ConsumerRecordFailure,
                                    ConsumerReturn, CloseResults
  <2> QED
    BY <1>2, <1>f, <2>1, <2>2, <2>3, <2>4, <2>5, <2>6, <2>7 DEF Background, Launch, Cancel
<1>3. ASSUME NEW s \in Caller, NEW ip \in IP, SendTask(s, ip) PROVE QueuesOK(Allowed)'
  BY <1>3, <1>0 DEF SendTask, QueuesOK
<1>4. ASSUME NEW s \in Caller, NEW ip \in IP, ExpandSeed(s, ip) PROVE QueuesOK(Allowed)'
  BY <1>4, <1>0, ExpandScope DEF ExpandSeed, QueuesOK
<1> QED
  BY <1>1, <1>2, <1>3, <1>4 DEF Next

LEMMA PipelineStep == ScopeInv /\ Next => PipelineOK(Allowed)'
<1> SUFFICES ASSUME ScopeInv, Next PROVE PipelineOK(Allowed)'
  OBVIOUS
<1>0. QueuesOK(Allowed) /\ PipelineOK(Allowed) /\ ControlOK /\ Wired
  BY DEF ScopeInv
<1>f. ASSUME UNCHANGED pipeline PROVE PipelineOK(Allowed)'
  BY <1>f, <1>0 DEF pipeline, PipelineOK
<1>s. 1..session \subseteq Session /\ session \in 0..MaxSessions
  BY <1>0, BoundAssumption DEF ControlOK, Session
<1>a. \A pc \in {"enter", "close", "exited"} : ConsumerAt(pc) \in ConsumerState(Allowed)
  BY BoundAssumption DEF ConsumerAt, ConsumerState, Reach
<1>w. ASSUME NEW g \in Session, NEW w \in Worker, NEW st \in WorkerState(Allowed),
             worker' = [worker EXCEPT ![g][w] = st]
      PROVE  worker' \in [Session -> [Worker -> WorkerState(Allowed)]]
  BY <1>w, <1>0 DEF PipelineOK
<1>1. ASSUME User PROVE UNCHANGED pipeline
  BY <1>1 DEF User, Start, Stop, AddSeed, AddDeviceEvidence, SetPaused, ManagerClearStale
<1>2. ASSUME NEW g \in Session, Background(g) PROVE PipelineOK(Allowed)'
  <2>1. ASSUME Launch(g) PROVE PipelineOK(Allowed)'
    <3>1. [w \in Worker |-> [NoProbe EXCEPT !.pc = "idle"]] \in [Worker -> WorkerState(Allowed)]
      BY DEF NoProbe, WorkerState, Reach
    <3>2. worker' \in [Session -> [Worker -> WorkerState(Allowed)]]
      BY <2>1, <3>1, <1>0 DEF Launch, PipelineOK
    <3>3. con' \in [Session -> ConsumerState(Allowed)]
      BY <2>1, <1>a, <1>0 DEF Launch, PipelineOK
    <3>4. bound' \in [Session -> 0..MaxSessions]
      BY <2>1, <1>0, <1>s DEF Launch, PipelineOK
    <3>5. disp' \in [Session -> [pc : {"wait", "hand", "exited"}, ip : Allowed \cup {None}]]
      BY <2>1, <1>0 DEF Launch, PipelineOK
    <3> QED
      BY <2>1, <3>2, <3>3, <3>4, <3>5, <1>0 DEF Launch, PipelineOK
  <2>2. ASSUME DispatcherTake(g) PROVE PipelineOK(Allowed)'
    <3>1. bound[g] \in Session /\ taskCh[bound[g]] \in Seq(Allowed)
      BY <2>2, <1>0 DEF DispatcherTake, Wired, PipelineOK
    <3>2. Head(taskCh[bound[g]]) \in Allowed /\ Tail(taskCh[bound[g]]) \in Seq(Allowed)
      BY <2>2, <3>1, SeqFacts DEF DispatcherTake
    <3> QED
      BY <2>2, <3>1, <3>2, <1>0 DEF DispatcherTake, SchedulerOnly, PipelineOK
  <2>3. ASSUME NEW w \in Worker, DispatcherHand(g, w) PROVE PipelineOK(Allowed)'
    <3>1. [pc |-> "probe", ip |-> disp[g].ip, res |-> "down"] \in WorkerState(Allowed)
      BY <1>0 DEF PipelineOK, WorkerState, Reach
    <3>2. worker' \in [Session -> [Worker -> WorkerState(Allowed)]]
      BY <2>3, <3>1, <1>w DEF DispatcherHand
    <3> QED
      BY <2>3, <3>2, <1>0 DEF DispatcherHand, SchedulerOnly, PipelineOK
  <2>4. ASSUME DispatcherExit(g) PROVE PipelineOK(Allowed)'
    BY <2>4, <1>0 DEF DispatcherExit, SchedulerOnly, PipelineOK
  <2>5. ASSUME NEW w \in Worker, NEW res \in Reach, Probe(g, w, res) PROVE PipelineOK(Allowed)'
    <3>1. worker[g][w] \in WorkerState(Allowed)
      BY <1>0 DEF PipelineOK
    <3>2. [worker[g][w] EXCEPT !.pc = "send", !.res = res] \in WorkerState(Allowed)
      BY <3>1 DEF WorkerState
    <3>3. worker' = [worker EXCEPT ![g][w] = [worker[g][w] EXCEPT !.pc = "send", !.res = res]]
      BY <2>5, <1>0 DEF Probe, PipelineOK
    <3>4. worker' \in [Session -> [Worker -> WorkerState(Allowed)]]
      BY <3>2, <3>3, <1>w
    <3> QED
      BY <2>5, <3>4, <1>0 DEF Probe, SchedulerOnly, PipelineOK
  <2>6. ASSUME NEW w \in Worker, WorkerSend(g, w) PROVE PipelineOK(Allowed)'
    <3>1. bound[g] \in Session /\ results[bound[g]] \in Seq(Outcome(Allowed))
      BY <2>6, <1>0 DEF WorkerSend, Wired, PipelineOK
    <3>2. [ip |-> worker[g][w].ip, res |-> worker[g][w].res] \in Outcome(Allowed)
      BY <2>6, <1>0 DEF WorkerSend, Wired, PipelineOK, Outcome, WorkerState
    <3>3. Append(results[bound[g]], [ip |-> worker[g][w].ip, res |-> worker[g][w].res])
             \in Seq(Outcome(Allowed))
      BY <3>1, <3>2, SeqFacts
    <3>4. results' \in [Session -> Seq(Outcome(Allowed))]
      BY <2>6, <3>1, <3>3, <1>0 DEF WorkerSend, PipelineOK
    <3>5. [NoProbe EXCEPT !.pc = "idle"] \in WorkerState(Allowed)
      BY DEF NoProbe, WorkerState, Reach
    <3>6. worker' \in [Session -> [Worker -> WorkerState(Allowed)]]
      BY <2>6, <3>5, <1>w, <1>0 DEF WorkerSend, PipelineOK
    <3> QED
      BY <2>6, <3>4, <3>6, <1>0 DEF WorkerSend, SchedulerOnly, PipelineOK
  <2>7. ASSUME NEW w \in Worker, WorkerExit(g, w) PROVE PipelineOK(Allowed)'
    <3>1. NoProbe \in WorkerState(Allowed)
      BY DEF NoProbe, WorkerState, Reach
    <3>2. worker' \in [Session -> [Worker -> WorkerState(Allowed)]]
      BY <2>7, <3>1, <1>w DEF WorkerExit
    <3> QED
      BY <2>7, <3>2, <1>0 DEF WorkerExit, SchedulerOnly, PipelineOK
  <2>8. ASSUME ConsumerEnter(g) PROVE PipelineOK(Allowed)'
    BY <2>8, <1>0, <1>s DEF ConsumerEnter, PipelineOK, ConsumerState
  <2>9. ASSUME ConsumerReceive(g) PROVE PipelineOK(Allowed)'
    <3> DEFINE ch == con[g].ch
    <3>1. ch \in Session /\ results[ch] \in Seq(Outcome(Allowed))
      BY <2>9, <1>0 DEF ConsumerReceive, Wired, PipelineOK
    <3>2. /\ Head(results[ch]) \in Outcome(Allowed)
          /\ Tail(results[ch]) \in Seq(Outcome(Allowed))
      BY <2>9, <3>1, SeqFacts DEF ConsumerReceive
    <3>3. results' \in [Session -> Seq(Outcome(Allowed))]
      BY <2>9, <3>1, <3>2, <1>0 DEF ConsumerReceive, PipelineOK
    <3>4. [pc |-> "record", ch |-> 0, ip |-> Head(results[ch]).ip, res |-> Head(results[ch]).res]
             \in ConsumerState(Allowed)
      BY <3>2, BoundAssumption DEF Outcome, ConsumerState
    <3>5. con' \in [Session -> ConsumerState(Allowed)]
      BY <2>9, <3>4, <1>0 DEF ConsumerReceive, PipelineOK
    <3> QED
      BY <2>9, <3>3, <3>5, <1>0 DEF ConsumerReceive, PipelineOK
  <2>10. ASSUME ConsumerRecordSuccess(g) \/ ConsumerRecordFailure(g) \/ ConsumerReturn(g)
         PROVE  PipelineOK(Allowed)'
    <3>1. con' \in [Session -> ConsumerState(Allowed)]
      BY <2>10, <1>a, <1>0 DEF ConsumerRecordSuccess, ConsumerRecordFailure, ConsumerReturn,
                               PipelineOK
    <3> QED
      BY <2>10, <3>1, <1>0 DEF ConsumerRecordSuccess, ConsumerRecordFailure, ConsumerReturn,
                               PipelineOK
  <2>11. ASSUME CloseResults(g) PROVE PipelineOK(Allowed)'
    <3>1. session \in Session
      BY <2>11, <1>0, <1>s, BoundAssumption DEF CloseResults, Wired, ControlOK, Session
    <3>2. con' \in [Session -> ConsumerState(Allowed)]
      BY <2>11, <1>a, <1>0 DEF CloseResults, PipelineOK
    <3> QED
      BY <2>11, <3>1, <3>2, <1>0 DEF CloseResults, PipelineOK
  <2> QED
    BY <1>2, <1>f, <2>1, <2>2, <2>3, <2>4, <2>5, <2>6, <2>7, <2>8, <2>9, <2>10, <2>11
       DEF Background, Dispatch, Work, Consume, StartSeed, Cancel, Feed, RetestTick, RetestEnqueue
<1>3. ASSUME NEW s \in Caller, NEW ip \in IP, SendTask(s, ip) PROVE PipelineOK(Allowed)'
  <2>1. ip \in Allowed
    BY <1>3, <1>0 DEF SendTask, QueuesOK
  <2>2. CASE Accepts(session)
    <3>1. session \in Session /\ taskCh[session] \in Seq(Allowed)
      BY <2>2, <1>s, <1>0, BoundAssumption DEF Accepts, Session, PipelineOK
    <3>2. Append(taskCh[session], ip) \in Seq(Allowed)
      BY <2>1, <3>1, SeqFacts
    <3> QED
      BY <1>3, <2>2, <3>1, <3>2, <1>0 DEF SendTask, PipelineOK
  <2> QED
    BY <1>3, <2>2, <1>0 DEF SendTask, PipelineOK
<1>4. ASSUME NEW s \in Caller, NEW ip \in IP, ExpandSeed(s, ip) PROVE UNCHANGED pipeline
  BY <1>4 DEF ExpandSeed
<1> QED
  BY <1>f, <1>1, <1>2, <1>3, <1>4 DEF Next

LEMMA WiredStep == ScopeInv /\ Next => Wired'
<1> SUFFICES ASSUME ScopeInv, Next PROVE Wired'
  OBVIOUS
<1>0. PipelineOK(Allowed) /\ ControlOK /\ Wired /\ None \notin Allowed
  BY ScopeAssumption DEF ScopeInv
<1>s. 1..session \subseteq Session /\ session \in 0..MaxSessions
  BY <1>0, BoundAssumption DEF ControlOK, Session
<1>f. ASSUME UNCHANGED <<launched, session, bound, disp, worker, con>> PROVE Wired'
  BY <1>f, <1>0 DEF Wired
<1>1. ASSUME User PROVE Wired'
  <2>1. ASSUME NEW S \in SUBSET IP, Start(S) PROVE Wired'
    <3>1. 1..session \subseteq 1..session' /\ UNCHANGED <<launched, bound, disp, worker, con>>
      BY <2>1, <1>s, BoundAssumption DEF Start, pipeline
    <3> QED
      BY <3>1, <1>0 DEF Wired
  <2> QED
    BY <1>1, <2>1, <1>f DEF User, Stop, AddSeed, AddDeviceEvidence, SetPaused,
                            ManagerClearStale, control, pipeline
<1>2. ASSUME NEW g \in Session, Background(g) PROVE Wired'
  <2>1. ASSUME Launch(g) PROVE Wired'
    <3>1. session \in Session /\ launched' = launched \cup {g} /\ g \in 1..session /\ g \notin launched
      BY <2>1, <1>s DEF Launch, Session
    <3>2. /\ \A h \in Session : bound'[h] = IF h = g THEN session ELSE bound[h]
          /\ \A h \in Session \ {g} : disp'[h] = disp[h] /\ con'[h] = con[h] /\ worker'[h] = worker[h]
          /\ disp'[g].pc = "wait" /\ disp'[g].ip = disp[g].ip
          /\ con'[g] = ConsumerAt("enter")
          /\ \A w \in Worker : worker'[g][w] = [NoProbe EXCEPT !.pc = "idle"]
          /\ session' = session
      BY <2>1, <1>0 DEF Launch, PipelineOK
    <3>3. disp[g].ip = None
      BY <3>1, <1>0 DEF Wired
    <3>4. con'[g].pc = "enter" /\ con'[g].ip = None
      BY <3>2 DEF ConsumerAt
    <3>5. \A w \in Worker : worker'[g][w].pc = "idle" /\ worker'[g][w].ip = None
      BY <3>2 DEF NoProbe
    <3> QED
      BY <3>1, <3>2, <3>3, <3>4, <3>5, <1>0 DEF Wired
  <2>2. ASSUME Dispatch(g) PROVE Wired'
    <3>1. CASE DispatcherTake(g)
      <4>1. bound[g] \in Session /\ taskCh[bound[g]] \in Seq(Allowed)
        BY <3>1, <1>0 DEF DispatcherTake, Wired, PipelineOK
      <4>2. Head(taskCh[bound[g]]) # None
        BY <3>1, <4>1, <1>0, SeqFacts DEF DispatcherTake
      <4> QED
        BY <3>1, <4>2, <1>0 DEF DispatcherTake, SchedulerOnly, control, Wired, PipelineOK
    <3>2. CASE \E w \in Worker : DispatcherHand(g, w)
      <4>1. PICK w \in Worker : DispatcherHand(g, w)
        BY <3>2
      <4>2. worker' = [worker EXCEPT ![g][w] = [pc |-> "probe", ip |-> disp[g].ip, res |-> "down"]]
        BY <4>1 DEF DispatcherHand
      <4>3. disp[g].ip # None /\ g \in launched
        BY <4>1, <1>0 DEF DispatcherHand, Wired
      <4> QED
        BY <4>1, <4>2, <4>3, <1>0 DEF DispatcherHand, SchedulerOnly, control, Wired, PipelineOK
    <3>3. CASE DispatcherExit(g)
      BY <3>3, <1>0 DEF DispatcherExit, SchedulerOnly, control, Wired, PipelineOK
    <3> QED
      BY <2>2, <3>1, <3>2, <3>3 DEF Dispatch
  <2>3. ASSUME NEW w \in Worker, Work(g, w) PROVE Wired'
    <3>1. ASSUME NEW res \in Reach, Probe(g, w, res) PROVE Wired'
      BY <3>1, <1>0 DEF Probe, SchedulerOnly, control, Wired, PipelineOK
    <3>2. CASE WorkerSend(g, w)
      <4>1. CASE UNCHANGED worker
        BY <3>2, <4>1, <1>f DEF WorkerSend, SchedulerOnly, control
      <4>2. CASE worker' = [worker EXCEPT ![g][w] = [NoProbe EXCEPT !.pc = "idle"]]
        <5>1. UNCHANGED <<launched, session, bound, disp, con>>
          BY <3>2 DEF WorkerSend, SchedulerOnly, control
        <5>2. g \in launched
          BY <3>2, <1>0 DEF WorkerSend, Wired
        <5>3. [NoProbe EXCEPT !.pc = "idle"].pc = "idle" /\ [NoProbe EXCEPT !.pc = "idle"].ip = None
          BY DEF NoProbe
        <5> HIDE DEF NoProbe
        <5> QED
          BY <4>2, <5>1, <5>2, <5>3, <1>0 DEF Wired, PipelineOK
      <4> QED
        BY <3>2, <4>1, <4>2 DEF WorkerSend
    <3>3. CASE WorkerExit(g, w)
      BY <3>3, <1>0 DEF WorkerExit, SchedulerOnly, control, Wired, PipelineOK, NoProbe
    <3> QED
      BY <2>3, <3>1, <3>2, <3>3 DEF Work
  <2>4. ASSUME Consume(g) PROVE Wired'
    <3>0. UNCHANGED <<session, launched, bound, disp, worker>>
      BY <2>4 DEF Consume, ConsumerEnter, ConsumerReceive, ConsumerRecordSuccess,
                  ConsumerRecordFailure, ConsumerReturn, CloseResults, control
    <3>1. ASSUME NEW pc \in {"enter", "close", "exited"}, g \in launched,
                 con' = [con EXCEPT ![g] = ConsumerAt(pc)]
          PROVE  Wired'
      BY <3>0, <3>1, <1>0 DEF Wired, PipelineOK, ConsumerAt
    <3>2. CASE ConsumerEnter(g)
      <4>1. session \in Session /\ g \in launched
        BY <3>2, <1>s, <1>0 DEF ConsumerEnter, Wired, Session
      <4> QED
        BY <3>0, <3>2, <4>1, <1>0 DEF ConsumerEnter, Wired, PipelineOK
    <3>3. CASE ConsumerReceive(g)
      <4> DEFINE ch == con[g].ch
      <4>1. ch \in Session /\ results[ch] \in Seq(Outcome(Allowed)) /\ g \in launched
        BY <3>3, <1>0 DEF ConsumerReceive, Wired, PipelineOK
      <4>2. Head(results[ch]) \in Outcome(Allowed)
        BY <3>3, <4>1, SeqFacts DEF ConsumerReceive
      <4>3. Head(results[ch]).ip # None
        BY <4>2, <1>0 DEF Outcome
      <4>4. /\ \A h \in Session \ {g} : con'[h] = con[h]
            /\ con'[g].pc = "record" /\ con'[g].ip = Head(results[ch]).ip
        BY <3>3, <1>0 DEF ConsumerReceive, PipelineOK
      <4>5. ASSUME NEW h \in Session
            PROVE  /\ con'[h].pc # "exited" => h \in launched
                   /\ con'[h].pc = "recv" => con'[h].ch \in Session
                   /\ con'[h].pc = "record" <=> con'[h].ip # None
        <5>1. CASE h = g
          BY <5>1, <4>1, <4>3, <4>4
        <5>2. CASE h # g
          BY <5>2, <4>4, <1>0 DEF Wired
        <5> QED
          BY <5>1, <5>2
      <4> HIDE DEF ch
      <4> QED
        BY <3>0, <4>5, <1>0 DEF Wired
    <3>4. CASE ConsumerRecordSuccess(g) \/ ConsumerRecordFailure(g) \/ ConsumerReturn(g)
                 \/ CloseResults(g)
      <4>1. g \in launched
        BY <3>4, <1>0 DEF ConsumerRecordSuccess, ConsumerRecordFailure, ConsumerReturn,
                          CloseResults, Wired
      <4> QED
        BY <3>1, <3>4, <4>1 DEF ConsumerRecordSuccess, ConsumerRecordFailure, ConsumerReturn,
                                CloseResults
    <3> QED
      BY <2>4, <3>2, <3>3, <3>4 DEF Consume
  <2> QED
    BY <1>2, <1>f, <2>1, <2>2, <2>3, <2>4
       DEF Background, StartSeed, Cancel, Feed, RetestTick, RetestEnqueue, control, pipeline
<1>3. ASSUME NEW s \in Caller, NEW ip \in IP, SendTask(s, ip) \/ ExpandSeed(s, ip) PROVE Wired'
  BY <1>3, <1>f DEF SendTask, ExpandSeed, control, pipeline
<1> QED
  BY <1>1, <1>2, <1>3 DEF Next

\* Only an outcome of the pipeline makes a device a responder.
LEMMA RespondedStep ==
    ScopeInv /\ [Next]_vars => \A ip \in IP : responded'[ip] => ip \in Allowed
<1> SUFFICES ASSUME ScopeInv, [Next]_vars, NEW ip \in IP, responded'[ip] PROVE ip \in Allowed
  OBVIOUS
<1>0. responded[ip] => ip \in Allowed
  BY DEF ScopeInv
<1>1. CASE User
  BY <1>0, <1>1 DEF User, Start, Stop, AddSeed, SeedStep, AddDeviceEvidence, EnsureWithEvidence,
                    SetPaused, ManagerClearStale, ClearStale, poolVars
<1>2. ASSUME NEW g \in Session, Background(g) PROVE ip \in Allowed
  <2>1. CASE ConsumerRecordSuccess(g)
    <3>1. con[g].ip \in Allowed
      BY <2>1 DEF ConsumerRecordSuccess, ScopeInv, Wired, PipelineOK, ConsumerState
    <3> QED
      BY <2>1, <3>1, <1>0 DEF ConsumerRecordSuccess, RecordSuccess, ScopeInv, PoolTypeOK
  <2>2. CASE Consume(g) /\ ~ConsumerRecordSuccess(g)
    BY <2>2, <1>0 DEF Consume, ConsumerEnter, ConsumerReceive, ConsumerRecordFailure,
                      RecordFailure, ConsumerReturn, CloseResults, poolVars
  <2>3. CASE Dispatch(g)
    BY <2>3, <1>0 DEF Dispatch, DispatcherTake, DispatcherHand, DispatcherExit, SchedulerOnly, poolVars
  <2>4. CASE \E w \in Worker : Work(g, w)
    BY <2>4, <1>0 DEF Work, Probe, WorkerSend, WorkerExit, SchedulerOnly, poolVars
  <2>5. CASE \E i \in IP : StartSeed(g, i)
    BY <2>5, <1>0 DEF StartSeed, SeedStep, EnsureWithEvidence, poolVars
  <2> QED
    BY <1>0, <1>2, <2>1, <2>2, <2>3, <2>4, <2>5 DEF Background, Launch, Cancel, Feed,
       EnsureCandidate, RetestTick, RetestEnqueue, poolVars
<1>3. CASE \E s \in Caller, i \in IP : SendTask(s, i) \/ ExpandSeed(s, i)
  BY <1>0, <1>3 DEF SendTask, ExpandSeed, poolVars
<1>4. CASE UNCHANGED vars
  BY <1>0, <1>4 DEF vars, poolVars
<1> QED
  BY <1>1, <1>2, <1>3, <1>4 DEF Next

LEMMA ScopeInit == Init => ScopeInv
<1> SUFFICES ASSUME Init PROVE ScopeInv
  OBVIOUS
<1> USE BoundAssumption DEF Init
<1>1. PoolTypeOK /\ MapShowsRespondersOnly
  BY PoolTypeInit DEF PoolInit, MapShowsRespondersOnly, OnMap
<1>2. ControlOK
  <2>1. session \in 0..MaxSessions
    OBVIOUS
  <2> QED
    BY <2>1, Zenon DEF ControlOK
<1>3. QueuesOK(Allowed)
  BY DEF QueuesOK
<1>4. PipelineOK(Allowed)
  <2>1. NoProbe \in WorkerState(Allowed) /\ ConsumerAt("exited") \in ConsumerState(Allowed)
    BY DEF NoProbe, WorkerState, ConsumerAt, ConsumerState, Reach
  <2> QED
    BY <2>1 DEF PipelineOK
<1>5. Wired
  BY DEF Wired, NoProbe, ConsumerAt
<1>6. \A ip \in IP : ~responded[ip]
  BY DEF PoolInit
<1> QED
  BY <1>1, <1>2, <1>3, <1>4, <1>5, <1>6 DEF ScopeInv

LEMMA ScopeStep == ScopeInv /\ [Next]_vars => ScopeInv'
<1> SUFFICES ASSUME ScopeInv, [Next]_vars PROVE ScopeInv'
  OBVIOUS
<1>1. CASE Next
  <2>1. PoolTypeOK' /\ MapShowsRespondersOnly'
    BY RefineStep, PoolTypeStep, MapStep DEF ScopeInv
  <2> QED
    BY <1>1, <2>1, ControlStep, QueuesStep, PipelineStep, WiredStep, RespondedStep DEF ScopeInv
<1>2. CASE UNCHANGED vars
  BY <1>2 DEF vars, poolVars, control, queues, pipeline, ScopeInv, PoolTypeOK, ControlOK,
              QueuesOK, PipelineOK, Wired, MapShowsRespondersOnly
<1> QED
  BY <1>1, <1>2

LEMMA ScopeInvariant == Spec => []ScopeInv
  BY ScopeInit, ScopeStep, PTL DEF Spec

-----------------------------------------------------------------------------
(* What follows *)

\* "Only RFC1918 / link-local / RFC4193 targets are ever probed": no address outside the
\* ScopeGuard's scope reaches the backlog, a retest list, the probe pipeline or the map,
\* for any number of sessions, workers and addresses.
THEOREM PoolInScope == Spec => []InScope
<1>1. ScopeInv => InScope
  <2> SUFFICES ASSUME ScopeInv PROVE InScope
    OBVIOUS
  <2>1. QueuesOK(Allowed) /\ PipelineOK(Allowed) /\ None \notin IP
    BY ScopeAssumption DEF ScopeInv
  <2>2. Range(backlog) \subseteq Allowed
    BY <2>1 DEF QueuesOK, Range
  <2>3. ASSUME NEW ip \in IP \ Allowed PROVE Holders(ip) = {}
    <3>1. {t \in Caller : <<t, ip>> \in sending} = {}
      BY <2>1 DEF QueuesOK
    <3>2. \A g \in Session : {i \in DOMAIN taskCh[g] : taskCh[g][i] = ip} = {}
      BY <2>1 DEF PipelineOK
    <3>3. \A g \in Session : {i \in DOMAIN results[g] : results[g][i].ip = ip} = {}
      <4> SUFFICES ASSUME NEW g \in Session, NEW i \in DOMAIN results[g]
                   PROVE  results[g][i].ip # ip
        OBVIOUS
      <4>1. results[g] \in Seq(Outcome(Allowed))
        BY <2>1 DEF PipelineOK
      <4>2. results[g][i] \in Outcome(Allowed)
        BY <4>1
      <4> QED
        BY <4>2 DEF Outcome
    <3>4. {h \in Session : disp[h].ip = ip} = {}
      BY <2>1 DEF PipelineOK
    <3>5. \A g \in Session : {w \in Worker : worker[g][w].ip = ip} = {}
      BY <2>1 DEF PipelineOK, WorkerState
    <3> SUFFICES ASSUME NEW x \in Holders(ip) PROVE FALSE
      OBVIOUS
    <3> QED
      BY <3>1, <3>2, <3>3, <3>4, <3>5 DEF Holders
  <2> QED
    BY <2>1, <2>2, <2>3 DEF InScope, QueuesOK, ScopeInv
<1> QED
  BY <1>1, ScopeInvariant, PTL

\* The pool touches its registry only through the registry's operations, so it inherits
\* what DevicePool promises.
THEOREM PoolUsesRegistry == Spec => PoolSpec
<1>1. Init => PoolInit
  BY DEF Init
<1> QED
  BY <1>1, RefineStep, ScopeInvariant, PTL DEF Spec, PoolSpec

\* Whatever the sessions interleave, the status of a device agrees with its failures.
THEOREM PoolStatusesSound == Spec => []StreakMatchesStatus
  BY PoolUsesRegistry, PoolStreaks, PTL

-----------------------------------------------------------------------------
(* Types and channel capacities *)

LEMMA LenFacts ==
    ASSUME NEW S, NEW s \in Seq(S)
    PROVE  /\ Len(s) \in Nat
           /\ \A x \in S : Len(Append(s, x)) = Len(s) + 1
           /\ s # <<>> => Len(Tail(s)) < Len(s) /\ Len(Tail(s)) \in Nat
  OBVIOUS

LEMMA BoundsStep == ScopeInv /\ WithinBounds /\ [Next]_vars => WithinBounds'
<1> SUFFICES ASSUME ScopeInv, WithinBounds, [Next]_vars PROVE WithinBounds'
  OBVIOUS
<1>0. QueuesOK(Allowed) /\ PipelineOK(Allowed) /\ ControlOK /\ Wired
  BY DEF ScopeInv
<1>n. QueueCap \in Nat /\ ResultCap \in Nat
  BY BoundAssumption
<1>l. ASSUME NEW h \in Session
      PROVE  Len(taskCh[h]) \in Nat /\ Len(results[h]) \in Nat
  BY <1>0, LenFacts DEF PipelineOK
<1>f. ASSUME UNCHANGED <<taskCh, results>> PROVE WithinBounds'
  BY <1>f DEF WithinBounds
<1>1. ASSUME NEW s \in Caller, NEW ip \in IP, SendTask(s, ip), UNCHANGED results PROVE WithinBounds'
  <2>1. CASE Accepts(session)
    <3>1. session \in Session /\ taskCh[session] \in Seq(Allowed) /\ ip \in Allowed
      BY <1>1, <2>1, <1>0, BoundAssumption DEF Accepts, ControlOK, Session, PipelineOK, SendTask, QueuesOK
    <3>2. Len(Append(taskCh[session], ip)) <= QueueCap
      BY <2>1, <3>1, <1>n, LenFacts DEF Accepts
    <3>3. \A h \in Session : taskCh'[h] = IF h = session THEN Append(taskCh[h], ip) ELSE taskCh[h]
      BY <1>1, <2>1, <3>1, <1>0 DEF SendTask, PipelineOK
    <3> QED
      BY <3>2, <3>3, <1>1 DEF WithinBounds
  <2> QED
    BY <1>1, <2>1, <1>f DEF SendTask
<1>2. ASSUME NEW g \in Session, DispatcherTake(g) PROVE WithinBounds'
  <2>1. bound[g] \in Session /\ taskCh[bound[g]] \in Seq(Allowed) /\ taskCh[bound[g]] # <<>>
    BY <1>2, <1>0 DEF DispatcherTake, Wired, PipelineOK
  <2>2. Len(Tail(taskCh[bound[g]])) <= QueueCap
    BY <2>1, <1>n, LenFacts DEF WithinBounds
  <2>3. \A h \in Session : taskCh'[h] = IF h = bound[g] THEN Tail(taskCh[h]) ELSE taskCh[h]
    BY <1>2, <1>0 DEF DispatcherTake, PipelineOK
  <2> QED
    BY <2>2, <2>3, <1>2 DEF WithinBounds, DispatcherTake
<1>3. ASSUME NEW g \in Session, NEW w \in Worker, WorkerSend(g, w) PROVE WithinBounds'
  <2> DEFINE out == [ip |-> worker[g][w].ip, res |-> worker[g][w].res]
  <2>1. bound[g] \in Session /\ results[bound[g]] \in Seq(Outcome(Allowed))
    BY <1>3, <1>0 DEF WorkerSend, Wired, PipelineOK
  <2>2. out \in Outcome(Allowed)
    BY <1>3, <1>0 DEF WorkerSend, Wired, PipelineOK, Outcome, WorkerState
  <2>3. CASE UNCHANGED results
    BY <1>3, <2>3, <1>f DEF WorkerSend
  <2>4. CASE /\ Len(results[bound[g]]) < ResultCap
             /\ results' = [results EXCEPT ![bound[g]] = Append(@, out)]
    <3>1. Len(Append(results[bound[g]], out)) <= ResultCap
      BY <2>1, <2>2, <2>4, <1>n, LenFacts
    <3>2. \A h \in Session : results'[h] = IF h = bound[g] THEN Append(results[h], out) ELSE results[h]
      BY <2>4, <1>0 DEF PipelineOK
    <3> QED
      BY <3>1, <3>2, <1>3 DEF WithinBounds, WorkerSend
  <2> QED
    BY <1>3, <2>3, <2>4 DEF WorkerSend
<1>4. ASSUME NEW g \in Session, ConsumerReceive(g) PROVE WithinBounds'
  <2> DEFINE ch == con[g].ch
  <2>1. ch \in Session /\ results[ch] \in Seq(Outcome(Allowed)) /\ results[ch] # <<>>
    BY <1>4, <1>0 DEF ConsumerReceive, Wired, PipelineOK
  <2>2. Len(Tail(results[ch])) <= ResultCap
    BY <2>1, <1>n, LenFacts DEF WithinBounds
  <2>3. \A h \in Session : results'[h] = IF h = ch THEN Tail(results[h]) ELSE results[h]
    BY <1>4, <1>0 DEF ConsumerReceive, PipelineOK
  <2>4. UNCHANGED taskCh
    BY <1>4 DEF ConsumerReceive
  <2> HIDE DEF ch
  <2> QED
    BY <2>2, <2>3, <2>4 DEF WithinBounds
<1>5. ASSUME User PROVE UNCHANGED <<taskCh, results>>
  BY <1>5 DEF User, Start, Stop, AddSeed, AddDeviceEvidence, SetPaused, ManagerClearStale, pipeline
<1>6. ASSUME NEW g \in Session, Background(g) PROVE WithinBounds'
  <2>1. CASE Dispatch(g)
    BY <2>1, <1>2, <1>f DEF Dispatch, DispatcherHand, DispatcherExit
  <2>2. CASE \E w \in Worker : Work(g, w)
    BY <2>2, <1>3, <1>f DEF Work, Probe, WorkerExit
  <2>3. CASE Consume(g)
    BY <2>3, <1>4, <1>f DEF Consume, ConsumerEnter, ConsumerRecordSuccess, ConsumerRecordFailure,
                            ConsumerReturn, CloseResults
  <2> QED
    BY <1>6, <2>1, <2>2, <2>3, <1>f DEF Background, StartSeed, Launch, Cancel, Feed, RetestTick,
                                        RetestEnqueue, pipeline
<1>7. ASSUME NEW s \in Caller, NEW ip \in IP, SendTask(s, ip) \/ ExpandSeed(s, ip) PROVE WithinBounds'
  BY <1>7, <1>1, <1>f DEF SendTask, ExpandSeed, pipeline
<1>8. CASE UNCHANGED vars
  BY <1>8, <1>f DEF vars, pipeline
<1> QED
  BY <1>5, <1>6, <1>7, <1>8, <1>f DEF Next

\* Every queue, channel and goroutine of the pool holds what its type allows, and no
\* channel ever holds more than its capacity.
THEOREM PoolTypes == Spec => []TypeOK
<1>1. Init => WithinBounds
  BY BoundAssumption DEF Init, WithinBounds
<1>2. ScopeInv /\ WithinBounds => TypeOK
  <2> SUFFICES ASSUME ScopeInv, WithinBounds PROVE TypeOK
    OBVIOUS
  <2>0. Allowed \subseteq IP /\ Allowed \cup {None} \subseteq IP \cup {None}
    BY ScopeAssumption
  <2>1. QueuesOK(IP)
    BY <2>0 DEF ScopeInv, QueuesOK
  <2>2. Outcome(Allowed) \subseteq Outcome(IP)
    BY <2>0 DEF Outcome
  <2>3. \A g \in Session : taskCh[g] \in Seq(IP) /\ results[g] \in Seq(Outcome(IP))
    BY <2>0, <2>2 DEF ScopeInv, PipelineOK
  <2>4. WorkerState(Allowed) \subseteq WorkerState(IP) /\ ConsumerState(Allowed) \subseteq ConsumerState(IP)
    BY <2>0 DEF WorkerState, ConsumerState
  <2>5. PipelineOK(IP)
    BY <2>0, <2>3, <2>4 DEF ScopeInv, PipelineOK
  <2> QED
    BY <2>1, <2>5 DEF ScopeInv, TypeOK
<1> QED
  BY <1>1, <1>2, BoundsStep, ScopeInvariant, PTL DEF Spec

-----------------------------------------------------------------------------
(* An address is probed once at a time *)

\* x is a holder of a probe of ip: an enqueue call, a slot of a channel, a dispatcher, a worker.
InEnqueue(x, ip) == \E s \in Caller : <<s, ip>> \in sending /\ x = <<"enqueue", s, 0>>
InTasks(x, ip) ==
    \E g \in Session : \E i \in DOMAIN taskCh[g] : taskCh[g][i] = ip /\ x = <<"task", g, i>>
InResults(x, ip) ==
    \E g \in Session : \E i \in DOMAIN results[g] : results[g][i].ip = ip /\ x = <<"result", g, i>>
InDispatcher(x, ip) == \E g \in Session : disp[g].ip = ip /\ x = <<"dispatcher", g, 0>>
InWorker(x, ip) ==
    \E g \in Session : \E w \in Worker : worker[g][w].ip = ip /\ x = <<"worker", g, w>>

HoldsProbe(x, ip) ==
    \/ InEnqueue(x, ip)
    \/ InTasks(x, ip)
    \/ InResults(x, ip)
    \/ InDispatcher(x, ip)
    \/ InWorker(x, ip)

HoldersByPlace == \A ip \in IP : \A x : x \in Holders(ip) <=> HoldsProbe(x, ip)

\* AtMostOneProbe for one address, without counting.
Sole(ip) ==
    /\ \A x, y : HoldsProbe(x, ip) /\ HoldsProbe(y, ip) => x = y
    /\ \A x : HoldsProbe(x, ip) => ip \in inflight

LEMMA Places == HoldersByPlace
<1> SUFFICES ASSUME NEW ip \in IP, NEW x PROVE x \in Holders(ip) <=> HoldsProbe(x, ip)
  BY DEF HoldersByPlace
<1> DEFINE at(kind, g, S) == {<<kind, g, i>> : i \in S}
           E == {<<"enqueue", s, 0>> : s \in {t \in Caller : <<t, ip>> \in sending}}
           T == UNION {at("task", g, {i \in DOMAIN taskCh[g] : taskCh[g][i] = ip}) : g \in Session}
           R == UNION {at("result", g, {i \in DOMAIN results[g] : results[g][i].ip = ip}) : g \in Session}
           D == {<<"dispatcher", g, 0>> : g \in {h \in Session : disp[h].ip = ip}}
           W == UNION {at("worker", g, {w \in Worker : worker[g][w].ip = ip}) : g \in Session}
<1>0. Holders(ip) = E \cup T \cup R \cup D \cup W
  BY DEF Holders
<1>1. x \in E <=> InEnqueue(x, ip)
  BY DEF InEnqueue
<1>2. x \in T <=> InTasks(x, ip)
  BY DEF InTasks
<1>3. x \in R <=> InResults(x, ip)
  BY DEF InResults
<1>4. x \in D <=> InDispatcher(x, ip)
  BY DEF InDispatcher
<1>5. x \in W <=> InWorker(x, ip)
  BY DEF InWorker
<1> HIDE DEF E, T, R, D, W
<1> QED
  BY <1>0, <1>1, <1>2, <1>3, <1>4, <1>5 DEF HoldsProbe

LEMMA TailFacts ==
    ASSUME NEW S, NEW s \in Seq(S), s # <<>>
    PROVE  /\ 1 \in DOMAIN s /\ Head(s) = s[1]
           /\ \A i \in DOMAIN Tail(s) : i + 1 \in DOMAIN s /\ Tail(s)[i] = s[i + 1] /\ i \in Nat \ {0}
<1>1. 1 \in DOMAIN s /\ Head(s) = s[1]
  OBVIOUS
<1>2. DOMAIN Tail(s) = 1..Len(s) - 1 /\ DOMAIN s = 1..Len(s) /\ Len(s) \in Nat
  OBVIOUS
<1>3. \A i \in 1..Len(s) - 1 : i + 1 \in 1..Len(s) /\ i \in Nat \ {0}
  BY <1>2
<1>4. \A i \in 1..Len(s) - 1 : Tail(s)[i] = s[i + 1]
  OBVIOUS
<1> QED
  BY <1>1, <1>2, <1>3, <1>4

LEMMA AppendFacts ==
    ASSUME NEW S, NEW s \in Seq(S), NEW x \in S
    PROVE  /\ Len(s) + 1 \notin DOMAIN s
           /\ \A i \in DOMAIN Append(s, x) :
                 (i = Len(s) + 1 /\ Append(s, x)[i] = x) \/ (i \in DOMAIN s /\ Append(s, x)[i] = s[i])
<1>1. DOMAIN Append(s, x) = 1..Len(s) + 1 /\ DOMAIN s = 1..Len(s) /\ Len(s) \in Nat
  OBVIOUS
<1>2. \A i \in 1..Len(s) + 1 : i = Len(s) + 1 \/ i \in 1..Len(s)
  BY <1>1
<1>3. Append(s, x)[Len(s) + 1] = x /\ \A i \in 1..Len(s) : Append(s, x)[i] = s[i]
  OBVIOUS
<1>4. Len(s) + 1 \notin 1..Len(s)
  BY <1>1
<1> QED
  BY <1>1, <1>2, <1>3, <1>4

\* The kinds of places are disjoint.
LEMMA PlaceKinds ==
    ASSUME NEW ip, NEW x
    PROVE  /\ InEnqueue(x, ip) => x[1] = "enqueue"
           /\ InTasks(x, ip) => x[1] = "task"
           /\ InResults(x, ip) => x[1] = "result"
           /\ InDispatcher(x, ip) => x[1] = "dispatcher"
           /\ InWorker(x, ip) => x[1] = "worker"
<1>1. InEnqueue(x, ip) => x[1] = "enqueue"
  BY DEF InEnqueue
<1>2. InTasks(x, ip) => x[1] = "task"
  BY DEF InTasks
<1>3. InResults(x, ip) => x[1] = "result"
  BY DEF InResults
<1>4. InDispatcher(x, ip) => x[1] = "dispatcher"
  BY DEF InDispatcher
<1>5. InWorker(x, ip) => x[1] = "worker"
  BY DEF InWorker
<1> QED
  BY <1>1, <1>2, <1>3, <1>4, <1>5

\* What a holder depends on.
LEMMA HoldersUnchanged ==
    ASSUME NEW ip, NEW x
    PROVE  /\ UNCHANGED sending => InEnqueue(x, ip)' = InEnqueue(x, ip)
           /\ UNCHANGED taskCh => InTasks(x, ip)' = InTasks(x, ip)
           /\ UNCHANGED results => InResults(x, ip)' = InResults(x, ip)
           /\ UNCHANGED disp => InDispatcher(x, ip)' = InDispatcher(x, ip)
           /\ UNCHANGED worker => InWorker(x, ip)' = InWorker(x, ip)
  BY DEF InEnqueue, InTasks, InResults, InDispatcher, InWorker

\* A step that gives ip no new holder and keeps its mark keeps its probe unique.
LEMMA SoleKept ==
    ASSUME NEW ip, Sole(ip), ip \in inflight => ip \in inflight',
           \A x : HoldsProbe(x, ip)' => HoldsProbe(x, ip)
    PROVE  Sole(ip)'
  BY DEF Sole

\* enqueue gives ip a holder only when it has no mark, hence no other holder.
LEMMA MarkSole ==
    ASSUME NEW ip \in IP, Sole(ip), NEW s \in Caller, NEW a \in IP, Mark(s, a),
           UNCHANGED <<taskCh, results, disp, worker>>
    PROVE  Sole(ip)'
<1>0. \A x : HoldsProbe(x, ip)' => HoldsProbe(x, ip) \/ InEnqueue(x, ip)'
  BY HoldersUnchanged DEF HoldsProbe
<1>1. \A x : InEnqueue(x, ip)' => InEnqueue(x, ip) \/ (a = ip /\ a \notin inflight /\ x = <<"enqueue", s, 0>>)
  BY DEF InEnqueue, Mark
<1>2. CASE a \in inflight \/ a # ip
  <2>1. \A x : HoldsProbe(x, ip)' => HoldsProbe(x, ip)
    BY <1>0, <1>1, <1>2 DEF HoldsProbe
  <2> QED
    BY <1>2, <2>1, SoleKept DEF Mark
<1>3. CASE a \notin inflight /\ a = ip
  <2>1. \A x : ~HoldsProbe(x, ip)
    BY <1>3 DEF Sole
  <2>2. \A x : HoldsProbe(x, ip)' => x = <<"enqueue", s, 0>>
    BY <1>0, <1>1, <2>1 DEF HoldsProbe
  <2> QED
    BY <1>3, <2>2 DEF Sole, Mark
<1> QED
  BY <1>2, <1>3

\* ip's probe moves from h to y, or is dropped with its mark.
LEMMA SoleMoved ==
    ASSUME NEW ip, Sole(ip), NEW h, HoldsProbe(h, ip), NEW y,
           ip \in inflight => ip \in inflight',
           \A x : HoldsProbe(x, ip)' => (HoldsProbe(x, ip) /\ x # h) \/ x = y
    PROVE  Sole(ip)'
  BY DEF Sole

LEMMA SoleDropped ==
    ASSUME NEW ip, Sole(ip), NEW h, HoldsProbe(h, ip),
           \A x : HoldsProbe(x, ip)' => HoldsProbe(x, ip) /\ x # h
    PROVE  Sole(ip)'
  BY DEF Sole

\* Taking the head of a channel: the slot x was the slot z.
Shifted(kind, g, x, z) ==
    \/ x = z /\ \A i : x # <<kind, g, i>>
    \/ \E i \in Nat \ {0} : x = <<kind, g, i>> /\ z = <<kind, g, i + 1>>

LEMMA ShiftedFacts ==
    ASSUME NEW kind, NEW g, NEW x, NEW y, NEW z, Shifted(kind, g, x, z)
    PROVE  z # <<kind, g, 1>> /\ (Shifted(kind, g, y, z) => x = y)
<1>1. CASE x = z /\ \A i : x # <<kind, g, i>>
  BY <1>1 DEF Shifted
<1>2. CASE \E i \in Nat \ {0} : x = <<kind, g, i>> /\ z = <<kind, g, i + 1>>
  BY <1>2 DEF Shifted
<1> QED
  BY <1>1, <1>2 DEF Shifted

LEMMA OtherPlace ==
    ASSUME NEW kind, NEW other, other # kind, NEW g, NEW f, NEW i
    PROVE  Shifted(kind, g, <<other, f, i>>, <<other, f, i>>)
  BY DEF Shifted

LEMMA SoleShifted ==
    ASSUME NEW ip, Sole(ip), NEW kind, NEW g, ip \in inflight => ip \in inflight',
           \A x : HoldsProbe(x, ip)' => \E z : HoldsProbe(z, ip) /\ Shifted(kind, g, x, z)
    PROVE  Sole(ip)'
  BY ShiftedFacts DEF Sole

LEMMA HeadTaken ==
    ASSUME NEW ip, Sole(ip), NEW kind, NEW g, HoldsProbe(<<kind, g, 1>>, ip)
    PROVE  \A x, z : ~(HoldsProbe(z, ip) /\ Shifted(kind, g, x, z))
  BY ShiftedFacts DEF Sole

\* The send: ip moves from the enqueue call to the end of the task channel, or is dropped
\* together with its mark.
LEMMA SendSole ==
    ASSUME ScopeInv, NEW ip \in IP, Sole(ip), NEW s \in Caller, NEW a \in IP, SendTask(s, a)
    PROVE  Sole(ip)'
<1> DEFINE h == <<"enqueue", s, 0>>
           y == <<"task", session, Len(taskCh[session]) + 1>>
<1>0. UNCHANGED <<results, disp, worker>>
  BY DEF SendTask
<1>1. \A x : InEnqueue(x, ip)' => InEnqueue(x, ip) /\ (a = ip => x # h)
  BY DEF InEnqueue, SendTask
<1>2. a = ip => InEnqueue(h, ip)
  BY DEF InEnqueue, SendTask
<1>3. CASE Accepts(session)
  <2>1. session \in Session /\ taskCh[session] \in Seq(Allowed) /\ a \in Allowed
    BY <1>3, BoundAssumption DEF ScopeInv, Accepts, ControlOK, Session, PipelineOK, SendTask, QueuesOK
  <2>2. \A g \in Session : taskCh'[g] = IF g = session THEN Append(taskCh[g], a) ELSE taskCh[g]
    BY <1>3, <2>1 DEF ScopeInv, SendTask, PipelineOK
  <2>21. \A j \in DOMAIN Append(taskCh[session], a) :
            \/ j = Len(taskCh[session]) + 1 /\ Append(taskCh[session], a)[j] = a
            \/ j \in DOMAIN taskCh[session] /\ Append(taskCh[session], a)[j] = taskCh[session][j]
    BY <2>1, AppendFacts
  <2>3. \A x : InTasks(x, ip)' => InTasks(x, ip) \/ (a = ip /\ x = y)
    <3> SUFFICES ASSUME NEW x, NEW g \in Session, NEW i \in DOMAIN taskCh'[g],
                        taskCh'[g][i] = ip, x = <<"task", g, i>>
                 PROVE  InTasks(x, ip) \/ (a = ip /\ x = y)
      BY DEF InTasks
    <3>1. CASE g # session
      BY <3>1, <2>2 DEF InTasks
    <3>2. CASE g = session
      <4>1. i \in DOMAIN Append(taskCh[session], a) /\ Append(taskCh[session], a)[i] = ip
        BY <3>2, <2>1, <2>2
      <4>2. \/ i = Len(taskCh[session]) + 1 /\ a = ip
            \/ i \in DOMAIN taskCh[session] /\ taskCh[session][i] = ip
        BY <4>1, <2>21
      <4> QED
        BY <3>2, <4>2, <2>1 DEF InTasks
    <3> QED
      BY <3>1, <3>2
  <2>4. \A x : InTasks(x, ip) \/ InResults(x, ip) \/ InDispatcher(x, ip) \/ InWorker(x, ip) => x # h
    BY PlaceKinds
  <2>6. UNCHANGED inflight
    BY <1>3 DEF SendTask
  <2> HIDE DEF h, y
  <2>7. CASE a = ip
    <3>1. \A x : HoldsProbe(x, ip)' => (HoldsProbe(x, ip) /\ x # h) \/ x = y
      BY <1>0, <1>1, <2>3, <2>4, <2>7, HoldersUnchanged DEF HoldsProbe
    <3> QED
      BY <3>1, <1>2, <2>6, <2>7, SoleMoved DEF HoldsProbe
  <2>8. CASE a # ip
    <3>1. \A x : HoldsProbe(x, ip)' => HoldsProbe(x, ip)
      BY <1>0, <1>1, <2>3, <2>8, HoldersUnchanged DEF HoldsProbe
    <3> QED
      BY <3>1, <2>6, SoleKept
  <2> QED
    BY <2>7, <2>8
<1>4. CASE ~Accepts(session)
  <2>1. UNCHANGED taskCh /\ inflight' = inflight \ {a}
    BY <1>4 DEF SendTask
  <2>2. \A x : InTasks(x, ip) \/ InResults(x, ip) \/ InDispatcher(x, ip) \/ InWorker(x, ip) => x # h
    BY PlaceKinds
  <2> HIDE DEF h
  <2>3. \A x : HoldsProbe(x, ip)' => HoldsProbe(x, ip) /\ (a = ip => x # h)
    BY <1>0, <1>1, <2>1, <2>2, HoldersUnchanged DEF HoldsProbe
  <2>4. CASE a = ip
    BY <1>2, <2>3, <2>4, SoleDropped DEF HoldsProbe
  <2>5. CASE a # ip
    BY <2>1, <2>3, <2>5, SoleKept
  <2> QED
    BY <2>4, <2>5
<1> QED
  BY <1>3, <1>4

\* The dispatcher takes the head of its task channel.
LEMMA TakeSole ==
    ASSUME ScopeInv, NEW ip \in IP, Sole(ip), NEW g \in Session, DispatcherTake(g)
    PROVE  Sole(ip)'
<1> DEFINE b == bound[g]
           a == Head(taskCh[b])
<1>0. UNCHANGED <<inflight, sending, results, worker>>
  BY DEF DispatcherTake, SchedulerOnly, queues
<1>1. b \in Session /\ taskCh[b] \in Seq(Allowed) /\ taskCh[b] # <<>>
  BY DEF DispatcherTake, ScopeInv, Wired, PipelineOK
<1>2. \A f \in Session : taskCh'[f] = IF f = b THEN Tail(taskCh[f]) ELSE taskCh[f]
  BY DEF DispatcherTake, ScopeInv, PipelineOK
<1>3. \A f \in Session : disp'[f].ip = IF f = g THEN a ELSE disp[f].ip
  BY DEF DispatcherTake, ScopeInv, PipelineOK
<1> HIDE DEF b
<1>4. a = ip => InTasks(<<"task", b, 1>>, ip)
  BY <1>1, TailFacts DEF InTasks
<1>5. ASSUME NEW x, InTasks(x, ip)' PROVE \E z : InTasks(z, ip) /\ Shifted("task", b, x, z)
  <2>0. PICK f \in Session : \E i \in DOMAIN taskCh'[f] : taskCh'[f][i] = ip /\ x = <<"task", f, i>>
    BY <1>5 DEF InTasks
  <2>1. PICK i \in DOMAIN taskCh'[f] : taskCh'[f][i] = ip /\ x = <<"task", f, i>>
    BY <2>0
  <2>2. CASE f # b
    BY <2>1, <2>2, <1>2 DEF InTasks, Shifted
  <2>3. CASE f = b
    <3>0. i \in DOMAIN Tail(taskCh[b]) /\ Tail(taskCh[b])[i] = ip
      BY <2>1, <2>3, <1>1, <1>2
    <3>1. i + 1 \in DOMAIN taskCh[b] /\ taskCh[b][i + 1] = ip /\ i \in Nat \ {0}
      BY <3>0, <1>1, TailFacts, Zenon
    <3>2. InTasks(<<"task", b, i + 1>>, ip) /\ Shifted("task", b, x, <<"task", b, i + 1>>)
      BY <2>1, <2>3, <3>1, <1>1 DEF InTasks, Shifted
    <3> QED
      BY <3>2
  <2> QED
    BY <2>2, <2>3
<1>6. \A x : InEnqueue(x, ip) \/ InResults(x, ip) \/ InDispatcher(x, ip) \/ InWorker(x, ip)
             => Shifted("task", b, x, x)
  BY OtherPlace DEF InEnqueue, InResults, InDispatcher, InWorker
<1>7. \A x : InDispatcher(x, ip)' => InDispatcher(x, ip) \/ (a = ip /\ x = <<"dispatcher", g, 0>>)
  BY <1>3 DEF InDispatcher
<1> HIDE DEF a
<1>8. \A x : HoldsProbe(x, ip)' => \/ \E z : HoldsProbe(z, ip) /\ Shifted("task", b, x, z)
                                   \/ a = ip /\ x = <<"dispatcher", g, 0>>
  BY <1>0, <1>5, <1>6, <1>7, HoldersUnchanged DEF HoldsProbe
<1>9. CASE a = ip
  <2>1. HoldsProbe(<<"task", b, 1>>, ip)
    BY <1>4, <1>9 DEF HoldsProbe
  <2>2. \A x : HoldsProbe(x, ip)' => x = <<"dispatcher", g, 0>>
    BY <1>8, <2>1, HeadTaken
  <2> QED
    BY <1>0, <2>1, <2>2 DEF Sole
<1>10. CASE a # ip
  BY <1>0, <1>8, <1>10, SoleShifted
<1> QED
  BY <1>9, <1>10

\* The consumer takes the head of a result channel and gives the mark back.
LEMMA ReceiveSole ==
    ASSUME ScopeInv, NEW ip \in IP, Sole(ip), NEW g \in Session, ConsumerReceive(g)
    PROVE  Sole(ip)'
<1> DEFINE b == con[g].ch
           a == Head(results[b]).ip
<1>0. UNCHANGED <<sending, taskCh, disp, worker>> /\ inflight' = inflight \ {a}
  BY DEF ConsumerReceive
<1>1. b \in Session /\ results[b] \in Seq(Outcome(Allowed)) /\ results[b] # <<>>
  BY DEF ConsumerReceive, ScopeInv, Wired, PipelineOK
<1>2. \A f \in Session : results'[f] = IF f = b THEN Tail(results[f]) ELSE results[f]
  BY DEF ConsumerReceive, ScopeInv, PipelineOK
<1> HIDE DEF b
<1>3. a = ip => InResults(<<"result", b, 1>>, ip)
  BY <1>1, TailFacts DEF InResults
<1>4. ASSUME NEW x, InResults(x, ip)' PROVE \E z : InResults(z, ip) /\ Shifted("result", b, x, z)
  <2>0. PICK f \in Session : \E i \in DOMAIN results'[f] : results'[f][i].ip = ip /\ x = <<"result", f, i>>
    BY <1>4 DEF InResults
  <2>1. PICK i \in DOMAIN results'[f] : results'[f][i].ip = ip /\ x = <<"result", f, i>>
    BY <2>0
  <2>2. CASE f # b
    BY <2>1, <2>2, <1>2 DEF InResults, Shifted
  <2>3. CASE f = b
    <3>0. i \in DOMAIN Tail(results[b]) /\ Tail(results[b])[i].ip = ip
      BY <2>1, <2>3, <1>1, <1>2
    <3>1. i + 1 \in DOMAIN results[b] /\ results[b][i + 1].ip = ip /\ i \in Nat \ {0}
      BY <3>0, <1>1, TailFacts, Zenon
    <3>2. InResults(<<"result", b, i + 1>>, ip) /\ Shifted("result", b, x, <<"result", b, i + 1>>)
      BY <2>1, <2>3, <3>1, <1>1 DEF InResults, Shifted
    <3> QED
      BY <3>2
  <2> QED
    BY <2>2, <2>3
<1>5. \A x : InEnqueue(x, ip) \/ InTasks(x, ip) \/ InDispatcher(x, ip) \/ InWorker(x, ip)
             => Shifted("result", b, x, x)
  BY OtherPlace DEF InEnqueue, InTasks, InDispatcher, InWorker
<1> HIDE DEF a
<1>6. \A x : HoldsProbe(x, ip)' => \E z : HoldsProbe(z, ip) /\ Shifted("result", b, x, z)
  BY <1>0, <1>4, <1>5, HoldersUnchanged DEF HoldsProbe
<1>7. CASE a = ip
  <2>1. HoldsProbe(<<"result", b, 1>>, ip)
    BY <1>3, <1>7 DEF HoldsProbe
  <2>2. \A x : ~HoldsProbe(x, ip)'
    BY <1>6, <2>1, HeadTaken
  <2> QED
    BY <2>2 DEF Sole
<1>8. CASE a # ip
  BY <1>0, <1>6, <1>8, SoleShifted
<1> QED
  BY <1>7, <1>8

\* The dispatcher hands its address to an idle worker.
LEMMA HandSole ==
    ASSUME ScopeInv, NEW ip \in IP, Sole(ip), NEW g \in Session, NEW w \in Worker, DispatcherHand(g, w)
    PROVE  Sole(ip)'
<1> DEFINE h == <<"dispatcher", g, 0>>
           y == <<"worker", g, w>>
<1>0. UNCHANGED <<inflight, sending, taskCh, results>>
  BY DEF DispatcherHand, SchedulerOnly, queues
<1>1. \A f \in Session : disp'[f].ip = IF f = g THEN None ELSE disp[f].ip
  BY DEF DispatcherHand, ScopeInv, PipelineOK
<1>2. \A f \in Session, v \in Worker :
         worker'[f][v].ip = IF f = g /\ v = w THEN disp[g].ip ELSE worker[f][v].ip
  BY DEF DispatcherHand, ScopeInv, PipelineOK
<1>3. None # ip
  BY ScopeAssumption
<1>4. \A x : InDispatcher(x, ip)' => InDispatcher(x, ip) /\ x # h
  BY <1>1, <1>3 DEF InDispatcher
<1>5. \A x : InWorker(x, ip)' => InWorker(x, ip) \/ (disp[g].ip = ip /\ x = y)
  BY <1>2 DEF InWorker
<1>6. disp[g].ip = ip => InDispatcher(h, ip)
  BY DEF InDispatcher
<1>7. \A x : InEnqueue(x, ip) \/ InTasks(x, ip) \/ InResults(x, ip) \/ InWorker(x, ip) => x # h
  BY PlaceKinds
<1> HIDE DEF h, y
<1>8. CASE disp[g].ip = ip
  <2>1. \A x : HoldsProbe(x, ip)' => (HoldsProbe(x, ip) /\ x # h) \/ x = y
    BY <1>0, <1>4, <1>5, <1>7, HoldersUnchanged DEF HoldsProbe
  <2> QED
    BY <2>1, <1>0, <1>6, <1>8, SoleMoved DEF HoldsProbe
<1>9. CASE disp[g].ip # ip
  <2>1. \A x : HoldsProbe(x, ip)' => HoldsProbe(x, ip)
    BY <1>0, <1>4, <1>5, <1>9, HoldersUnchanged DEF HoldsProbe
  <2> QED
    BY <2>1, <1>0, SoleKept
<1> QED
  BY <1>8, <1>9

\* A worker puts its outcome at the end of the result channel.
LEMMA ResultSole ==
    ASSUME ScopeInv, NEW ip \in IP, Sole(ip), NEW g \in Session, NEW w \in Worker, WorkerSend(g, w)
    PROVE  Sole(ip)'
<1> DEFINE b == bound[g]
           out == [ip |-> worker[g][w].ip, res |-> worker[g][w].res]
           h == <<"worker", g, w>>
           y == <<"result", b, Len(results[b]) + 1>>
<1>0. UNCHANGED <<inflight, sending, taskCh, disp>>
  BY DEF WorkerSend, SchedulerOnly, queues
<1>1. b \in Session /\ results[b] \in Seq(Outcome(Allowed))
  BY DEF WorkerSend, ScopeInv, Wired, PipelineOK
<1>2. out \in Outcome(Allowed)
  BY DEF WorkerSend, ScopeInv, Wired, PipelineOK, Outcome, WorkerState
<1>3. CASE UNCHANGED <<worker, results>>
  <2>1. \A x : HoldsProbe(x, ip)' => HoldsProbe(x, ip)
    BY <1>0, <1>3, HoldersUnchanged DEF HoldsProbe
  <2> QED
    BY <2>1, <1>0, SoleKept
<1>4. CASE /\ results' = [results EXCEPT ![b] = Append(@, out)]
           /\ worker' = [worker EXCEPT ![g][w] = [NoProbe EXCEPT !.pc = "idle"]]
  <2>1. \A f \in Session : results'[f] = IF f = b THEN Append(results[f], out) ELSE results[f]
    BY <1>4 DEF ScopeInv, PipelineOK
  <2>2. \A f \in Session, v \in Worker :
           worker'[f][v].ip = IF f = g /\ v = w THEN None ELSE worker[f][v].ip
    BY <1>4 DEF ScopeInv, PipelineOK, NoProbe
  <2>3. None # ip
    BY ScopeAssumption
  <2>4. \A x : InWorker(x, ip)' => InWorker(x, ip) /\ x # h
    BY <2>2, <2>3 DEF InWorker
  <2>5. out.ip = ip => InWorker(h, ip)
    BY DEF InWorker
  <2>51. \A j \in DOMAIN Append(results[b], out) :
            \/ j = Len(results[b]) + 1 /\ Append(results[b], out)[j] = out
            \/ j \in DOMAIN results[b] /\ Append(results[b], out)[j] = results[b][j]
    BY <1>1, <1>2, AppendFacts
  <2> HIDE DEF b, out
  <2>6. ASSUME NEW x, InResults(x, ip)' PROVE InResults(x, ip) \/ (out.ip = ip /\ x = y)
    <3>0. PICK f \in Session : \E i \in DOMAIN results'[f] : results'[f][i].ip = ip /\ x = <<"result", f, i>>
      BY <2>6 DEF InResults
    <3>1. PICK i \in DOMAIN results'[f] : results'[f][i].ip = ip /\ x = <<"result", f, i>>
      BY <3>0
    <3>2. CASE f # b
      BY <3>1, <3>2, <2>1 DEF InResults
    <3>3. CASE f = b
      <4>1. i \in DOMAIN Append(results[b], out) /\ Append(results[b], out)[i].ip = ip
        BY <3>1, <3>3, <2>1, <1>1
      <4>2. \/ i = Len(results[b]) + 1 /\ out.ip = ip
            \/ i \in DOMAIN results[b] /\ results[b][i].ip = ip
        BY <4>1, <2>51
      <4> QED
        BY <3>1, <3>3, <4>2, <1>1 DEF InResults
    <3> QED
      BY <3>2, <3>3
  <2>7. \A x : InEnqueue(x, ip) \/ InTasks(x, ip) \/ InResults(x, ip) \/ InDispatcher(x, ip) => x # h
    BY PlaceKinds
  <2> HIDE DEF h, y
  <2>8. CASE out.ip = ip
    <3>1. \A x : HoldsProbe(x, ip)' => (HoldsProbe(x, ip) /\ x # h) \/ x = y
      BY <1>0, <2>4, <2>6, <2>7, HoldersUnchanged DEF HoldsProbe
    <3> QED
      BY <3>1, <1>0, <2>5, <2>8, SoleMoved DEF HoldsProbe
  <2>9. CASE out.ip # ip
    <3>1. \A x : HoldsProbe(x, ip)' => HoldsProbe(x, ip)
      BY <1>0, <2>4, <2>6, <2>9, HoldersUnchanged DEF HoldsProbe
    <3> QED
      BY <3>1, <1>0, SoleKept
  <2> QED
    BY <2>8, <2>9
<1> QED
  BY <1>3, <1>4 DEF WorkerSend

\* Launching, probing and exiting give no address a new holder.
LEMMA GoroutineSole ==
    ASSUME ScopeInv, NEW ip \in IP, Sole(ip), NEW g \in Session,
           \/ Launch(g) \/ DispatcherExit(g)
           \/ \E w \in Worker : (\E res \in Reach : Probe(g, w, res)) \/ WorkerExit(g, w)
    PROVE  Sole(ip)'
<1>0. UNCHANGED <<inflight, sending, taskCh, results>>
  BY DEF Launch, DispatcherExit, Probe, WorkerExit, SchedulerOnly, queues
<1>1. None # ip
  BY ScopeAssumption
<1>2. \A f \in Session : disp'[f].ip \in {disp[f].ip, None}
  <2>1. CASE Launch(g)
    BY <2>1 DEF Launch, ScopeInv, PipelineOK
  <2>2. CASE DispatcherExit(g)
    BY <2>2 DEF DispatcherExit, ScopeInv, PipelineOK
  <2>3. CASE UNCHANGED disp
    BY <2>3
  <2> QED
    BY <2>1, <2>2, <2>3 DEF Probe, WorkerExit
<1>3. \A f \in Session, v \in Worker : worker'[f][v].ip \in {worker[f][v].ip, None}
  <2>1. CASE Launch(g)
    BY <2>1 DEF Launch, ScopeInv, PipelineOK, NoProbe
  <2>2. CASE DispatcherExit(g)
    BY <2>2 DEF DispatcherExit
  <2>3. ASSUME NEW w \in Worker, NEW res \in Reach, Probe(g, w, res)
        PROVE  \A f \in Session, v \in Worker : worker'[f][v].ip = worker[f][v].ip
    BY <2>3 DEF Probe, ScopeInv, PipelineOK, WorkerState
  <2>4. ASSUME NEW w \in Worker, WorkerExit(g, w)
        PROVE  \A f \in Session, v \in Worker : worker'[f][v].ip \in {worker[f][v].ip, None}
    BY <2>4 DEF WorkerExit, ScopeInv, PipelineOK, NoProbe
  <2> QED
    BY <2>1, <2>2, <2>3, <2>4
<1>4. \A x : InDispatcher(x, ip)' => InDispatcher(x, ip)
  BY <1>1, <1>2 DEF InDispatcher
<1>5. \A x : InWorker(x, ip)' => InWorker(x, ip)
  BY <1>1, <1>3 DEF InWorker
<1>6. \A x : HoldsProbe(x, ip)' => HoldsProbe(x, ip)
  BY <1>0, <1>4, <1>5, HoldersUnchanged DEF HoldsProbe
<1> QED
  BY <1>0, <1>6, SoleKept

LEMMA SoleStep ==
    ASSUME ScopeInv, [Next]_vars, NEW ip \in IP, Sole(ip)
    PROVE  Sole(ip)'
<1>f. ASSUME UNCHANGED <<inflight, sending, taskCh, results, disp, worker>> PROVE Sole(ip)'
  <2>1. \A x : HoldsProbe(x, ip)' => HoldsProbe(x, ip)
    BY <1>f, HoldersUnchanged DEF HoldsProbe
  <2> QED
    BY <1>f, <2>1, SoleKept
<1>1. CASE User
  <2>1. ASSUME NEW a \in SeedInput, AddSeed(a) PROVE Sole(ip)'
    BY <2>1, MarkSole, InputAssumption DEF AddSeed, SeedStep, Caller, pipeline
  <2> QED
    BY <1>1, <2>1, <1>f DEF User, Start, Stop, AddDeviceEvidence, SetPaused, ManagerClearStale,
                            queues, pipeline
<1>2. ASSUME NEW g \in Session, Background(g) PROVE Sole(ip)'
  <2>0. {<<g, "start">>, <<g, "feed">>, <<g, "retest">>} \subseteq Caller
    BY DEF Caller
  <2>1. ASSUME NEW a \in IP, StartSeed(g, a) PROVE Sole(ip)'
    BY <2>0, <2>1, <1>f, MarkSole DEF StartSeed, SeedStep, queues, pipeline
  <2>2. CASE Feed(g)
    <3>1. Head(backlog) \in IP
      BY <2>2, SeqFacts, ScopeAssumption DEF Feed, ScopeInv, QueuesOK
    <3> QED
      BY <2>0, <2>2, <3>1, MarkSole DEF Feed, pipeline
  <2>3. ASSUME NEW a \in IP, RetestEnqueue(g, a) PROVE Sole(ip)'
    BY <2>0, <2>3, MarkSole DEF RetestEnqueue, pipeline
  <2>4. CASE Launch(g)
    BY <2>4, GoroutineSole
  <2>5. CASE Dispatch(g)
    BY <2>5, TakeSole, HandSole, GoroutineSole DEF Dispatch
  <2>6. ASSUME NEW w \in Worker, Work(g, w) PROVE Sole(ip)'
    BY <2>6, ResultSole, GoroutineSole DEF Work
  <2>7. CASE Consume(g)
    BY <2>7, <1>f, ReceiveSole
       DEF Consume, ConsumerEnter, ConsumerRecordSuccess, ConsumerRecordFailure, ConsumerReturn,
           CloseResults, queues
  <2>8. CASE Cancel(g) \/ \E S \in {{"active", "recently_seen"}, {"stale"}} : RetestTick(g, S)
    BY <2>8, <1>f DEF Cancel, RetestTick, queues, pipeline
  <2> QED
    BY <1>2, <2>1, <2>2, <2>3, <2>4, <2>5, <2>6, <2>7, <2>8 DEF Background
<1>3. ASSUME NEW s \in Caller, NEW a \in IP, SendTask(s, a) \/ ExpandSeed(s, a) PROVE Sole(ip)'
  BY <1>3, <1>f, SendSole DEF ExpandSeed, pipeline
<1>4. CASE UNCHANGED vars
  BY <1>4, <1>f DEF vars, queues, pipeline
<1> QED
  BY <1>1, <1>2, <1>3, <1>4 DEF Next

LEMMA SoleInit == ASSUME Init, NEW ip \in IP PROVE Sole(ip)
<1>1. \A x : ~HoldsProbe(x, ip)
  <2>1. None # ip
    BY ScopeAssumption
  <2>2. \A x : ~InEnqueue(x, ip) /\ ~InTasks(x, ip) /\ ~InResults(x, ip)
    BY DEF Init, InEnqueue, InTasks, InResults
  <2>3. \A x : ~InDispatcher(x, ip) /\ ~InWorker(x, ip)
    BY <2>1 DEF Init, InDispatcher, InWorker, NoProbe
  <2> QED
    BY <2>2, <2>3 DEF HoldsProbe
<1> QED
  BY <1>1 DEF Sole

\* enqueue marks an address "unless it is already in flight": for any sessions, workers and
\* queue sizes, however Starts, Stops, retests and seeds interleave, an address has at most
\* one probe under way, and a mark while it has one.
THEOREM PoolProbesOnce == Spec => []AtMostOneProbe
<1> DEFINE OneEach == \A ip \in IP : Sole(ip)
<1>1. Init => OneEach
  BY SoleInit
<1>2. ScopeInv /\ OneEach /\ [Next]_vars => OneEach'
  BY SoleStep
<1>3. HoldersByPlace /\ OneEach => AtMostOneProbe
  <2> SUFFICES ASSUME HoldersByPlace, OneEach, NEW ip \in IP
               PROVE  Cardinality(Holders(ip)) <= 1 /\ (Holders(ip) # {} => ip \in inflight)
    BY DEF AtMostOneProbe
  <2>1. \A x, y \in Holders(ip) : x = y /\ ip \in inflight
    BY DEF HoldersByPlace, Sole
  <2>2. CASE Holders(ip) = {}
    BY <2>2, FS_EmptySet
  <2>3. CASE Holders(ip) # {}
    <3>1. PICK x : Holders(ip) = {x}
      BY <2>1, <2>3
    <3>2. Cardinality(Holders(ip)) = 1
      BY <3>1, FS_Singleton
    <3> QED
      BY <3>2, <2>1
  <2> QED
    BY <2>2, <2>3
<1> HIDE DEF OneEach
<1> QED
  BY <1>1, <1>2, <1>3, Places, ScopeInvariant, PTL DEF Spec

-----------------------------------------------------------------------------
(* A mark outlives its probe only when a goroutine of a cancelled session exits *)

\* ip's mark is held: a place holds its probe, or a goroutine went away.
Held(ip) == ip \in inflight => (\E x : HoldsProbe(x, ip)) \/ GoroutineGone

\* Sessions stay cancelled and launched, and what exited stays so.
LEMMA GoneStays ==
    ASSUME ScopeInv, [Next]_vars, GoroutineGone
    PROVE  GoroutineGone'
<1>1. PICK g \in cancelled \cap launched : disp[g].pc = "exited" \/ \E w \in Worker : worker[g][w].pc = "exited"
  BY DEF GoroutineGone
<1> DEFINE Away == \/ disp'[g].pc = "exited" \/ \E w \in Worker : worker'[g][w].pc = "exited"
<1>2. g \in Session
  BY <1>1 DEF ScopeInv, ControlOK
<1>f. ASSUME UNCHANGED <<disp, worker>> PROVE Away
  BY <1>1, <1>f
<1>3. cancelled \subseteq cancelled' /\ launched \subseteq launched' /\ Away
  <2>1. CASE User
    BY <2>1, <1>f DEF User, Start, Stop, AddSeed, AddDeviceEvidence, SetPaused, ManagerClearStale,
                     control, pipeline
  <2>2. ASSUME NEW s \in Caller, NEW a \in IP, SendTask(s, a) \/ ExpandSeed(s, a)
        PROVE  cancelled \subseteq cancelled' /\ launched \subseteq launched' /\ Away
    BY <2>2, <1>f DEF SendTask, ExpandSeed, control, pipeline
  <2>3. CASE UNCHANGED vars
    BY <2>3, <1>f DEF vars, control, pipeline
  <2>4. ASSUME NEW f \in Session, Background(f)
        PROVE  cancelled \subseteq cancelled' /\ launched \subseteq launched' /\ Away
    <3>1. CASE Launch(f)
      <4>1. f # g
        BY <1>1, <3>1 DEF Launch
      <4>2. disp'[g] = disp[g] /\ worker'[g] = worker[g]
        BY <1>2, <3>1, <4>1 DEF Launch, ScopeInv, PipelineOK
      <4> QED
        BY <1>1, <3>1, <4>2 DEF Launch
    <3>2. CASE DispatcherTake(f) \/ DispatcherExit(f)
      BY <1>1, <1>2, <3>2 DEF DispatcherTake, DispatcherExit, SchedulerOnly, control, ScopeInv, PipelineOK
    <3>3. ASSUME NEW w \in Worker, DispatcherHand(f, w)
          PROVE  cancelled \subseteq cancelled' /\ launched \subseteq launched' /\ Away
      BY <1>1, <1>2, <3>3 DEF DispatcherHand, SchedulerOnly, control, ScopeInv, PipelineOK
    <3>4. ASSUME NEW w \in Worker, Work(f, w)
          PROVE  cancelled \subseteq cancelled' /\ launched \subseteq launched' /\ Away
      <4>1. UNCHANGED <<cancelled, launched>> /\ UNCHANGED disp
        BY <3>4 DEF Work, Probe, WorkerSend, WorkerExit, SchedulerOnly, control
      <4>2. \A v \in Worker : worker[g][v].pc = "exited" => worker'[g][v].pc = "exited"
        <5>1. ASSUME NEW res \in Reach, Probe(f, w, res)
              PROVE  \A v \in Worker : worker[g][v].pc = "exited" => worker'[g][v].pc = "exited"
          <6>1. worker' = [worker EXCEPT ![f][w].pc = "send", ![f][w].res = res] /\ worker[f][w].pc = "probe"
            BY <5>1 DEF Probe
          <6>2. \A v \in Worker : f # g \/ v # w => worker'[g][v] = worker[g][v]
            BY <1>2, <6>1 DEF ScopeInv, PipelineOK
          <6> QED
            BY <6>1, <6>2
        <5>2. CASE WorkerSend(f, w)
          <6>1. worker[f][w].pc = "send"
            BY <5>2 DEF WorkerSend
          <6>2. UNCHANGED worker \/ worker' = [worker EXCEPT ![f][w] = [NoProbe EXCEPT !.pc = "idle"]]
            BY <5>2 DEF WorkerSend
          <6>3. \A v \in Worker : f # g \/ v # w => worker'[g][v] = worker[g][v]
            <7>1. worker \in [Session -> [Worker -> WorkerState(Allowed)]]
              BY DEF ScopeInv, PipelineOK
            <7>2. CASE worker' = [worker EXCEPT ![f][w] = [NoProbe EXCEPT !.pc = "idle"]]
              BY <1>2, <7>1, <7>2
            <7> QED
              BY <6>2, <7>2
          <6> QED
            BY <6>1, <6>3
        <5>3. CASE WorkerExit(f, w)
          BY <1>2, <5>3 DEF WorkerExit, ScopeInv, PipelineOK, NoProbe
        <5> QED
          BY <3>4, <5>1, <5>2, <5>3 DEF Work
      <4> QED
        BY <1>1, <4>1, <4>2
    <3>5. CASE Consume(f)
      BY <3>5, <1>f
         DEF Consume, ConsumerEnter, ConsumerReceive, ConsumerRecordSuccess, ConsumerRecordFailure,
             ConsumerReturn, CloseResults, control
    <3>6. CASE \/ Cancel(f) \/ Feed(f)
               \/ \E a \in IP : StartSeed(f, a) \/ RetestEnqueue(f, a)
               \/ \E S \in {{"active", "recently_seen"}, {"stale"}} : RetestTick(f, S)
      BY <3>6, <1>f DEF Cancel, Feed, StartSeed, RetestEnqueue, RetestTick, control, pipeline
    <3> QED
      BY <2>4, <3>1, <3>2, <3>3, <3>4, <3>5, <3>6 DEF Background, Dispatch
  <2> QED
    BY <2>1, <2>2, <2>3, <2>4 DEF Next
<1> QED
  BY <1>1, <1>3 DEF GoroutineGone

\* A step that gives ip no new mark and leaves a place to its probe keeps its mark held.
LEMMA HeldKept ==
    ASSUME NEW ip, Held(ip), GoroutineGone => GoroutineGone', ip \in inflight' => ip \in inflight,
           \A x : HoldsProbe(x, ip) => \E y : HoldsProbe(y, ip)'
    PROVE  Held(ip)'
  BY DEF Held

\* A new mark comes with an enqueue call that holds the address.
LEMMA MarkHeld ==
    ASSUME NEW ip, Held(ip), GoroutineGone => GoroutineGone', NEW s \in Caller, NEW a, Mark(s, a),
           UNCHANGED <<taskCh, results, disp, worker>>
    PROVE  Held(ip)'
<1>1. \A x : HoldsProbe(x, ip) => HoldsProbe(x, ip)'
  <2>1. \A x : InEnqueue(x, ip) => InEnqueue(x, ip)'
    BY DEF InEnqueue, Mark
  <2> QED
    BY <2>1, HoldersUnchanged DEF HoldsProbe
<1>2. CASE ip \in inflight' => ip \in inflight
  BY <1>1, <1>2, HeldKept
<1>3. CASE ip \in inflight' /\ ip \notin inflight
  <2>1. <<s, ip>> \in sending'
    BY <1>3 DEF Mark
  <2>2. InEnqueue(<<"enqueue", s, 0>>, ip)'
    BY <2>1 DEF InEnqueue
  <2> QED
    BY <2>2 DEF Held, HoldsProbe
<1> QED
  BY <1>2, <1>3

\* The send moves the address to the task channel, or gives the mark back.
LEMMA SendHeld ==
    ASSUME ScopeInv, NEW ip \in IP, Held(ip), GoroutineGone => GoroutineGone',
           NEW s \in Caller, NEW a \in IP, SendTask(s, a)
    PROVE  Held(ip)'
<1>0. UNCHANGED <<results, disp, worker>> /\ inflight' \subseteq inflight
  BY DEF SendTask
<1>1. a # ip => \A x : InEnqueue(x, ip) => InEnqueue(x, ip)'
  BY DEF InEnqueue, SendTask
<1>2. CASE Accepts(session)
  <2>1. session \in Session /\ taskCh[session] \in Seq(Allowed) /\ a \in Allowed
    BY <1>2, BoundAssumption DEF ScopeInv, Accepts, ControlOK, Session, PipelineOK, SendTask, QueuesOK
  <2>2. \A g \in Session : taskCh'[g] = IF g = session THEN Append(taskCh[g], a) ELSE taskCh[g]
    BY <1>2, <2>1 DEF ScopeInv, SendTask, PipelineOK
  <2>3. LET q == Append(taskCh[session], a) IN
           /\ Len(taskCh[session]) + 1 \in DOMAIN q /\ q[Len(taskCh[session]) + 1] = a
           /\ \A i \in DOMAIN taskCh[session] : i \in DOMAIN q /\ q[i] = taskCh[session][i]
    BY <2>1
  <2>4. \A x : InTasks(x, ip) => InTasks(x, ip)'
    <3> SUFFICES ASSUME NEW x, NEW g \in Session, NEW i \in DOMAIN taskCh[g],
                        taskCh[g][i] = ip, x = <<"task", g, i>>
                 PROVE  InTasks(x, ip)'
      BY DEF InTasks
    <3>1. i \in DOMAIN taskCh'[g] /\ taskCh'[g][i] = ip
      BY <2>1, <2>2, <2>3
    <3> QED
      BY <3>1 DEF InTasks
  <2>5. CASE a = ip
    <3>0. PICK k \in Session : \E n \in DOMAIN taskCh'[k] : taskCh'[k][n] = ip
      BY <2>1, <2>2, <2>3, <2>5
    <3>01. PICK n \in DOMAIN taskCh'[k] : taskCh'[k][n] = ip
      BY <3>0
    <3>1. InTasks(<<"task", k, n>>, ip)'
      BY <3>01 DEF InTasks
    <3> QED
      BY <3>1 DEF Held, HoldsProbe
  <2>6. CASE a # ip
    <3>1. \A x : HoldsProbe(x, ip) => HoldsProbe(x, ip)'
      BY <1>0, <1>1, <2>4, <2>6, HoldersUnchanged DEF HoldsProbe
    <3> QED
      BY <1>0, <3>1, HeldKept
  <2> QED
    BY <2>5, <2>6
<1>3. CASE ~Accepts(session)
  <2>1. UNCHANGED taskCh /\ inflight' = inflight \ {a}
    BY <1>3 DEF SendTask
  <2>2. CASE a = ip
    BY <2>1, <2>2 DEF Held
  <2>3. CASE a # ip
    <3>1. \A x : HoldsProbe(x, ip) => HoldsProbe(x, ip)'
      BY <1>0, <1>1, <2>1, <2>3, HoldersUnchanged DEF HoldsProbe
    <3> QED
      BY <1>0, <3>1, HeldKept
  <2> QED
    BY <2>2, <2>3
<1> QED
  BY <1>2, <1>3

\* What is left of a channel when its head is taken.
LEMMA TailKeeps ==
    ASSUME NEW S, NEW s \in Seq(S), s # <<>>, NEW i \in DOMAIN s, i # 1
    PROVE  i - 1 \in DOMAIN Tail(s) /\ Tail(s)[i - 1] = s[i]
<1>1. DOMAIN Tail(s) = 1..Len(s) - 1 /\ DOMAIN s = 1..Len(s) /\ Len(s) \in Nat
  OBVIOUS
<1>2. i - 1 \in 1..Len(s) - 1 /\ (i - 1) + 1 = i
  BY <1>1
<1>3. \A j \in 1..Len(s) - 1 : Tail(s)[j] = s[j + 1]
  OBVIOUS
<1> QED
  BY <1>1, <1>2, <1>3

\* The dispatcher takes an address, or others move up in the task channel.
LEMMA TakeHeld ==
    ASSUME ScopeInv, NEW ip \in IP, Held(ip), GoroutineGone => GoroutineGone',
           NEW g \in Session, DispatcherTake(g)
    PROVE  Held(ip)'
<1> DEFINE b == bound[g]
<1>0. UNCHANGED <<inflight, sending, results, worker>>
  BY DEF DispatcherTake, SchedulerOnly, queues
<1>1. b \in Session /\ taskCh[b] \in Seq(Allowed) /\ taskCh[b] # <<>>
  BY DEF DispatcherTake, ScopeInv, Wired, PipelineOK
<1>2. \A f \in Session : taskCh'[f] = IF f = b THEN Tail(taskCh[f]) ELSE taskCh[f]
  BY DEF DispatcherTake, ScopeInv, PipelineOK
<1>3. \A f \in Session : disp'[f].ip = IF f = g THEN Head(taskCh[b]) ELSE disp[f].ip
  BY DEF DispatcherTake, ScopeInv, PipelineOK
<1>4. disp[g].ip = None
  BY DEF DispatcherTake, ScopeInv, Wired
<1> HIDE DEF b
<1>5. None # ip
  BY ScopeAssumption
<1>6. \A x : InDispatcher(x, ip) => InDispatcher(x, ip)'
  BY <1>3, <1>4, <1>5 DEF InDispatcher
<1>7. ASSUME NEW x, InTasks(x, ip) PROVE \E y : InTasks(y, ip)' \/ InDispatcher(y, ip)'
  <2>0. PICK f \in Session : \E i \in DOMAIN taskCh[f] : taskCh[f][i] = ip
    BY <1>7 DEF InTasks
  <2>1. PICK i \in DOMAIN taskCh[f] : taskCh[f][i] = ip
    BY <2>0
  <2>2. CASE f # b
    BY <1>2, <2>1, <2>2 DEF InTasks
  <2>3. CASE f = b /\ i = 1
    BY <1>1, <1>3, <2>1, <2>3, TailFacts DEF InDispatcher
  <2>4. CASE f = b /\ i # 1
    <3>1. i - 1 \in DOMAIN taskCh'[b] /\ taskCh'[b][i - 1] = ip
      BY <1>1, <1>2, <2>1, <2>4, TailKeeps
    <3> QED
      BY <1>1, <3>1 DEF InTasks
  <2> QED
    BY <2>2, <2>3, <2>4
<1>8. \A x : HoldsProbe(x, ip) => \E y : HoldsProbe(y, ip)'
  BY <1>0, <1>6, <1>7, HoldersUnchanged DEF HoldsProbe
<1> QED
  BY <1>0, <1>8, HeldKept

\* The consumer takes an outcome and releases its mark; others move up.
LEMMA ReceiveHeld ==
    ASSUME ScopeInv, NEW ip \in IP, Held(ip), GoroutineGone => GoroutineGone',
           NEW g \in Session, ConsumerReceive(g)
    PROVE  Held(ip)'
<1> DEFINE b == con[g].ch
<1>0. UNCHANGED <<sending, taskCh, disp, worker>> /\ inflight' = inflight \ {Head(results[b]).ip}
  BY DEF ConsumerReceive
<1>1. b \in Session /\ results[b] \in Seq(Outcome(Allowed)) /\ results[b] # <<>>
  BY DEF ConsumerReceive, ScopeInv, Wired, PipelineOK
<1>2. \A f \in Session : results'[f] = IF f = b THEN Tail(results[f]) ELSE results[f]
  BY DEF ConsumerReceive, ScopeInv, PipelineOK
<1> HIDE DEF b
<1>3. CASE Head(results[b]).ip = ip
  BY <1>0, <1>3 DEF Held
<1>4. CASE Head(results[b]).ip # ip
  <2>1. ASSUME NEW x, InResults(x, ip) PROVE \E y : InResults(y, ip)'
    <3>0. PICK f \in Session : \E i \in DOMAIN results[f] : results[f][i].ip = ip
      BY <2>1 DEF InResults
    <3>1. PICK i \in DOMAIN results[f] : results[f][i].ip = ip
      BY <3>0
    <3>2. CASE f # b
      BY <1>2, <3>1, <3>2 DEF InResults
    <3>3. CASE f = b
      <4>1. i # 1
        BY <1>1, <1>4, <3>1, <3>3, TailFacts
      <4>2. i - 1 \in DOMAIN results'[b] /\ results'[b][i - 1].ip = ip
        BY <1>1, <1>2, <3>1, <3>3, <4>1, TailKeeps
      <4> QED
        BY <1>1, <4>2 DEF InResults
    <3> QED
      BY <3>2, <3>3
  <2>2. \A x : HoldsProbe(x, ip) => \E y : HoldsProbe(y, ip)'
    BY <1>0, <2>1, HoldersUnchanged DEF HoldsProbe
  <2> QED
    BY <1>0, <2>2, HeldKept
<1> QED
  BY <1>3, <1>4

\* The dispatcher hands its address to a worker that had none.
LEMMA HandHeld ==
    ASSUME ScopeInv, NEW ip \in IP, Held(ip), GoroutineGone => GoroutineGone',
           NEW g \in Session, NEW w \in Worker, DispatcherHand(g, w)
    PROVE  Held(ip)'
<1>0. UNCHANGED <<inflight, sending, taskCh, results>>
  BY DEF DispatcherHand, SchedulerOnly, queues
<1>1. \A f \in Session : f # g => disp'[f] = disp[f]
  BY DEF DispatcherHand, ScopeInv, PipelineOK
<1>2. \A f \in Session, v \in Worker :
         worker'[f][v].ip = IF f = g /\ v = w THEN disp[g].ip ELSE worker[f][v].ip
  BY DEF DispatcherHand, ScopeInv, PipelineOK
<1>3. worker[g][w].ip = None /\ None # ip
  BY ScopeAssumption DEF DispatcherHand, ScopeInv, Wired
<1>4. \A x : InWorker(x, ip) => InWorker(x, ip)'
  BY <1>2, <1>3 DEF InWorker
<1>5. \A x : InDispatcher(x, ip) => InDispatcher(x, ip)' \/ InWorker(<<"worker", g, w>>, ip)'
  BY <1>1, <1>2 DEF InDispatcher, InWorker
<1>6. \A x : HoldsProbe(x, ip) => \E y : HoldsProbe(y, ip)'
  BY <1>0, <1>4, <1>5, HoldersUnchanged DEF HoldsProbe
<1> QED
  BY <1>0, <1>6, HeldKept

\* A worker's outcome goes to the result channel.
LEMMA ResultHeld ==
    ASSUME ScopeInv, NEW ip \in IP, Held(ip), GoroutineGone => GoroutineGone',
           NEW g \in Session, NEW w \in Worker, WorkerSend(g, w)
    PROVE  Held(ip)'
<1> DEFINE b == bound[g]
           out == [ip |-> worker[g][w].ip, res |-> worker[g][w].res]
<1>0. UNCHANGED <<inflight, sending, taskCh, disp>>
  BY DEF WorkerSend, SchedulerOnly, queues
<1>1. b \in Session /\ results[b] \in Seq(Outcome(Allowed))
  BY DEF WorkerSend, ScopeInv, Wired, PipelineOK
<1>2. out \in Outcome(Allowed)
  BY DEF WorkerSend, ScopeInv, Wired, PipelineOK, Outcome, WorkerState
<1>3. CASE UNCHANGED <<worker, results>>
  <2>1. \A x : HoldsProbe(x, ip) => HoldsProbe(x, ip)'
    BY <1>0, <1>3, HoldersUnchanged DEF HoldsProbe
  <2> QED
    BY <2>1, <1>0, HeldKept
<1>4. CASE /\ results' = [results EXCEPT ![b] = Append(@, out)]
           /\ worker' = [worker EXCEPT ![g][w] = [NoProbe EXCEPT !.pc = "idle"]]
  <2>1. \A f \in Session : results'[f] = IF f = b THEN Append(results[f], out) ELSE results[f]
    BY <1>4 DEF ScopeInv, PipelineOK
  <2>2. \A f \in Session, v \in Worker : f # g \/ v # w => worker'[f][v] = worker[f][v]
    BY <1>4 DEF ScopeInv, PipelineOK
  <2>3. LET q == Append(results[b], out) IN
           /\ Len(results[b]) + 1 \in DOMAIN q /\ q[Len(results[b]) + 1] = out
           /\ \A i \in DOMAIN results[b] : i \in DOMAIN q /\ q[i] = results[b][i]
    BY <1>1, <1>2
  <2>4. out.ip = worker[g][w].ip
    OBVIOUS
  <2> HIDE DEF b, out
  <2>5. \A x : InResults(x, ip) => InResults(x, ip)'
    <3> SUFFICES ASSUME NEW x, NEW f \in Session, NEW i \in DOMAIN results[f],
                        results[f][i].ip = ip, x = <<"result", f, i>>
                 PROVE  InResults(x, ip)'
      BY DEF InResults
    <3>1. i \in DOMAIN results'[f] /\ results'[f][i].ip = ip
      BY <1>1, <2>1, <2>3
    <3> QED
      BY <3>1 DEF InResults
  <2>6. out.ip = ip => \E y : InResults(y, ip)'
    <3> SUFFICES ASSUME out.ip = ip PROVE \E y : InResults(y, ip)'
      OBVIOUS
    <3>0. PICK k \in Session : \E n \in DOMAIN results'[k] : results'[k][n].ip = ip
      BY <1>1, <2>1, <2>3
    <3>01. PICK n \in DOMAIN results'[k] : results'[k][n].ip = ip
      BY <3>0
    <3>1. InResults(<<"result", k, n>>, ip)'
      BY <3>01 DEF InResults
    <3> QED
      BY <3>1
  <2>7. \A x : InWorker(x, ip) => InWorker(x, ip)' \/ out.ip = ip
    BY <2>2, <2>4 DEF InWorker
  <2>8. \A x : HoldsProbe(x, ip) => \E y : HoldsProbe(y, ip)'
    BY <1>0, <2>5, <2>6, <2>7, HoldersUnchanged DEF HoldsProbe
  <2> QED
    BY <1>0, <2>8, HeldKept
<1> QED
  BY <1>3, <1>4 DEF WorkerSend

\* Only the exit of a dispatcher or a worker of a cancelled session loses an address.
LEMMA GoroutineHeld ==
    ASSUME ScopeInv, NEW ip \in IP, Held(ip), GoroutineGone => GoroutineGone', NEW g \in Session,
           \/ Launch(g) \/ DispatcherExit(g)
           \/ \E w \in Worker : (\E res \in Reach : Probe(g, w, res)) \/ WorkerExit(g, w)
    PROVE  Held(ip)'
<1>1. CASE Launch(g)
  <2>0. UNCHANGED <<inflight, sending, taskCh, results>> /\ g \notin launched
    BY <1>1 DEF Launch, queues
  <2>1. None # ip
    BY ScopeAssumption
  <2>2. disp[g].ip = None /\ \A w \in Worker : worker[g][w].ip = None
    BY <2>0 DEF ScopeInv, Wired
  <2>3. \A f \in Session : f # g => disp'[f] = disp[f] /\ worker'[f] = worker[f]
    BY <1>1 DEF Launch, ScopeInv, PipelineOK
  <2>4. \A x : InDispatcher(x, ip) => InDispatcher(x, ip)'
    BY <2>1, <2>2, <2>3 DEF InDispatcher
  <2>5. \A x : InWorker(x, ip) => InWorker(x, ip)'
    BY <2>1, <2>2, <2>3 DEF InWorker
  <2>6. \A x : HoldsProbe(x, ip) => HoldsProbe(x, ip)'
    BY <2>0, <2>4, <2>5, HoldersUnchanged DEF HoldsProbe
  <2> QED
    BY <2>0, <2>6, HeldKept
<1>2. CASE DispatcherExit(g)
  <2>1. g \in cancelled' \cap launched' /\ disp'[g].pc = "exited"
    BY <1>2 DEF DispatcherExit, SchedulerOnly, control, ScopeInv, Wired, PipelineOK
  <2> QED
    BY <2>1 DEF Held, GoroutineGone
<1>3. ASSUME NEW w \in Worker, WorkerExit(g, w) PROVE Held(ip)'
  <2>1. g \in cancelled' \cap launched' /\ worker'[g][w].pc = "exited"
    BY <1>3 DEF WorkerExit, SchedulerOnly, control, ScopeInv, Wired, PipelineOK, NoProbe
  <2> QED
    BY <2>1 DEF Held, GoroutineGone
<1>4. ASSUME NEW w \in Worker, NEW res \in Reach, Probe(g, w, res) PROVE Held(ip)'
  <2>0. UNCHANGED <<inflight, sending, taskCh, results, disp>>
    BY <1>4 DEF Probe, SchedulerOnly, queues
  <2>1. \A f \in Session, v \in Worker : worker'[f][v].ip = worker[f][v].ip
    BY <1>4 DEF Probe, ScopeInv, PipelineOK, WorkerState
  <2>2. \A x : InWorker(x, ip) => InWorker(x, ip)'
    BY <2>1 DEF InWorker
  <2>3. \A x : HoldsProbe(x, ip) => HoldsProbe(x, ip)'
    BY <2>0, <2>2, HoldersUnchanged DEF HoldsProbe
  <2> QED
    BY <2>0, <2>3, HeldKept
<1> QED
  BY <1>1, <1>2, <1>3, <1>4

LEMMA HeldStep ==
    ASSUME ScopeInv, [Next]_vars, NEW ip \in IP, Held(ip)
    PROVE  Held(ip)'
<1>0. GoroutineGone => GoroutineGone'
  BY GoneStays
<1>f. ASSUME UNCHANGED <<inflight, sending, taskCh, results, disp, worker>> PROVE Held(ip)'
  <2>1. \A x : HoldsProbe(x, ip) => HoldsProbe(x, ip)'
    BY <1>f, HoldersUnchanged DEF HoldsProbe
  <2> QED
    BY <1>0, <1>f, <2>1, HeldKept
<1>1. CASE User
  <2>1. ASSUME NEW a \in SeedInput, AddSeed(a) PROVE Held(ip)'
    BY <1>0, <2>1, MarkHeld DEF AddSeed, SeedStep, Caller, pipeline
  <2> QED
    BY <1>1, <2>1, <1>f DEF User, Start, Stop, AddDeviceEvidence, SetPaused, ManagerClearStale,
                            queues, pipeline
<1>2. ASSUME NEW g \in Session, Background(g) PROVE Held(ip)'
  <2>0. {<<g, "start">>, <<g, "feed">>, <<g, "retest">>} \subseteq Caller
    BY DEF Caller
  <2>1. ASSUME NEW a \in IP, StartSeed(g, a) PROVE Held(ip)'
    BY <1>0, <2>0, <2>1, <1>f, MarkHeld DEF StartSeed, SeedStep, queues, pipeline
  <2>2. CASE Feed(g)
    BY <1>0, <2>0, <2>2, MarkHeld DEF Feed, pipeline
  <2>3. ASSUME NEW a \in IP, RetestEnqueue(g, a) PROVE Held(ip)'
    BY <1>0, <2>0, <2>3, MarkHeld DEF RetestEnqueue, pipeline
  <2>4. CASE Launch(g)
    BY <1>0, <2>4, GoroutineHeld
  <2>5. CASE Dispatch(g)
    BY <1>0, <2>5, TakeHeld, HandHeld, GoroutineHeld DEF Dispatch
  <2>6. ASSUME NEW w \in Worker, Work(g, w) PROVE Held(ip)'
    BY <1>0, <2>6, ResultHeld, GoroutineHeld DEF Work
  <2>7. CASE Consume(g)
    BY <1>0, <2>7, <1>f, ReceiveHeld
       DEF Consume, ConsumerEnter, ConsumerRecordSuccess, ConsumerRecordFailure, ConsumerReturn,
           CloseResults, queues
  <2>8. CASE Cancel(g) \/ \E S \in {{"active", "recently_seen"}, {"stale"}} : RetestTick(g, S)
    BY <2>8, <1>f DEF Cancel, RetestTick, queues, pipeline
  <2> QED
    BY <1>2, <2>1, <2>2, <2>3, <2>4, <2>5, <2>6, <2>7, <2>8 DEF Background
<1>3. ASSUME NEW s \in Caller, NEW a \in IP, SendTask(s, a) \/ ExpandSeed(s, a) PROVE Held(ip)'
  BY <1>0, <1>3, <1>f, SendHeld DEF ExpandSeed, pipeline
<1>4. CASE UNCHANGED vars
  BY <1>4, <1>f DEF vars, queues, pipeline
<1> QED
  BY <1>1, <1>2, <1>3, <1>4 DEF Next

\* enqueue gives the mark back when the queue is full, and consume when an outcome arrives:
\* for any sessions, workers and queue sizes, an address stays marked without a probe under
\* way only when a goroutine of a cancelled session has exited.
THEOREM PoolMarksHeld == Spec => []MarksAreHeld
<1> DEFINE AllHeld == \A ip \in IP : Held(ip)
<1>1. Init => AllHeld
  BY DEF Init, Held
<1>2. ScopeInv /\ AllHeld /\ [Next]_vars => AllHeld'
  BY HeldStep
<1>3. ScopeInv /\ HoldersByPlace /\ AllHeld => MarksAreHeld
  <2> SUFFICES ASSUME ScopeInv, HoldersByPlace, AllHeld, NEW ip \in inflight
               PROVE  Holders(ip) # {} \/ GoroutineGone
    BY DEF MarksAreHeld
  <2>1. ip \in IP
    BY ScopeAssumption DEF ScopeInv, QueuesOK
  <2> QED
    BY <2>1 DEF HoldersByPlace, Held
<1> HIDE DEF AllHeld
<1> QED
  BY <1>1, <1>2, <1>3, Places, ScopeInvariant, PTL DEF Spec

-----------------------------------------------------------------------------
(* No candidate waits twice *)

\* A candidate waits only if its subnet has been expanded, which happens once.
BacklogOfExpanded == \A i \in DOMAIN backlog : SubnetOf[backlog[i]] \in expanded

BacklogInv == BacklogOfExpanded /\ BacklogHasNoDuplicates

LEMMA ConcatFacts ==
    ASSUME NEW S, NEW s \in Seq(S), NEW t \in Seq(S)
    PROVE  \A i \in DOMAIN (s \o t) :
              \/ i \in DOMAIN s /\ (s \o t)[i] = s[i]
              \/ i - Len(s) \in DOMAIN t /\ (s \o t)[i] = t[i - Len(s)] /\ i \in Int
<1>1. /\ DOMAIN (s \o t) = 1..Len(s) + Len(t) /\ DOMAIN s = 1..Len(s) /\ DOMAIN t = 1..Len(t)
      /\ Len(s) \in Nat /\ Len(t) \in Nat
  OBVIOUS
<1> SUFFICES ASSUME NEW i \in 1..Len(s) + Len(t)
             PROVE  \/ i \in 1..Len(s) /\ (s \o t)[i] = s[i]
                    \/ i - Len(s) \in 1..Len(t) /\ (s \o t)[i] = t[i - Len(s)] /\ i \in Int
  BY <1>1
<1>2. CASE i <= Len(s)
  BY <1>1, <1>2
<1>3. CASE i > Len(s)
  BY <1>1, <1>3
<1> QED
  BY <1>1, <1>2, <1>3

LEMMA ExpandBacklog ==
    ASSUME QueuesOK(Allowed), BacklogInv, NEW ip \in IP, ExpandSubnet(ip)
    PROVE  BacklogInv'
<1> DEFINE sub == SubnetOf[ip]
<1>1. CASE UNCHANGED <<expanded, backlog>>
  BY <1>1 DEF BacklogInv, BacklogOfExpanded, BacklogHasNoDuplicates
<1>2. CASE /\ sub \in Expandable \ expanded
           /\ expanded' = expanded \cup {sub}
           /\ backlog' = backlog \o Hosts[sub]
  <2>1. backlog \in Seq(Allowed) /\ Hosts[sub] \in Seq(Allowed) /\ Len(backlog) \in Nat
    BY <1>2, ScopeAssumption DEF QueuesOK
  <2>2. \A i \in DOMAIN backlog' :
           \/ i \in DOMAIN backlog /\ backlog'[i] = backlog[i]
           \/ i - Len(backlog) \in DOMAIN Hosts[sub] /\ backlog'[i] = Hosts[sub][i - Len(backlog)] /\ i \in Int
    BY <1>2, <2>1, ConcatFacts
  <2> HIDE DEF sub
  <2>3. BacklogOfExpanded'
    BY <1>2, <2>2, HostsAssumption DEF BacklogInv, BacklogOfExpanded
  <2>4. ASSUME NEW i \in DOMAIN backlog', NEW j \in DOMAIN backlog', backlog'[i] = backlog'[j]
        PROVE  i = j
    <3>1. CASE i \in DOMAIN backlog /\ backlog'[i] = backlog[i]
      <4>1. SubnetOf[backlog'[i]] # sub
        BY <3>1, <1>2 DEF BacklogInv, BacklogOfExpanded
      <4>2. j \in DOMAIN backlog /\ backlog'[j] = backlog[j]
        BY <4>1, <2>2, <2>4, <1>2, HostsAssumption
      <4> QED
        BY <2>4, <3>1, <4>2 DEF BacklogInv, BacklogHasNoDuplicates
    <3>2. CASE /\ i - Len(backlog) \in DOMAIN Hosts[sub] /\ i \in Int
               /\ backlog'[i] = Hosts[sub][i - Len(backlog)]
      <4>1. SubnetOf[backlog'[i]] = sub
        BY <3>2, <1>2, HostsAssumption
      <4>2. /\ j - Len(backlog) \in DOMAIN Hosts[sub] /\ j \in Int
            /\ backlog'[j] = Hosts[sub][j - Len(backlog)]
        BY <4>1, <2>2, <2>4, <1>2 DEF BacklogInv, BacklogOfExpanded
      <4>3. i - Len(backlog) = j - Len(backlog)
        BY <2>4, <3>2, <4>2, <1>2, HostsAssumption
      <4> QED
        BY <3>2, <4>2, <4>3, <2>1
    <3> QED
      BY <3>1, <3>2, <2>2
  <2> QED
    BY <2>3, <2>4 DEF BacklogInv, BacklogHasNoDuplicates
<1> QED
  BY <1>1, <1>2 DEF ExpandSubnet

LEMMA BacklogStep == ScopeInv /\ BacklogInv /\ [Next]_vars => BacklogInv'
<1> SUFFICES ASSUME ScopeInv, BacklogInv, [Next]_vars PROVE BacklogInv'
  OBVIOUS
<1>0. QueuesOK(Allowed)
  BY DEF ScopeInv
<1>f. ASSUME UNCHANGED <<expanded, backlog>> PROVE BacklogInv'
  BY <1>f DEF BacklogInv, BacklogOfExpanded, BacklogHasNoDuplicates
<1>1. CASE User
  BY <1>1, <1>f DEF User, Start, Stop, AddSeed, SeedStep, AddDeviceEvidence, SetPaused,
                    ManagerClearStale, queues
<1>2. ASSUME NEW g \in Session, Background(g) PROVE BacklogInv'
  <2>1. CASE Feed(g)
    <3>1. backlog \in Seq(Allowed) /\ backlog # <<>> /\ backlog' = Tail(backlog) /\ UNCHANGED expanded
      BY <2>1, <1>0 DEF Feed, QueuesOK
    <3>2. \A i \in DOMAIN Tail(backlog) :
             i + 1 \in DOMAIN backlog /\ Tail(backlog)[i] = backlog[i + 1] /\ i \in Nat \ {0}
      BY <3>1, TailFacts
    <3>3. BacklogOfExpanded'
      BY <3>1, <3>2 DEF BacklogInv, BacklogOfExpanded
    <3>4. BacklogHasNoDuplicates'
      <4> SUFFICES ASSUME NEW i \in DOMAIN Tail(backlog), NEW j \in DOMAIN Tail(backlog),
                          Tail(backlog)[i] = Tail(backlog)[j]
                   PROVE  i = j
        BY <3>1 DEF BacklogHasNoDuplicates
      <4>1. i + 1 = j + 1
        BY <3>2 DEF BacklogInv, BacklogHasNoDuplicates
      <4> QED
        BY <4>1, <3>2
    <3> QED
      BY <3>3, <3>4 DEF BacklogInv
  <2>2. CASE ConsumerRecordSuccess(g)
    <3>1. con[g].ip \in IP
      BY <2>2, ScopeAssumption DEF ConsumerRecordSuccess, ScopeInv, Wired, PipelineOK, ConsumerState
    <3> QED
      BY <2>2, <3>1, <1>0, <1>f, ExpandBacklog DEF ConsumerRecordSuccess
  <2>3. CASE Consume(g) /\ ~ConsumerRecordSuccess(g)
    BY <2>3, <1>f DEF Consume, ConsumerEnter, ConsumerReceive, ConsumerRecordFailure, ConsumerReturn,
                      CloseResults, queues
  <2>4. CASE Dispatch(g)
    BY <2>4, <1>f DEF Dispatch, DispatcherTake, DispatcherHand, DispatcherExit, SchedulerOnly, queues
  <2>5. CASE \E w \in Worker : Work(g, w)
    BY <2>5, <1>f DEF Work, Probe, WorkerSend, WorkerExit, SchedulerOnly, queues
  <2> QED
    BY <1>2, <2>1, <2>2, <2>3, <2>4, <2>5, <1>f
       DEF Background, StartSeed, SeedStep, Launch, Cancel, RetestTick, RetestEnqueue, queues
<1>3. ASSUME NEW s \in Caller, NEW ip \in IP, SendTask(s, ip) \/ ExpandSeed(s, ip) PROVE BacklogInv'
  BY <1>3, <1>0, <1>f, ExpandBacklog DEF SendTask, ExpandSeed
<1>4. CASE UNCHANGED vars
  BY <1>4, <1>f DEF vars, queues
<1> QED
  BY <1>1, <1>2, <1>3, <1>4 DEF Next

\* expandSubnet "turns the /24 around ip into prioritized candidates (once)": no candidate
\* waits twice in the backlog, whoever expands its subnet and however often.
THEOREM PoolBacklogUnique == Spec => []BacklogHasNoDuplicates
<1>1. Init => BacklogInv
  BY DEF Init, BacklogInv, BacklogOfExpanded, BacklogHasNoDuplicates
<1>2. BacklogInv => BacklogHasNoDuplicates
  BY DEF BacklogInv
<1> QED
  BY <1>1, <1>2, BacklogStep, ScopeInvariant, PTL DEF Spec

=============================================================================
