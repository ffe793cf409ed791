--------------------------- MODULE DiscoveryPool ---------------------------
(***************************************************************************)
(* The continuous discovery pool: Manager (apps/desktop/ippool/manager.go) *)
(* and the Scheduler it runs (probe_scheduler.go) around the registry of   *)
(* DevicePool.                                                             *)
(*                                                                         *)
(* A session is one Start.  Each session makes its own task and result     *)
(* channels and its own goroutines: a dispatcher, workers, a consumer and  *)
(* the feed and retest loops.  Nothing waits for the goroutines of a       *)
(* stopped session, so those of two sessions run side by side, and they    *)
(* reach the channels through the Manager's fields, which always name the  *)
(* newest session's.                                                       *)
(*                                                                         *)
(* Left out: batching, metrics and the emitted events (they read the state *)
(* and change none of it), the seeds and warnings lists, timer periods.    *)
(***************************************************************************)
EXTENDS DevicePool, Sequences, Functions

CONSTANTS
    None,             \* no address
    Allowed,          \* addresses ScopeGuard.AllowIP accepts
    Subnet,           \* subnets an address can lie in
    SubnetOf,         \* address -> the subnet around it
    Expandable,       \* subnets AllowCIDR accepts; the others are never enumerated
    Hosts,            \* subnet -> candidates in the order GenerateFromSeed returns them
    Worker,           \* the scheduler's workers
    QueueCap,         \* taskQueueSize
    ResultCap,        \* MaxConcurrency*2
    MaxSessions,      \* bound on the number of Starts explored
    SeedKey, SeedGrade, PingKey, PingGrade,  \* evidence the manager itself attaches
    PauseInput,       \* values SetPaused is called with
    SeedInput,        \* addresses AddSeed is called with
    EvidenceInput     \* addresses AddDeviceEvidence is called with

\* GenerateFromSeed re-checks every host through the ScopeGuard.
ASSUME ScopeAssumption ==
    /\ Allowed \subseteq IP
    /\ None \notin IP
    /\ SubnetOf \in [IP -> Subnet]
    /\ Expandable \subseteq Subnet
    /\ Hosts \in [Subnet -> Seq(Allowed)]

\* It emits addresses of the seed's own subnet, and each once (its seen map).
ASSUME HostsAssumption ==
    \A s \in Expandable :
        /\ \A i \in DOMAIN Hosts[s] : SubnetOf[Hosts[s][i]] = s
        /\ \A i, j \in DOMAIN Hosts[s] : Hosts[s][i] = Hosts[s][j] => i = j

ASSUME BoundAssumption ==
    /\ QueueCap \in Nat
    /\ ResultCap \in Nat \ {0}
    /\ MaxSessions \in Nat \ {0}

ASSUME EvidenceAssumption ==
    /\ SeedKey \in EvidenceKey /\ SeedGrade \in Grade
    /\ PingKey \in EvidenceKey /\ PingGrade \in Grade

ASSUME InputAssumption ==
    PauseInput \subseteq BOOLEAN /\ SeedInput \subseteq IP /\ EvidenceInput \subseteq IP

Session == 1..MaxSessions

\* The goroutines that call enqueue: Start itself, the loops of a session, AddSeed.
Caller == (Session \X {"start", "feed", "retest"}) \cup {<<0, "AddSeed">>}

VARIABLES
    running, paused,
    session,    \* sessions begun; m.taskCh and m.results are the channels of this one
    cancelled,  \* sessions whose context is cancelled
    seeds,      \* per session: seeds Start has not added yet
    launched,   \* sessions whose goroutines Start has spawned
    expanded,   \* subnets already turned into candidates
    backlog,    \* candidates waiting to be fed
    inflight,   \* addresses marked in flight
    sending,    \* <<caller, ip>>: enqueue has marked ip and not yet sent it
    expanding,  \* <<caller, ip>>: addSeedLocked calls expandSubnet(ip) next
    due,        \* per session: addresses a retest tick selected and has not enqueued yet
    taskCh,     \* per session: task channel
    results,    \* per session: result channel
    closed,     \* sessions whose result channel is closed
    bound,      \* per session: the session whose channels its scheduler was given
    disp,       \* per session: dispatcher, [pc, ip]
    worker,     \* per session and worker: [pc, ip, res]
    con,        \* per session: consumer, [pc, ch, ip, res]
    panicked    \* an operation on a closed channel has ended the process

control == <<running, paused, session, cancelled, seeds, launched>>
queues == <<expanded, backlog, inflight, sending, expanding, due>>
pipeline == <<taskCh, results, closed, bound, disp, worker, con>>
vars == <<poolVars, control, queues, pipeline, panicked>>

Reach == {"up", "down"}

NoProbe == [pc |-> "exited", ip |-> None, res |-> "down"]

\* A consumer outside its select holds no channel (0) and no outcome.
ConsumerAt(pc) == [pc |-> pc, ch |-> 0, ip |-> None, res |-> "down"]

ControlOK ==
    /\ running \in BOOLEAN /\ paused \in BOOLEAN /\ panicked \in BOOLEAN
    /\ session \in 0..MaxSessions
    /\ cancelled \subseteq Session /\ launched \subseteq Session
    /\ seeds \in [Session -> SUBSET IP]

\* The queues and the pipeline hold addresses of A only.
QueuesOK(A) ==
    /\ expanded \subseteq Subnet
    /\ backlog \in Seq(A)
    /\ inflight \subseteq A
    /\ sending \subseteq Caller \X A
    /\ expanding \subseteq Caller \X A
    /\ due \in [Session -> SUBSET A]

Outcome(A) == [ip : A, res : Reach]

WorkerState(A) ==
    [pc : {"idle", "probe", "send", "exited"}, ip : A \cup {None}, res : Reach]

ConsumerState(A) ==
    [pc : {"enter", "recv", "record", "close", "exited"},
     ch : 0..MaxSessions, ip : A \cup {None}, res : Reach]

PipelineOK(A) ==
    /\ taskCh \in [Session -> Seq(A)]
    /\ results \in [Session -> Seq(Outcome(A))]
    /\ closed \subseteq Session
    /\ bound \in [Session -> 0..MaxSessions]
    /\ disp \in [Session -> [pc : {"wait", "hand", "exited"}, ip : A \cup {None}]]
    /\ worker \in [Session -> [Worker -> WorkerState(A)]]
    /\ con \in [Session -> ConsumerState(A)]

WithinBounds ==
    \A g \in Session : Len(taskCh[g]) <= QueueCap /\ Len(results[g]) <= ResultCap

TypeOK == PoolTypeOK /\ ControlOK /\ QueuesOK(IP) /\ PipelineOK(IP) /\ WithinBounds

Init ==
    /\ PoolInit
    /\ running = FALSE /\ paused = FALSE /\ panicked = FALSE
    /\ session = 0
    /\ cancelled = {} /\ launched = {} /\ closed = {}
    /\ seeds = [g \in Session |-> {}]
    /\ due = [g \in Session |-> {}]
    /\ expanded = {} /\ backlog = <<>> /\ inflight = {} /\ sending = {} /\ expanding = {}
    /\ taskCh = [g \in Session |-> <<>>]
    /\ results = [g \in Session |-> <<>>]
    /\ bound = [g \in Session |-> 0]
    /\ disp = [g \in Session |-> [pc |-> "exited", ip |-> None]]
    /\ worker = [g \in Session |-> [w \in Worker |-> NoProbe]]
    /\ con = [g \in Session |-> ConsumerAt("exited")]

-----------------------------------------------------------------------------
(* Steps shared by several operations *)

\* enqueue, first half: mark the address unless it is already in flight.
\* (Mutant: the in-flight check is dropped.)
MarkAnyway(s, ip) ==
    /\ inflight' = inflight \cup {ip}
    /\ sending' = sending \cup {<<s, ip>>}

Mark(s, ip) ==
    IF ip \in inflight
    THEN UNCHANGED <<inflight, sending>>
    ELSE /\ inflight' = inflight \cup {ip}
         /\ sending' = sending \cup {<<s, ip>>}

\* s has no call of its own under way.
Ready(s) == \A ip \in IP : <<s, ip>> \notin sending \cup expanding

\* expandSubnet: while not paused, a subnet becomes candidates once.
\* (Mutant: the expanded set is not consulted.)
ExpandSubnetAgain(ip) ==
    IF ~paused /\ SubnetOf[ip] \in Expandable
    THEN /\ expanded' = expanded \cup {SubnetOf[ip]}
         /\ backlog' = backlog \o Hosts[SubnetOf[ip]]
    ELSE UNCHANGED <<expanded, backlog>>

ExpandSubnet(ip) ==
    IF ~paused /\ SubnetOf[ip] \in Expandable \ expanded
    THEN /\ expanded' = expanded \cup {SubnetOf[ip]}
         /\ backlog' = backlog \o Hosts[SubnetOf[ip]]
    ELSE UNCHANGED <<expanded, backlog>>

\* addSeedLocked after its scope check, up to the send; expandSubnet comes after it.
SeedStep(s, ip) ==
    /\ EnsureWithEvidence(ip, SeedKey, SeedGrade)
    /\ Mark(s, ip)
    /\ expanding' = expanding \cup {<<s, ip>>}
    /\ UNCHANGED <<expanded, backlog, due>>

-----------------------------------------------------------------------------
(* Operations of the Manager *)

\* Start up to its first unlock: refused while running; new channels, which the
\* fields name from here on.
Start(S) ==
    /\ ~running
    /\ session < MaxSessions
    /\ running' = TRUE
    /\ paused' = FALSE
    /\ session' = session + 1
    /\ seeds' = [seeds EXCEPT ![session + 1] = S]
    /\ UNCHANGED <<cancelled, launched, poolVars, queues, pipeline, panicked>>

\* Start's loop over its seeds.  (Mutant: seeds are not shown to the ScopeGuard.)
StartSeedUnguarded(g, ip) ==
    /\ ip \in seeds[g] /\ Ready(<<g, "start">>)
    /\ seeds' = [seeds EXCEPT ![g] = @ \ {ip}]
    /\ SeedStep(<<g, "start">>, ip)
    /\ UNCHANGED <<running, paused, session, cancelled, launched, pipeline, panicked>>

StartSeed(g, ip) ==
    /\ ip \in seeds[g] /\ Ready(<<g, "start">>)
    /\ seeds' = [seeds EXCEPT ![g] = @ \ {ip}]
    /\ IF ip \in Allowed THEN SeedStep(<<g, "start">>, ip) ELSE UNCHANGED <<poolVars, queues>>
    /\ UNCHANGED <<running, paused, session, cancelled, launched, pipeline, panicked>>

\* Start's go statements.  The scheduler gets the channels the fields name now.
Launch(g) ==
    /\ g \in 1..session
    /\ g \notin launched
    /\ seeds[g] = {} /\ Ready(<<g, "start">>)
    /\ launched' = launched \cup {g}
    /\ bound' = [bound EXCEPT ![g] = session]
    /\ disp' = [disp EXCEPT ![g].pc = "wait"]
    /\ worker' = [worker EXCEPT ![g] = [w \in Worker |-> [NoProbe EXCEPT !.pc = "idle"]]]
    /\ con' = [con EXCEPT ![g] = ConsumerAt("enter")]
    /\ UNCHANGED <<running, paused, session, cancelled, seeds, poolVars, queues,
                   taskCh, results, closed, panicked>>

\* Stop under the lock; the context is cancelled after the unlock.
Stop ==
    /\ running
    /\ running' = FALSE
    /\ UNCHANGED <<paused, session, cancelled, seeds, launched, poolVars, queues,
                   pipeline, panicked>>

Cancel(g) ==
    /\ g \in 1..session \ cancelled
    /\ g < session \/ ~running
    /\ cancelled' = cancelled \cup {g}
    /\ UNCHANGED <<running, paused, session, seeds, launched, poolVars, queues,
                   pipeline, panicked>>

\* AddSeed, running or not.
AddSeed(ip) ==
    /\ ip \in Allowed
    /\ SeedStep(<<0, "AddSeed">>, ip)
    /\ UNCHANGED <<control, pipeline, panicked>>

\* AddDeviceEvidence: no scope check, and nothing is enqueued.
AddDeviceEvidence(ip, key, grade) ==
    /\ EnsureWithEvidence(ip, key, grade)
    /\ UNCHANGED <<control, queues, pipeline, panicked>>

SetPaused(p) ==
    /\ paused' = p
    /\ UNCHANGED <<running, session, cancelled, seeds, launched, poolVars, queues,
                   pipeline, panicked>>

ManagerClearStale ==
    /\ ClearStale
    /\ UNCHANGED <<control, queues, pipeline, panicked>>

-----------------------------------------------------------------------------
(* The feed and retest loops of a session *)

\* A loop that sees both a tick and the cancellation may take either.
Feed(g) ==
    /\ g \in launched /\ Ready(<<g, "feed">>)
    /\ ~paused
    /\ backlog # <<>>
    /\ backlog' = Tail(backlog)
    /\ EnsureCandidate(Head(backlog))
    /\ Mark(<<g, "feed">>, Head(backlog))
    /\ UNCHANGED <<control, expanded, expanding, due, pipeline, panicked>>

\* A tick of one of the two retest loops.
RetestTick(g, S) ==
    /\ g \in launched
    /\ due' = [due EXCEPT ![g] = @ \cup {ip \in IP : status[ip] \in S}]
    /\ UNCHANGED <<control, poolVars, expanded, backlog, inflight, sending, expanding, pipeline,
                   panicked>>

RetestEnqueue(g, ip) ==
    /\ ip \in due[g] /\ Ready(<<g, "retest">>)
    /\ due' = [due EXCEPT ![g] = @ \ {ip}]
    /\ Mark(<<g, "retest">>, ip)
    /\ UNCHANGED <<control, poolVars, expanded, backlog, expanding, pipeline, panicked>>

\* enqueue, second half: a send that never blocks.  Before the first Start the
\* channel is nil; a full queue, likewise, gives the mark back.
Accepts(g) == g > 0 /\ Len(taskCh[g]) < QueueCap

\* (Mutant: the mark of a dropped address is kept.)
SendTaskKeepMark(s, ip) ==
    /\ <<s, ip>> \in sending
    /\ sending' = sending \ {<<s, ip>>}
    /\ UNCHANGED inflight
    /\ taskCh' = IF Accepts(session)
                 THEN [taskCh EXCEPT ![session] = Append(@, ip)]
                 ELSE taskCh
    /\ UNCHANGED <<control, poolVars, expanded, backlog, expanding, due,
                   results, closed, bound, disp, worker, con, panicked>>

SendTask(s, ip) ==
    /\ <<s, ip>> \in sending
    /\ sending' = sending \ {<<s, ip>>}
    /\ IF Accepts(session)
       THEN /\ taskCh' = [taskCh EXCEPT ![session] = Append(@, ip)]
            /\ UNCHANGED inflight
       ELSE /\ inflight' = inflight \ {ip}
            /\ UNCHANGED taskCh
    /\ UNCHANGED <<control, poolVars, expanded, backlog, expanding, due,
                   results, closed, bound, disp, worker, con, panicked>>

\* addSeedLocked calls expandSubnet after enqueue has returned.
ExpandSeed(s, ip) ==
    /\ <<s, ip>> \in expanding \ sending
    /\ expanding' = expanding \ {<<s, ip>>}
    /\ ExpandSubnet(ip)
    /\ UNCHANGED <<control, poolVars, inflight, sending, due, pipeline, panicked>>

-----------------------------------------------------------------------------
(* Scheduler.Run: dispatcher and workers *)

SchedulerOnly == UNCHANGED <<control, poolVars, queues, closed, bound>>

DispatcherTake(g) ==
    /\ disp[g].pc = "wait"
    /\ taskCh[bound[g]] # <<>>
    /\ disp' = [disp EXCEPT ![g] = [pc |-> "hand", ip |-> Head(taskCh[bound[g]])]]
    /\ taskCh' = [taskCh EXCEPT ![bound[g]] = Tail(@)]
    /\ SchedulerOnly
    /\ UNCHANGED <<results, worker, con, panicked>>

\* The rendezvous on the unbuffered work channel.
DispatcherHand(g, w) ==
    /\ disp[g].pc = "hand"
    /\ worker[g][w].pc = "idle"
    /\ worker' = [worker EXCEPT ![g][w] = [pc |-> "probe", ip |-> disp[g].ip, res |-> "down"]]
    /\ disp' = [disp EXCEPT ![g] = [pc |-> "wait", ip |-> None]]
    /\ SchedulerOnly
    /\ UNCHANGED <<taskCh, results, con, panicked>>

\* Cancelled while waiting, sleeping or handing over: what it holds is lost.
DispatcherExit(g) ==
    /\ g \in cancelled
    /\ disp[g].pc \in {"wait", "hand"}
    /\ disp' = [disp EXCEPT ![g] = [pc |-> "exited", ip |-> None]]
    /\ SchedulerOnly
    /\ UNCHANGED <<taskCh, results, worker, con, panicked>>

\* The network decides; a cancelled probe usually reports unreachable.
Probe(g, w, res) ==
    /\ worker[g][w].pc = "probe"
    /\ worker' = [worker EXCEPT ![g][w].pc = "send", ![g][w].res = res]
    /\ SchedulerOnly
    /\ UNCHANGED <<taskCh, results, disp, con, panicked>>

\* A send on a closed channel panics.
WorkerSend(g, w) ==
    LET ch == bound[g]
        out == [ip |-> worker[g][w].ip, res |-> worker[g][w].res]
    IN  /\ worker[g][w].pc = "send"
        /\ \/ /\ ch \in closed
              /\ panicked' = TRUE
              /\ UNCHANGED <<worker, results>>
           \/ /\ ch \notin closed
              /\ Len(results[ch]) < ResultCap
              /\ results' = [results EXCEPT ![ch] = Append(@, out)]
              /\ worker' = [worker EXCEPT ![g][w] = [NoProbe EXCEPT !.pc = "idle"]]
              /\ UNCHANGED panicked
        /\ SchedulerOnly
        /\ UNCHANGED <<taskCh, disp, con>>

\* Cancelled while idle or sending; an outcome it holds is lost.
WorkerExit(g, w) ==
    /\ g \in cancelled
    /\ worker[g][w].pc \in {"idle", "send"}
    /\ worker' = [worker EXCEPT ![g][w] = NoProbe]
    /\ SchedulerOnly
    /\ UNCHANGED <<taskCh, results, disp, con, panicked>>

-----------------------------------------------------------------------------
(* consume and the goroutine around it *)

\* Each turn of the loop reads the field m.results anew.
ConsumerEnter(g) ==
    /\ con[g].pc = "enter"
    /\ con' = [con EXCEPT ![g].pc = "recv", ![g].ch = session]
    /\ UNCHANGED <<control, poolVars, queues, taskCh, results, closed, bound,
                   disp, worker, panicked>>

\* An outcome arrives: the in-flight mark is released before it is recorded.
\* (Mutant: only an address that answered loses its mark.)
ConsumerReceiveSuccessOnly(g) ==
    LET ch == con[g].ch IN
    /\ con[g].pc = "recv"
    /\ results[ch] # <<>>
    /\ con' = [con EXCEPT ![g] = [pc |-> "record", ch |-> 0, ip |-> Head(results[ch]).ip,
                                  res |-> Head(results[ch]).res]]
    /\ results' = [results EXCEPT ![ch] = Tail(@)]
    /\ inflight' = inflight \ {out.ip : out \in {o \in {Head(results[ch])} : o.res = "up"}}
    /\ UNCHANGED <<control, poolVars, expanded, backlog, sending, expanding, due,
                   taskCh, closed, bound, disp, worker, panicked>>

ConsumerReceive(g) ==
    LET ch == con[g].ch IN
    /\ con[g].pc = "recv"
    /\ results[ch] # <<>>
    /\ con' = [con EXCEPT ![g] = [pc |-> "record", ch |-> 0, ip |-> Head(results[ch]).ip,
                                  res |-> Head(results[ch]).res]]
    /\ results' = [results EXCEPT ![ch] = Tail(@)]
    /\ inflight' = inflight \ {Head(results[ch]).ip}
    /\ UNCHANGED <<control, poolVars, expanded, backlog, sending, expanding, due,
                   taskCh, closed, bound, disp, worker, panicked>>

\* RecordSuccess with its evidence, and the expansion of the subnet of a device
\* that answers for the first time.
ConsumerRecordSuccess(g) ==
    LET ip == con[g].ip IN
    /\ con[g].pc = "record"
    /\ con[g].res = "up"
    /\ RecordSuccess(ip, PingKey, PingGrade)
    /\ IF responded[ip] THEN UNCHANGED <<expanded, backlog>> ELSE ExpandSubnet(ip)
    /\ con' = [con EXCEPT ![g] = ConsumerAt("enter")]
    /\ UNCHANGED <<control, inflight, sending, expanding, due, taskCh, results, closed,
                   bound, disp, worker, panicked>>

ConsumerRecordFailure(g) ==
    /\ con[g].pc = "record"
    /\ con[g].res = "down"
    /\ RecordFailure(con[g].ip)
    /\ con' = [con EXCEPT ![g] = ConsumerAt("enter")]
    /\ UNCHANGED <<control, queues, taskCh, results, closed, bound, disp, worker, panicked>>

\* consume returns on cancellation or when it finds its channel closed and drained.
ConsumerReturn(g) ==
    /\ con[g].pc = "recv"
    /\ g \in cancelled \/ (con[g].ch \in closed /\ results[con[g].ch] = <<>>)
    /\ con' = [con EXCEPT ![g] = ConsumerAt("close")]
    /\ UNCHANGED <<control, poolVars, queues, taskCh, results, closed, bound,
                   disp, worker, panicked>>

\* close(m.results): the channel the field names now; a second close panics.
CloseResults(g) ==
    /\ con[g].pc = "close"
    /\ IF session \in closed
       THEN panicked' = TRUE /\ UNCHANGED closed
       ELSE closed' = closed \cup {session} /\ UNCHANGED panicked
    /\ con' = [con EXCEPT ![g] = ConsumerAt("exited")]
    /\ UNCHANGED <<control, poolVars, queues, taskCh, results, bound, disp, worker>>

-----------------------------------------------------------------------------

Dispatch(g) ==
    \/ DispatcherTake(g)
    \/ \E w \in Worker : DispatcherHand(g, w)
    \/ DispatcherExit(g)

Work(g, w) ==
    \/ \E res \in Reach : Probe(g, w, res)
    \/ WorkerSend(g, w)
    \/ WorkerExit(g, w)

Consume(g) ==
    \/ ConsumerEnter(g)
    \/ ConsumerReceive(g)
    \/ ConsumerRecordSuccess(g)
    \/ ConsumerRecordFailure(g)
    \/ ConsumerReturn(g)
    \/ CloseResults(g)

User ==
    \/ \E S \in SUBSET IP : Start(S)
    \/ Stop
    \/ \E ip \in SeedInput : AddSeed(ip)
    \/ \E ip \in EvidenceInput, k \in EvidenceKey, gr \in Grade : AddDeviceEvidence(ip, k, gr)
    \/ \E p \in PauseInput : SetPaused(p)
    \/ ManagerClearStale

Background(g) ==
    \/ \E ip \in IP : StartSeed(g, ip)
    \/ Launch(g)
    \/ Cancel(g)
    \/ Feed(g)
    \/ \E S \in {{"active", "recently_seen"}, {"stale"}} : RetestTick(g, S)
    \/ \E ip \in IP : RetestEnqueue(g, ip)
    \/ Dispatch(g)
    \/ \E w \in Worker : Work(g, w)
    \/ Consume(g)

Next ==
    /\ ~panicked
    /\ \/ User
       \/ \E g \in Session : Background(g)
       \/ \E s \in Caller, ip \in IP : SendTask(s, ip) \/ ExpandSeed(s, ip)

Spec == Init /\ [][Next]_vars

\* Goroutines that are not blocked get to run; ticks come while their loop runs.
\* Nothing is assumed of the user, and nothing of what the network answers.
Fairness ==
    /\ \A s \in Caller, ip \in IP : WF_vars(~panicked /\ (SendTask(s, ip) \/ ExpandSeed(s, ip)))
    /\ \A g \in Session :
          /\ WF_vars(~panicked /\ \E ip \in IP : StartSeed(g, ip))
          /\ WF_vars(~panicked /\ Launch(g))
          /\ WF_vars(~panicked /\ Cancel(g))
          /\ WF_vars(~panicked /\ g \notin cancelled /\ Feed(g))
          /\ WF_vars(~panicked /\ \E ip \in IP : RetestEnqueue(g, ip))
          /\ WF_vars(~panicked /\ Dispatch(g))
          /\ \A w \in Worker : WF_vars(~panicked /\ Work(g, w))
          /\ WF_vars(~panicked /\ Consume(g))

FairSpec == Spec /\ Fairness
-----------------------------------------------------------------------------
(* Properties *)

\* The places that hold a probe of ip between enqueue and the consumer.
Holders(ip) ==
    LET at(kind, g, S) == {<<kind, g, i>> : i \in S} IN
    {<<"enqueue", s, 0>> : s \in {t \in Caller : <<t, ip>> \in sending}}
    \cup (UNION {at("task", g, {i \in DOMAIN taskCh[g] : taskCh[g][i] = ip}) : g \in Session})
    \cup (UNION {at("result", g, {i \in DOMAIN results[g] : results[g][i].ip = ip}) : g \in Session})
    \cup {<<"dispatcher", g, 0>> : g \in {h \in Session : disp[h].ip = ip}}
    \cup (UNION {at("worker", g, {w \in Worker : worker[g][w].ip = ip}) : g \in Session})

\* "unless it is already in flight" (enqueue): an address is never probed twice at
\* once, by one session or by two, and whatever holds a probe of it is covered by
\* its in-flight mark.
AtMostOneProbe ==
    \A ip \in IP :
        /\ Cardinality(Holders(ip)) <= 1
        /\ Holders(ip) # {} => ip \in inflight

\* A goroutine of a cancelled session has exited, and the address it held is lost.
GoroutineGone ==
    \E g \in cancelled \cap launched :
        disp[g].pc = "exited" \/ \E w \in Worker : worker[g][w].pc = "exited"

\* An address in flight is skipped by every loop, so a mark that outlives its probe shuts
\* the address out: seeds, feeds and retests of two sessions and the old session's
\* channels never leave a mark without a probe.  Only what a goroutine of a cancelled
\* session held when it exited may stay marked.
MarksAreHeld ==
    \A ip \in inflight : Holders(ip) # {} \/ GoroutineGone

\* The safety contract of the package: "Only RFC1918 / link-local / RFC4193 targets
\* are ever probed".  AddDeviceEvidence puts addresses in the registry without a
\* scope check, yet none of them ever reaches the backlog, a retest list, the probe
\* pipeline or the map.
InScope ==
    /\ Range(backlog) \subseteq Allowed
    /\ inflight \subseteq Allowed
    /\ \A g \in Session : due[g] \subseteq Allowed
    /\ \A ip \in IP \ Allowed : Holders(ip) = {} /\ ~responded[ip]

\* A goroutine that has not exited belongs to a launched session and has the channels
\* it needs, and it holds an address exactly where its code has one in hand.
Wired ==
    /\ launched \subseteq 1..session
    /\ \A g \in Session :
          /\ g \in launched => bound[g] \in Session
          /\ disp[g].pc # "exited" => g \in launched
          /\ disp[g].pc = "hand" <=> disp[g].ip # None
          /\ con[g].pc # "exited" => g \in launched
          /\ con[g].pc = "recv" => con[g].ch \in Session
          /\ con[g].pc = "record" <=> con[g].ip # None
          /\ \A w \in Worker :
                /\ worker[g][w].pc # "exited" => g \in launched
                /\ worker[g][w].pc \in {"probe", "send"} <=> worker[g][w].ip # None

\* The inductive invariant behind InScope: only allowed addresses circulate, which the
\* retest loops keep up because only a device that was probed is ever on the map.
ScopeInv ==
    /\ PoolTypeOK
    /\ ControlOK
    /\ QueuesOK(Allowed)
    /\ PipelineOK(Allowed)
    /\ Wired
    /\ MapShowsRespondersOnly
    /\ \A ip \in IP : responded[ip] => ip \in Allowed

\* "turns the /24 around ip into prioritized candidates (once)" (expandSubnet): however
\* seeds, first answers, pauses and restarts interleave, no candidate waits twice.
BacklogHasNoDuplicates ==
    \A i, j \in DOMAIN backlog : backlog[i] = backlog[j] => i = j

\* manager.go, at close(m.results): "safe: scheduler has returned by the time ctx is
\* done".  No worker sends on a closed result channel and none is closed twice.
NoPanic == ~panicked

\* enqueue, "release the in-flight mark so it can be retried later": while the session runs that
\* marked it, an address in flight is released again, so that it can be probed again.
MarkReleased ==
    \A ip \in IP : (ip \in inflight) ~> (ip \notin inflight \/ ~running \/ panicked)

=============================================================================
