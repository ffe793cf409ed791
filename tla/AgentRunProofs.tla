--------------------------- MODULE AgentRunProofs ---------------------------
(***************************************************************************)
(* Proofs about the agent's concurrent stages, for any number of items per *)
(* stage, any semaphore capacity and any rate limit.                       *)
(***************************************************************************)
EXTENDS AgentRun, FiniteSetTheorems, TLAPS

-----------------------------------------------------------------------------
(* The inductive invariant. RunTypeOK is not inductive: that a release     *)
(* keeps sem a natural number rests on the slots being counted.            *)

JobState == {"none", "waiting", "running", "panicked", "written", "released", "done"}

Holders == {i \in Items : job[i] \in Holding}
Started == {i \in Items : job[i] \notin {"none", "waiting"} /\ slot[i] # "cancelled"}

\* What the goroutine of item i may be doing, and what its slot then holds.
JobOK(i) ==
    /\ job[i] = "none" <=> i >= next
    /\ job[i] \in {"none", "waiting", "running", "panicked"} => slot[i] = "none"
    /\ job[i] \in {"written", "released", "done"} => slot[i] \in Verdicts(phase)
    /\ job[i] = "waiting" => phase = "lan"
    /\ job[i] = "panicked" => phase = "classify"

JobsOK == phase \in Stages => \A i \in Items : JobOK(i)

\* The loop ends at the end of the list; only a sweep leaves it early, after the deadline.
LoopOK ==
    /\ phase \notin Stages => loop = "top"
    /\ phase \in Stages /\ loop = "over" => next = Width[phase] + 1 \/ (expired /\ phase \in Sweeps)

\* The semaphore counts the goroutines that hold a slot.
SlotsOK == phase \in Pooled => sem = Cardinality(Holders) /\ sem <= Limit[phase]

\* Every token ever handed out was there at the start or came with a tick.
TokensOK == phase = "lan" => Cardinality(Started) + tokens <= Burst + ticks

RunInv == RunTypeOK /\ JobsOK /\ LoopOK /\ SlotsOK /\ TokensOK

-----------------------------------------------------------------------------
(* Counting *)

LEMMA StageFacts ==
    /\ \A p \in Stages : Width[p] \in Nat /\ Limit[p] \in Nat \ {0}
    /\ Burst \in Nat \ {0} /\ MaxTicks \in Nat
    /\ Pooled \subseteq Stages /\ Sweeps \subseteq Stages
    /\ "lan" \in Stages /\ "classify" \in Stages /\ "lan" \notin Pooled /\ "lan" \notin Ends
    /\ \A p \in Stages : p \notin Ends
  BY WidthAssumption, LimitAssumption DEF Stages, Pooled, Sweeps, Ends

LEMMA Countable ==
    ASSUME phase \in Stages
    PROVE  /\ IsFiniteSet(Holders) /\ Cardinality(Holders) \in Nat
           /\ IsFiniteSet(Started) /\ Cardinality(Started) \in Nat
<1>1. IsFiniteSet(Items)
  BY StageFacts, FS_Interval DEF Items
<1>2. Holders \in SUBSET Items /\ Started \in SUBSET Items
  BY DEF Holders, Started
<1>3. IsFiniteSet(Holders) /\ IsFiniteSet(Started)
  BY <1>1, <1>2, FS_Subset
<1> QED
  BY <1>3, FS_CardinalityType

\* A loop that has not started: nobody holds a slot, nobody has started.
LEMMA NothingHeld ==
    ASSUME phase \in Stages, job = NoJobs(phase), slot = NoJobs(phase)
    PROVE  Cardinality(Holders) = 0 /\ Cardinality(Started) = 0
<1>1. Holders = {} /\ Started = {}
  BY DEF Holders, Started, NoJobs, Items, Holding
<1> QED
  BY <1>1, FS_EmptySet

LEMMA FollowingStage ==
    ASSUME NEW p, NEW asked
    PROVE  Following(p, asked) \in (Stages \ {"lan"}) \cup Ends
  BY DEF Following, Stages, Ends, Sweeps

-----------------------------------------------------------------------------
(* Init and the steps of the loop *)

\* Before the first launch of a stage, or after the last stage.
Fresh ==
    /\ phase \in Stages \cup Ends /\ plan \in SUBSET {"classify", "enrich"} /\ expired \in BOOLEAN
    /\ loop = "top" /\ next = 1 /\ sem = 0
    /\ job = (IF phase \in Stages THEN NoJobs(phase) ELSE <<>>) /\ slot = job
    /\ tokens \in 0..Burst /\ ticks \in 0..MaxTicks

LEMMA FreshInv == Fresh => RunInv
<1> SUFFICES ASSUME Fresh PROVE RunInv
  OBVIOUS
<1> USE DEF Fresh
<1>1. CASE phase \in Stages
  <2>1. job = NoJobs(phase) /\ slot = NoJobs(phase)
    BY <1>1
  <2>2. \A i \in Items : job[i] = "none" /\ slot[i] = "none"
    BY <2>1 DEF NoJobs, Items
  <2>3. Cardinality(Holders) = 0 /\ Cardinality(Started) = 0
    BY <1>1, <2>1, NothingHeld
  <2>4. RunTypeOK
    BY <1>1, <2>1, StageFacts DEF RunTypeOK, NoJobs, Items, Exited
  <2>5. JobsOK
    BY <2>2, StageFacts, <1>1 DEF JobsOK, JobOK, Items
  <2>6. SlotsOK
    BY <2>3, StageFacts DEF SlotsOK
  <2>7. TokensOK
    BY <2>3, StageFacts DEF TokensOK
  <2>8. LoopOK
    BY DEF LoopOK
  <2> QED
    BY <2>4, <2>5, <2>6, <2>7, <2>8 DEF RunInv
<1>2. CASE phase \notin Stages
  BY <1>2, StageFacts DEF RunInv, RunTypeOK, JobsOK, LoopOK, SlotsOK, TokensOK
<1> QED
  BY <1>1, <1>2

LEMMA InitInv == Init => RunInv
<1> SUFFICES ASSUME Init PROVE RunInv
  OBVIOUS
<1>1. phase \in Stages \cup Ends
  BY FollowingStage, StageFacts DEF Init, Stages, Sweeps
<1>2. tokens \in 0..Burst /\ ticks \in 0..MaxTicks
  BY StageFacts DEF Init
<1> QED
  BY <1>1, <1>2, FreshInv DEF Init, Fresh

\* The loop and the deadline leave the goroutines alone.
LEMMA LoopInv ==
    ASSUME RunInv, Deadline \/ GiveUp \/ CheckContext \/ EndLoop
    PROVE  RunInv'
<1>1. /\ phase' = phase /\ job' = job /\ slot' = slot /\ next' = next /\ sem' = sem
      /\ tokens' = tokens /\ ticks' = ticks /\ plan' = plan /\ phase \in Stages
  BY StageFacts DEF Deadline, GiveUp, CheckContext, EndLoop, Sweeps, Stages
<1>2. Holders' = Holders /\ Started' = Started
  BY <1>1 DEF Holders, Started, Items
<1>3. RunTypeOK'
  BY <1>1 DEF RunInv, RunTypeOK, Deadline, GiveUp, CheckContext, EndLoop, Items
<1>4. JobsOK'
  BY <1>1 DEF RunInv, JobsOK, JobOK, Items
<1>5. LoopOK'
  <2>1. next \in 1..(Width[phase] + 1)
    BY <1>1 DEF RunInv, RunTypeOK
  <2> QED
    BY <1>1, <2>1, StageFacts DEF RunInv, LoopOK, Deadline, GiveUp, CheckContext, EndLoop
<1> QED
  BY <1>1, <1>2, <1>3, <1>4, <1>5 DEF RunInv, SlotsOK, TokensOK

LEMMA LaunchInv ==
    ASSUME RunInv, Launch
    PROVE  RunInv'
<1> DEFINE s == IF phase = "lan" THEN "waiting" ELSE "running"
<1>1. /\ phase \in Stages /\ phase' = phase /\ slot' = slot /\ tokens' = tokens /\ ticks' = ticks
      /\ plan' = plan /\ expired' = expired /\ loop' = "top" /\ next' = next + 1
      /\ job' = [job EXCEPT ![next] = s]
  BY DEF Launch
<1>2. next \in Items /\ next \in Nat /\ Items' = Items
  BY <1>1, StageFacts DEF RunInv, RunTypeOK, Launch, Items
<1>3. job \in [Items -> JobState] /\ slot \in [Items -> Verdicts(phase) \cup {"none"}]
  BY <1>1 DEF RunInv, RunTypeOK, JobState, Exited
<1>4. \A i \in Items : job'[i] = IF i = next THEN s ELSE job[i]
  BY <1>1, <1>2, <1>3
<1>5. job[next] = "none" /\ slot[next] = "none"
  BY <1>1, <1>2 DEF RunInv, JobsOK, JobOK
<1>6. JobsOK'
  <2>1. ASSUME NEW i \in Items PROVE JobOK(i)'
    <3>1. JobOK(i) /\ i \in Nat
      BY <1>1 DEF RunInv, JobsOK, Items
    <3> QED
      BY <3>1, <1>1, <1>2, <1>4, <1>5 DEF JobOK
  <2> QED
    BY <2>1, <1>2 DEF JobsOK
<1>7. SlotsOK'
  <2>1. SUFFICES ASSUME phase \in Pooled PROVE sem' = Cardinality(Holders') /\ sem' <= Limit[phase]
    BY <1>1 DEF SlotsOK
  <2>2. Holders' = Holders \cup {next} /\ next \notin Holders
    BY <2>1, <1>2, <1>4, <1>5, StageFacts DEF Holders, Holding
  <2>3. Cardinality(Holders') = Cardinality(Holders) + 1
    BY <2>2, <1>1, Countable, FS_AddElement
  <2>4. sem = Cardinality(Holders) /\ sem < Limit[phase] /\ sem' = sem + 1
    BY <2>1 DEF RunInv, SlotsOK, Launch
  <2> QED
    BY <2>3, <2>4, <1>1, Countable, StageFacts
<1>8. TokensOK'
  <2>1. SUFFICES ASSUME phase = "lan" PROVE Started' = Started
    BY <1>1 DEF RunInv, TokensOK
  <2> QED
    BY <2>1, <1>1, <1>2, <1>4, <1>5 DEF Started
<1>9. RunTypeOK'
  <2>1. job' \in [Items -> JobState]
    BY <1>1, <1>3 DEF JobState
  <2>2. next' \in 1..(Width[phase] + 1)
    BY <1>1, <1>2, StageFacts DEF Items
  <2>3. sem' \in Nat
    BY DEF RunInv, RunTypeOK, Launch
  <2> QED
    BY <2>1, <2>2, <2>3, <1>1, <1>2, <1>3 DEF RunInv, RunTypeOK, JobState, Exited
<1>10. LoopOK'
  BY <1>1 DEF LoopOK
<1> QED
  BY <1>6, <1>7, <1>8, <1>9, <1>10 DEF RunInv

-----------------------------------------------------------------------------
(* The goroutines *)

\* A step of the goroutine of item i that stays within its stage.
LEMMA GoroutineFrame ==
    ASSUME RunInv, phase \in Stages, NEW i \in Items, Goroutine(i)
    PROVE  /\ phase' = phase /\ plan' = plan /\ expired' = expired /\ returned' = returned
           /\ loop' = loop /\ next' = next /\ ticks' = ticks /\ Items' = Items
           /\ \E s \in JobState : job' = [job EXCEPT ![i] = s]
           /\ slot' = slot \/ \E v \in Verdicts(phase) : slot' = [slot EXCEPT ![i] = v]
<1>1. /\ phase' = phase /\ plan' = plan /\ expired' = expired /\ returned' = returned
      /\ loop' = loop /\ next' = next /\ ticks' = ticks
  BY DEF Goroutine, TakeToken, WaitCancelled, Finish, Panic, Recover, Release, Done
<1>2. \E s \in JobState : job' = [job EXCEPT ![i] = s]
  BY DEF Goroutine, TakeToken, WaitCancelled, Finish, Panic, Recover, Release, Done, Step, JobState
<1>3. slot' = slot \/ \E v \in Verdicts(phase) : slot' = [slot EXCEPT ![i] = v]
  <2>1. CASE WaitCancelled(i)
    <3>1. phase = "lan"
      BY <2>1 DEF WaitCancelled, RunInv, JobsOK, JobOK
    <3> QED
      BY <2>1, <3>1 DEF WaitCancelled, Write, Verdicts, Sweeps
  <2>2. CASE Finish(i)
    BY <2>2 DEF Finish, Write
  <2>3. CASE Recover(i)
    <3>1. phase = "classify"
      BY <2>3 DEF Recover, RunInv, JobsOK, JobOK
    <3> QED
      BY <2>3, <3>1 DEF Recover, Write, Verdicts, Sweeps
  <2> QED
    BY <2>1, <2>2, <2>3 DEF Goroutine, TakeToken, Panic, Release, Done
<1> QED
  BY <1>1, <1>2, <1>3 DEF Items

LEMMA GoroutineJobs ==
    ASSUME RunInv, phase \in Stages, NEW i \in Items, Goroutine(i)
    PROVE  JobsOK'
<1>1. job \in [Items -> JobState] /\ slot \in [Items -> Verdicts(phase) \cup {"none"}]
  BY DEF RunInv, RunTypeOK, JobState, Exited
<1>2. phase' = phase /\ next' = next /\ Items' = Items
  BY GoroutineFrame
<1>3. ASSUME NEW k \in Items, k # i PROVE JobOK(k)'
  <2>1. job'[k] = job[k] /\ slot'[k] = slot[k]
    BY <1>1, <1>3, GoroutineFrame
  <2>2. JobOK(k)
    BY DEF RunInv, JobsOK
  <2> QED
    BY <2>1, <2>2, <1>2 DEF JobOK
<1>4. JobOK(i)'
  <2>0. JobOK(i) /\ job[i] \in JobState
    BY <1>1 DEF RunInv, JobsOK
  <2>1. CASE TakeToken(i)
    BY <2>0, <2>1, <1>1, <1>2 DEF TakeToken, Step, JobOK
  <2>2. CASE WaitCancelled(i)
    <3>1. job'[i] = "written" /\ slot'[i] = "cancelled" /\ phase = "lan" /\ job[i] = "waiting"
      BY <2>0, <2>2, <1>1 DEF WaitCancelled, Step, Write, JobOK
    <3>2. "cancelled" \in Verdicts(phase)
      BY <3>1 DEF Verdicts, Sweeps
    <3> QED
      BY <2>0, <3>1, <3>2, <1>2 DEF JobOK
  <2>3. CASE Finish(i)
    <3>1. job'[i] = "written" /\ slot'[i] \in Verdicts(phase) /\ job[i] = "running"
      BY <2>3, <1>1 DEF Finish, Step, Write
    <3> QED
      BY <2>0, <3>1, <1>2 DEF JobOK
  <2>4. CASE Panic(i)
    BY <2>0, <2>4, <1>1, <1>2 DEF Panic, Step, JobOK
  <2>5. CASE Recover(i)
    <3>1. job'[i] = "written" /\ slot'[i] = "failed" /\ phase = "classify" /\ job[i] = "panicked"
      BY <2>0, <2>5, <1>1 DEF Recover, Step, Write, JobOK
    <3>2. "failed" \in Verdicts(phase)
      BY <3>1 DEF Verdicts, Sweeps
    <3> QED
      BY <2>0, <3>1, <3>2, <1>2 DEF JobOK
  <2>6. CASE Release(i)
    BY <2>0, <2>6, <1>1, <1>2 DEF Release, Step, JobOK
  <2>7. CASE Done(i)
    BY <2>0, <2>7, <1>1, <1>2 DEF Done, Step, JobOK
  <2> QED
    BY <2>1, <2>2, <2>3, <2>4, <2>5, <2>6, <2>7 DEF Goroutine
<1> QED
  BY <1>2, <1>3, <1>4 DEF JobsOK

\* Only Release gives a slot back, and only a goroutine that held one.
LEMMA GoroutineSlots ==
    ASSUME RunInv, phase \in Stages, NEW i \in Items, Goroutine(i)
    PROVE  SlotsOK' /\ sem' \in Nat
<1>0. job \in [Items -> JobState] /\ sem \in Nat
  BY DEF RunInv, RunTypeOK, JobState, Exited
<1>1. phase' = phase /\ Items' = Items
  BY GoroutineFrame
<1>2. CASE phase \notin Pooled
  <2>1. sem' = sem
    BY <1>2 DEF Goroutine, TakeToken, WaitCancelled, Finish, Panic, Recover, Release, Done
  <2> QED
    BY <1>0, <1>1, <1>2, <2>1 DEF SlotsOK
<1>3. CASE phase \in Pooled
  <2>0. sem = Cardinality(Holders) /\ sem <= Limit[phase] /\ Limit[phase] \in Nat
    BY <1>3, StageFacts DEF RunInv, SlotsOK
  <2>1. job[i] \notin {"waiting", "panicked"} /\ phase # "classify"
    BY <1>3 DEF RunInv, JobsOK, JobOK, Pooled
  <2>2. CASE Finish(i) \/ Done(i)
    <3>1. Holders' = Holders
      BY <2>2, <1>0, <1>1 DEF Finish, Done, Step, Holders, Holding
    <3>2. sem' = sem
      BY <2>2 DEF Finish, Done
    <3> QED
      BY <3>1, <3>2, <2>0, <1>0, <1>1 DEF SlotsOK
  <2>3. CASE Release(i)
    <3>1. Holders' = Holders \ {i} /\ i \in Holders
      BY <2>3, <1>0, <1>1 DEF Release, Step, Holders, Holding
    <3>2. Cardinality(Holders') = Cardinality(Holders) - 1
      BY <3>1, Countable, FS_RemoveElement
    <3>3. Cardinality(Holders) # 0
      BY <3>1, Countable, FS_EmptySet
    <3>4. sem' = sem - 1
      BY <2>3, <1>3 DEF Release
    <3> QED
      BY <3>2, <3>3, <3>4, <2>0, <1>0, <1>1 DEF SlotsOK
  <2> QED
    BY <2>1, <2>2, <2>3 DEF Goroutine, TakeToken, WaitCancelled, Panic, Recover
<1> QED
  BY <1>2, <1>3

\* Only a goroutine that took a token starts a probe.
LEMMA GoroutineTokens ==
    ASSUME RunInv, phase \in Stages, NEW i \in Items, Goroutine(i)
    PROVE  TokensOK' /\ tokens' \in 0..Burst
<1>0. /\ job \in [Items -> JobState] /\ slot \in [Items -> Verdicts(phase) \cup {"none"}]
      /\ tokens \in 0..Burst /\ ticks \in 0..MaxTicks /\ Burst \in Nat
  BY StageFacts DEF RunInv, RunTypeOK, JobState, Exited
<1>1. phase' = phase /\ Items' = Items /\ ticks' = ticks
  BY GoroutineFrame
<1>2. JobOK(i)
  BY DEF RunInv, JobsOK
<1>3. CASE TakeToken(i)
  <2>1. tokens' = tokens - 1 /\ tokens > 0 /\ phase = "lan"
    BY <1>2, <1>3 DEF TakeToken, JobOK
  <2>2. Started' = Started \cup {i} /\ i \notin Started
    BY <1>0, <1>1, <1>2, <1>3 DEF TakeToken, Step, Started, JobOK
  <2>3. Cardinality(Started') = Cardinality(Started) + 1
    BY <2>2, Countable, FS_AddElement
  <2>4. Cardinality(Started) + tokens <= Burst + ticks
    BY <2>1 DEF RunInv, TokensOK
  <2> QED
    BY <2>1, <2>3, <2>4, <1>0, <1>1, Countable DEF TokensOK
<1>4. CASE ~TakeToken(i)
  <2>1. tokens' = tokens
    BY <1>4 DEF Goroutine, WaitCancelled, Finish, Panic, Recover, Release, Done
  <2>2. CASE phase # "lan"
    BY <2>1, <2>2, <1>0, <1>1 DEF TokensOK
  <2>3. CASE phase = "lan"
    <3>1. job[i] # "panicked" /\ ~Panic(i)
      BY <2>3, <1>2 DEF JobOK, Panic
    <3>2. SUFFICES Started' = Started
      BY <2>1, <2>3, <1>0, <1>1 DEF RunInv, TokensOK
    <3>3. \A k \in Items : k # i => job'[k] = job[k] /\ slot'[k] = slot[k]
      BY <1>0, GoroutineFrame
    <3>4. CASE WaitCancelled(i)
      <4>1. job[i] = "waiting" /\ slot'[i] = "cancelled"
        BY <3>4, <1>0 DEF WaitCancelled, Write
      <4> QED
        BY <4>1, <3>3, <1>1 DEF Started
    <3>5. CASE Finish(i)
      <4>1. job[i] = "running" /\ slot[i] = "none" /\ job'[i] = "written" /\ slot'[i] # "cancelled"
        BY <3>5, <1>0, <1>2 DEF Finish, Step, Write, JobOK
      <4> QED
        BY <4>1, <3>3, <1>1 DEF Started
    <3>6. CASE Release(i) \/ Done(i)
      BY <3>6, <1>0, <1>1 DEF Release, Done, Step, Started
    <3> QED
      BY <3>1, <3>4, <3>5, <3>6, <1>4 DEF Goroutine, Recover
  <2> QED
    BY <2>2, <2>3
<1> QED
  BY <1>3, <1>4

LEMMA GoroutineInv ==
    ASSUME RunInv, phase \in Stages, NEW i \in Items, Goroutine(i)
    PROVE  RunInv'
<1>1. /\ job \in [Items -> JobState] /\ slot \in [Items -> Verdicts(phase) \cup {"none"}]
  BY DEF RunInv, RunTypeOK, JobState, Exited
<1>2. job' \in [Items -> JobState] /\ slot' \in [Items -> Verdicts(phase) \cup {"none"}]
  BY <1>1, GoroutineFrame
<1>3. RunTypeOK'
  BY <1>2, GoroutineFrame, GoroutineSlots, GoroutineTokens DEF RunInv, RunTypeOK, JobState, Exited
<1>4. LoopOK'
  BY GoroutineFrame DEF RunInv, LoopOK
<1> QED
  BY <1>3, <1>4, GoroutineJobs, GoroutineSlots, GoroutineTokens DEF RunInv

-----------------------------------------------------------------------------
(* Refill, and the step to the next stage *)

LEMMA RefillInv ==
    ASSUME RunInv, Refill
    PROVE  RunInv'
<1>1. /\ phase' = phase /\ plan' = plan /\ expired' = expired /\ loop' = loop /\ next' = next
      /\ sem' = sem /\ job' = job /\ slot' = slot /\ phase = "lan" /\ phase \in Stages /\ Items' = Items
  BY StageFacts DEF Refill, Items
<1>2. /\ tokens \in 0..Burst /\ ticks \in 0..MaxTicks /\ Burst \in Nat /\ MaxTicks \in Nat
      /\ tokens' \in 0..Burst /\ ticks' \in 0..MaxTicks /\ tokens' <= tokens + 1 /\ ticks' = ticks + 1
  BY StageFacts DEF RunInv, RunTypeOK, Refill
<1>3. Started' = Started /\ Holders' = Holders
  BY <1>1 DEF Started, Holders
<1>4. TokensOK'
  BY <1>1, <1>2, <1>3, Countable DEF RunInv, TokensOK
<1>5. RunTypeOK'
  BY <1>1, <1>2 DEF RunInv, RunTypeOK
<1>6. JobsOK' /\ LoopOK' /\ SlotsOK'
  BY <1>1, <1>3 DEF RunInv, JobsOK, JobOK, LoopOK, SlotsOK
<1> QED
  BY <1>4, <1>5, <1>6 DEF RunInv

LEMMA NextStageInv ==
    ASSUME RunInv, Return \/ ClassificationFails
    PROVE  RunInv'
<1>1. phase' \in Stages \cup Ends
  BY FollowingStage DEF Return, ClassificationFails, Ends
<1>2. Fresh'
  BY <1>1, StageFacts DEF Fresh, Return, ClassificationFails, FreshLoop, RunInv, RunTypeOK
<1>3. Fresh' => RunInv'
  BY FreshInv, PTL
<1> QED
  BY <1>2, <1>3

LEMMA NextInv == RunInv /\ [Next]_runVars => RunInv'
<1> SUFFICES ASSUME RunInv, [Next]_runVars PROVE RunInv'
  OBVIOUS
<1>1. CASE Next
  BY <1>1, LoopInv, LaunchInv, RefillInv, NextStageInv, GoroutineInv DEF Next
<1>2. CASE UNCHANGED runVars
  <2>1. /\ plan' = plan /\ phase' = phase /\ expired' = expired /\ loop' = loop /\ next' = next /\ sem' = sem
        /\ job' = job /\ slot' = slot /\ tokens' = tokens /\ ticks' = ticks /\ Items' = Items
    BY <1>2 DEF runVars, Items
  <2>2. Holders' = Holders /\ Started' = Started
    BY <2>1 DEF Holders, Started
  <2> QED
    BY <2>1, <2>2 DEF RunInv, RunTypeOK, JobsOK, JobOK, LoopOK, SlotsOK, TokensOK
<1> QED
  BY <1>1, <1>2

\* The strengthened invariant holds in every run of a command.
THEOREM RunInvariant == Spec => []RunInv
  BY InitInv, NextInv, PTL DEF Spec

\* Every stage's results and states are well-typed, and no semaphore is released below zero.
THEOREM RunTypes == Spec => []RunTypeOK
<1>1. RunInv => RunTypeOK
  BY DEF RunInv
<1> QED
  BY <1>1, RunInvariant, PTL

\* TCPSweeper.Sweep, SweepARP and EnrichReport never have more probes under way than slots.
THEOREM RunSlotsBounded == Spec => []SlotsBounded
<1>1. RunInv => SlotsBounded
  <2> SUFFICES ASSUME RunInv, phase \in Pooled PROVE Cardinality(Holders) <= Limit[phase]
    BY DEF SlotsBounded, Holders
  <2> QED
    BY DEF RunInv, SlotsOK
<1> QED
  BY <1>1, RunInvariant, PTL

\* probe.Runner starts no more probes than its limiter has handed out tokens.
THEOREM RunRateRespected == Spec => []RateRespected
<1>1. RunInv => RateRespected
  <2> SUFFICES ASSUME RunInv, phase = "lan" PROVE Cardinality(Started) <= Burst + ticks
    BY DEF RateRespected, Started
  <2>1. tokens \in 0..Burst /\ ticks \in 0..MaxTicks /\ Burst \in Nat /\ MaxTicks \in Nat
    BY StageFacts DEF RunInv, RunTypeOK
  <2>2. Cardinality(Started) \in Nat
    BY StageFacts, Countable
  <2> QED
    BY <2>1, <2>2 DEF RunInv, TokensOK
<1> QED
  BY <1>1, RunInvariant, PTL

-----------------------------------------------------------------------------
(* AgentRun implements AgentReport *)

LEMMA SameStages ==
    /\ Report!Stages = Stages /\ Report!Ends = Ends /\ Report!Sweeps = Sweeps
    /\ Report!NotRun = NotRun
    /\ \A p, asked : Report!Following(p, asked) = Following(p, asked)
    /\ \A p : Report!Verdicts(p) = Verdicts(p)
  BY DEF Report!Stages, Stages, Report!Ends, Ends, Report!Sweeps, Sweeps, Report!NotRun, NotRun,
         Report!Following, Following, Report!Verdicts, Verdicts

\* When wg.Wait returns, the goroutines launched have all written their entry, and they are
\* all of the list unless a sweep was cut short.
LEMMA ReturnIsReturnStage ==
    ASSUME RunInv, Return
    PROVE  Report!ReturnStage
<1>1. phase \in Stages /\ Width[phase] \in Nat
  BY StageFacts DEF RunInv, LoopOK, Return
<1>2. next \in 1..(Width[phase] + 1) /\ next \in Nat
  BY <1>1 DEF RunInv, RunTypeOK
<1> DEFINE n == next - 1
           entries == [i \in 1..n |-> slot[i]]
<1>3. n \in 0..Width[phase] /\ 1..n \subseteq Items /\ Launched = 1..n
  BY <1>1, <1>2 DEF Items, Launched
<1>4. entries \in [1..n -> Verdicts(phase)]
  <2>1. ASSUME NEW i \in 1..n PROVE slot[i] \in Verdicts(phase)
    <3>1. i \in Items /\ job[i] = "done"
      BY <1>3 DEF Return
    <3> QED
      BY <3>1, <1>1 DEF RunInv, JobsOK, JobOK
  <2> QED
    BY <2>1
<1>5. n < Width[phase] => expired /\ phase \in Sweeps
  BY <1>1, <1>2 DEF RunInv, LoopOK, Return
<1>6. returned' = [returned EXCEPT ![phase] = entries]
  BY <1>3 DEF Return
<1>7. phase' = Following(phase, plan) /\ plan' = plan /\ expired' = expired
  BY DEF Return
<1> HIDE DEF n, entries
<1> QED
  BY <1>1, <1>3, <1>4, <1>5, <1>6, <1>7, SameStages DEF Report!ReturnStage

\* The goroutines of a command implement what AgentReport promises, for any widths and limits:
\* every step is the deadline, the return of a stage, the failed classification, or invisible.
THEOREM RunImplementsReport == Spec => ImplementsAgentReport
<1>1. Init => Report!RepInit
  BY SameStages DEF Init, Report!RepInit
<1>2. RunInv /\ [Next]_runVars => [Report!RepNext]_(Report!repVars)
  <2> SUFFICES ASSUME RunInv, [Next]_runVars PROVE [Report!RepNext]_(Report!repVars)
    OBVIOUS
  <2>1. CASE Deadline
    BY <2>1, SameStages, StageFacts DEF Deadline, Report!RepNext, Report!Expire
  <2>2. CASE Return
    BY <2>2, ReturnIsReturnStage DEF Report!RepNext
  <2>3. CASE ClassificationFails
    BY <2>3 DEF ClassificationFails, Report!RepNext, Report!Fail
  <2>4. CASE GiveUp \/ CheckContext \/ Launch \/ EndLoop \/ Refill \/ UNCHANGED runVars
    BY <2>4 DEF GiveUp, CheckContext, Launch, EndLoop, Refill, runVars, Report!repVars
  <2>5. CASE phase \in Stages /\ \E i \in Items : Goroutine(i)
    BY <2>5, GoroutineFrame DEF Report!repVars
  <2> QED
    BY <2>1, <2>2, <2>3, <2>4, <2>5 DEF Next
<1> QED
  BY <1>1, <1>2, RunInvariant, PTL DEF Spec, ImplementsAgentReport, Report!RepSpec
=============================================================================
