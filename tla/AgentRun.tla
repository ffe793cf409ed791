------------------------------ MODULE AgentRun ------------------------------
(***************************************************************************)
(* The concurrent stages of one agent command: TCPSweeper.Sweep, SweepARP, *)
(* the classification runner, EnrichReport and, in cmd/agent, the rate     *)
(* limited runner of the LAN probes. Each is a loop that starts one        *)
(* goroutine per item, under a semaphore or without, and waits for all.    *)
(***************************************************************************)
EXTENDS AgentStages, FiniteSets

CONSTANTS
    Limit,       \* the capacity of each stage's semaphore
    Burst,       \* tokens the rate limiter starts with and keeps at most
    MaxTicks     \* bound: refills looked at

ASSUME LimitAssumption ==
    Limit \in [Stages -> Nat \ {0}] /\ Burst \in Nat \ {0} /\ MaxTicks \in Nat

VARIABLES
    plan, phase, expired, returned,   \* as in AgentReport
    loop,        \* the launching loop: "top", "acquire" (checked ctx, wants a slot), "over"
    next,        \* the item it comes to
    sem,         \* slots taken
    job,         \* the goroutine of every item
    slot,        \* what it wrote
    tokens, ticks \* the rate limiter

runVars == <<plan, phase, expired, returned, loop, next, sem, job, slot, tokens, ticks>>

Items   == 1..Width[phase]
Pooled  == {"sweep", "arp", "enrich"}      \* the stages with a semaphore
Holding == {"running", "written"}
Exited  == {"released", "done"}

NoJobs(p)  == [i \in 1..Width[p] |-> "none"]
FreshLoop(p) ==
    /\ loop' = "top" /\ next' = 1 /\ sem' = 0
    /\ job' = IF p \in Stages THEN NoJobs(p) ELSE <<>>
    /\ slot' = IF p \in Stages THEN NoJobs(p) ELSE <<>>

\* A scope without IPv4 hosts skips the sweeps; "lan" is the command cmd/agent.
Init ==
    /\ plan \in SUBSET {"classify", "enrich"}
    /\ phase \in {"sweep", Following("arp", plan), "lan"}
    /\ expired = FALSE
    /\ returned = NotRun
    /\ loop = "top" /\ next = 1 /\ sem = 0
    /\ job = (IF phase \in Stages THEN NoJobs(phase) ELSE <<>>)
    /\ slot = job
    /\ tokens = Burst /\ ticks = 0

-----------------------------------------------------------------------------
(* The launching loop.                                                     *)

\* The deadline of the scan.
Deadline ==
    /\ phase \in Stages /\ ~expired
    /\ expired' = TRUE
    /\ UNCHANGED <<plan, phase, returned, loop, next, sem, job, slot, tokens, ticks>>

\* Both sweeps leave the loop when the context is done: Sweep in the select with which it
\* waits for a slot, SweepARP only at the top of the loop.
GiveUp ==
    /\ phase \in Sweeps /\ loop = "top" /\ next <= Width[phase] /\ expired
    /\ loop' = "over"
    /\ UNCHANGED <<plan, phase, expired, returned, next, sem, job, slot, tokens, ticks>>

CheckContext ==
    /\ phase = "arp" /\ loop = "top" /\ next <= Width[phase] /\ ~expired
    /\ loop' = "acquire"
    /\ UNCHANGED <<plan, phase, expired, returned, next, sem, job, slot, tokens, ticks>>

\* (Mutant: the goroutine is started before it has a slot.)
LaunchUnbounded ==
    /\ phase \in Stages /\ next <= Width[phase]
    /\ loop = IF phase = "arp" THEN "acquire" ELSE "top"
    /\ job' = [job EXCEPT ![next] = IF phase = "lan" THEN "waiting" ELSE "running"]
    /\ sem' = IF phase \in Pooled THEN sem + 1 ELSE sem
    /\ next' = next + 1
    /\ loop' = "top"
    /\ UNCHANGED <<plan, phase, expired, returned, slot, tokens, ticks>>

\* The select of Sweep may take a free slot although the context is done.
Launch ==
    /\ phase \in Stages /\ next <= Width[phase]
    /\ loop = IF phase = "arp" THEN "acquire" ELSE "top"
    /\ phase \in Pooled => sem < Limit[phase]
    /\ job' = [job EXCEPT ![next] = IF phase = "lan" THEN "waiting" ELSE "running"]
    /\ sem' = IF phase \in Pooled THEN sem + 1 ELSE sem
    /\ next' = next + 1
    /\ loop' = "top"
    /\ UNCHANGED <<plan, phase, expired, returned, slot, tokens, ticks>>

EndLoop ==
    /\ phase \in Stages /\ loop = "top" /\ next > Width[phase]
    /\ loop' = "over"
    /\ UNCHANGED <<plan, phase, expired, returned, next, sem, job, slot, tokens, ticks>>

-----------------------------------------------------------------------------
(* The goroutine of item i.                                                *)

Write(i, v) == slot' = [slot EXCEPT ![i] = v]
Step(i, s)  == job' = [job EXCEPT ![i] = s]

\* RateLimiter.Wait: a token or the end of the context, whichever the select takes.
\* (Mutant: the token is looked at, not taken.)
TakeTokenPeek(i) ==
    /\ job[i] = "waiting" /\ tokens > 0
    /\ Step(i, "running")
    /\ UNCHANGED <<plan, phase, expired, returned, loop, next, sem, slot, tokens, ticks>>

TakeToken(i) ==
    /\ job[i] = "waiting" /\ tokens > 0
    /\ tokens' = tokens - 1
    /\ Step(i, "running")
    /\ UNCHANGED <<plan, phase, expired, returned, loop, next, sem, slot, ticks>>

WaitCancelled(i) ==
    /\ job[i] = "waiting" /\ expired
    /\ Write(i, "cancelled")
    /\ Step(i, "written")
    /\ UNCHANGED <<plan, phase, expired, returned, loop, next, sem, tokens, ticks>>

\* The probe returns, with a result, an error or nil; every dial and every probe has a
\* deadline of its own.
Finish(i) ==
    /\ job[i] = "running"
    /\ \E v \in Verdicts(phase) \ {"cancelled"} : Write(i, v)
    /\ Step(i, "written")
    /\ UNCHANGED <<plan, phase, expired, returned, loop, next, sem, tokens, ticks>>

\* Only the classification runner recovers a panic.
Panic(i) ==
    /\ job[i] = "running" /\ phase = "classify"
    /\ Step(i, "panicked")
    /\ UNCHANGED <<plan, phase, expired, returned, loop, next, sem, slot, tokens, ticks>>

Recover(i) ==
    /\ job[i] = "panicked"
    /\ Write(i, "failed")
    /\ Step(i, "written")
    /\ UNCHANGED <<plan, phase, expired, returned, loop, next, sem, tokens, ticks>>

\* The deferred receive that frees the slot, then the deferred wg.Done.
\* (Mutants: the slot is not freed; every goroutine frees one.)
ReleaseNothing(i) ==
    /\ job[i] = "written"
    /\ Step(i, "released")
    /\ UNCHANGED <<plan, phase, expired, returned, loop, next, sem, slot, tokens, ticks>>

ReleaseAlways(i) ==
    /\ job[i] = "written"
    /\ sem' = sem - 1
    /\ Step(i, "released")
    /\ UNCHANGED <<plan, phase, expired, returned, loop, next, slot, tokens, ticks>>

Release(i) ==
    /\ job[i] = "written"
    /\ sem' = IF phase \in Pooled THEN sem - 1 ELSE sem
    /\ Step(i, "released")
    /\ UNCHANGED <<plan, phase, expired, returned, loop, next, slot, tokens, ticks>>

Done(i) ==
    /\ job[i] = "released"
    /\ Step(i, "done")
    /\ UNCHANGED <<plan, phase, expired, returned, loop, next, sem, slot, tokens, ticks>>

\* RateLimiter.refill: one token per tick, dropped when the channel is full.
Refill ==
    /\ phase = "lan" /\ ticks < MaxTicks
    /\ ticks' = ticks + 1
    /\ tokens' = IF tokens < Burst THEN tokens + 1 ELSE tokens
    /\ UNCHANGED <<plan, phase, expired, returned, loop, next, sem, job, slot>>

-----------------------------------------------------------------------------
(* wg.Wait, and on to the next stage with what was collected.              *)

Launched == 1..(next - 1)

\* (Mutant: the wait group counts a goroutine from its first step on, not from its launch.)
ReturnEarly ==
    /\ loop = "over" /\ \A i \in Launched : job[i] # "written"
    /\ returned' = [returned EXCEPT ![phase] = [i \in Launched |-> slot[i]]]
    /\ phase' = Following(phase, plan)
    /\ FreshLoop(phase')
    /\ UNCHANGED <<plan, expired, tokens, ticks>>

Return ==
    /\ loop = "over" /\ \A i \in Launched : job[i] = "done"
    /\ returned' = [returned EXCEPT ![phase] = [i \in Launched |-> slot[i]]]
    /\ phase' = Following(phase, plan)
    /\ FreshLoop(phase')
    /\ UNCHANGED <<plan, expired, tokens, ticks>>

\* resolveRulesDir fails before the probes are started, NewEngine after they returned.
ClassificationFails ==
    /\ phase = "classify"
    /\ \/ loop = "top" /\ next = 1
       \/ loop = "over" /\ \A i \in Launched : job[i] = "done"
    /\ phase' = "failed"
    /\ FreshLoop("failed")
    /\ UNCHANGED <<plan, expired, returned, tokens, ticks>>

Goroutine(i) ==
    \/ TakeToken(i) \/ WaitCancelled(i) \/ Finish(i) \/ Panic(i) \/ Recover(i) \/ Release(i) \/ Done(i)

Next ==
    \/ Deadline \/ GiveUp \/ CheckContext \/ Launch \/ EndLoop \/ Refill
    \/ Return \/ ClassificationFails
    \/ phase \in Stages /\ \E i \in Items : Goroutine(i)

\* The scheduler runs every goroutine that can run; deadlines pass.
Fairness ==
    /\ WF_runVars(Deadline) /\ WF_runVars(Refill)
    /\ WF_runVars(GiveUp \/ CheckContext \/ Launch \/ EndLoop \/ Return)
    /\ \A i \in UNION {1..Width[s] : s \in Stages} : WF_runVars(phase \in Stages /\ i \in Items /\ Goroutine(i))

Spec == Init /\ [][Next]_runVars /\ Fairness

-----------------------------------------------------------------------------
RunTypeOK ==
    /\ plan \in SUBSET {"classify", "enrich"} /\ phase \in Stages \cup Ends /\ expired \in BOOLEAN
    /\ loop \in {"top", "acquire", "over"}
    /\ sem \in Nat /\ tokens \in 0..Burst /\ ticks \in 0..MaxTicks
    /\ phase \in Stages =>
          /\ next \in 1..(Width[phase] + 1)
          /\ job \in [Items -> {"none", "waiting", "running", "panicked"} \cup {"written"} \cup Exited]
          /\ slot \in [Items -> Verdicts(phase) \cup {"none"}]

\* hosts.go, arpsweep and enrich.go: never more probes under way than the semaphore has
\* slots, however launches, completions and cancellation interleave.
SlotsBounded ==
    phase \in Pooled => Cardinality({i \in Items : job[i] \in Holding}) <= Limit[phase]

\* probe.Runner: the number of probes started never exceeds the burst and the refills so far.
RateRespected ==
    phase = "lan" =>
        Cardinality({i \in Items : job[i] \notin {"none", "waiting"} /\ slot[i] # "cancelled"}) <= Burst + ticks

Report == INSTANCE AgentReport
             WITH plan <- plan, phase <- phase, expired <- expired, returned <- returned, Width <- Width

\* With its goroutines a command still does what AgentReport says: a stage returns once, when
\* nobody can write to its results any more, with the entry of every item; a panic costs only
\* its own probe; and hosts are left out only after the deadline, from the end of the scope.
ImplementsAgentReport == Report!RepSpec

\* The command ends, whatever fails or is cancelled on the way.
CommandEnds == <>(phase \in Ends)
=============================================================================
