---------------------------- MODULE AgentReport ----------------------------
(***************************************************************************)
(* What one run of an agent command promises, without its goroutines: the  *)
(* stages it was asked for return one after the other, each once and with  *)
(* an entry for every item. Only the sweeps may give up, only once the     *)
(* scan's deadline passed, and then they leave out a tail of the scope.    *)
(***************************************************************************)
EXTENDS AgentStages

VARIABLES
    plan,        \* the optional stages asked for
    phase,       \* the stage that runs, or how the command ended
    expired,     \* the overall deadline has passed
    returned     \* what every stage has returned

repVars == <<plan, phase, expired, returned>>

\* A scope without IPv4 hosts skips the sweeps; "lan" is the command cmd/agent.
RepInit ==
    /\ plan \in SUBSET {"classify", "enrich"}
    /\ phase \in {"sweep", Following("arp", plan), "lan"}
    /\ expired = FALSE
    /\ returned = NotRun

Expire ==
    /\ phase \notin Ends /\ ~expired
    /\ expired' = TRUE
    /\ UNCHANGED <<plan, phase, returned>>

\* The entries of the items a stage got to: a prefix of them.
ReturnStage ==
    /\ phase \in Stages
    /\ \E n \in 0..Width[phase] :
          /\ n < Width[phase] => expired /\ phase \in Sweeps
          /\ \E entries \in [1..n -> Verdicts(phase)] : returned' = [returned EXCEPT ![phase] = entries]
    /\ phase' = Following(phase, plan)
    /\ UNCHANGED <<plan, expired>>

\* No usable rules directory: the command ends without a report.
Fail ==
    /\ phase = "classify"
    /\ phase' = "failed"
    /\ UNCHANGED <<plan, expired, returned>>

RepNext == Expire \/ ReturnStage \/ Fail

RepSpec == RepInit /\ [][RepNext]_repVars
=============================================================================
