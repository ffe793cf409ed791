---------------------------- MODULE AgentStages ----------------------------
(***************************************************************************)
(* The stages of an agent command, and in which order they follow.         *)
(***************************************************************************)
EXTENDS Naturals

CONSTANTS
    Width        \* how many items each stage works on

Sweeps == {"sweep", "arp"}
Stages == Sweeps \cup {"classify", "enrich", "lan"}
Ends   == {"reported", "failed"}

ASSUME WidthAssumption == Width \in [Stages -> Nat]

Verdicts(p) ==
    IF p \in Sweeps THEN {"alive", "dead"} ELSE {"ok", "failed"} \cup (IF p = "lan" THEN {"cancelled"} ELSE {})

\* runScan: the optional stages follow the sweeps; the other command has one stage.
Following(p, asked) ==
    IF p = "sweep" THEN "arp"
    ELSE IF p = "arp" /\ "classify" \in asked THEN "classify"
    ELSE IF p \in {"arp", "classify"} /\ "enrich" \in asked THEN "enrich"
    ELSE "reported"

NotRun == [s \in Stages |-> <<>>]
=============================================================================
