----------------------------- MODULE MCAgentRun -----------------------------
(* Three items per sweep with two slots; the other stages alike.           *)
EXTENDS AgentRun

MCWidth == [s \in Stages |-> IF s \in {"enrich", "arp"} THEN 2 ELSE 3]
MCLimit == [s \in Stages |-> IF s \in {"enrich", "arp"} THEN 1 ELSE 2]
=============================================================================
