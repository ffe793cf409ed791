-------------------------- MODULE MCDiscoveryPool --------------------------
(* DiscoveryPool on one subnet: a private network "lan" that is enumerated, *)
(* and addresses outside the scope, which lie in a subnet of their own.     *)
EXTENDS DiscoveryPool, TLC

CONSTANTS gw, host, public

MCAllowed == IP \cap {gw, host}
MCSubnet == {"lan", "wan"}
MCSubnetOf == [ip \in IP |-> IF ip \in MCAllowed THEN "lan" ELSE "wan"]
MCExpandable == {"lan"}
MCHosts == [s \in MCSubnet |->
              IF s = "lan" THEN SelectSeq(<<gw, host>>, LAMBDA ip : ip \in IP) ELSE <<>>]
=============================================================================
