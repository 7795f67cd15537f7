----------------------------- MODULE MCBrokerServer -----------------------------
(***************************************************************************)
(* BrokerServer for TLC: connections and targets are interchangeable.       *)
(***************************************************************************)
EXTENDS BrokerServer, TLC

Symmetric == Permutations(Conns) \cup Permutations(Targets) \cup Permutations(LeaseIds)

=============================================================================
