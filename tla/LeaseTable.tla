------------------------------- MODULE LeaseTable -------------------------------
(***************************************************************************)
(* What the broker promises about custody, without saying how: a lease      *)
(* takes all of its targets in one step, from nobody, and gives all of them *)
(* back in one step.  No target passes directly from one lease to another,  *)
(* and no lease ever holds part of what it asked for.  (broker/interface.py *)
(* lease(): "A lease is granted whole or refused whole.")                   *)
(***************************************************************************)
CONSTANTS
    Targets,     \* the instrument's targets
    LeaseIds,    \* the ids a broker may give
    NoLease      \* nobody

VARIABLE owner   \* the lease that has custody of each target

TableInit == owner = [t \in Targets |-> NoLease]

Held(l) == {t \in Targets : owner[t] = l}

Acquire(l, wanted) ==
    /\ Held(l) = {}
    /\ \A t \in wanted : owner[t] = NoLease
    /\ owner' = [t \in Targets |-> IF t \in wanted THEN l ELSE owner[t]]

Drop(l) ==
    /\ Held(l) # {}
    /\ owner' = [t \in Targets |-> IF owner[t] = l THEN NoLease ELSE owner[t]]

TableNext == \E l \in LeaseIds :
    \/ \E wanted \in SUBSET Targets : Acquire(l, wanted)
    \/ Drop(l)

TableSpec == TableInit /\ [][TableNext]_owner

=============================================================================
