-------------------------------- MODULE MCBroker --------------------------------
\* Broker under TLC: a camera, a scan unit and an instrument controller, ranked as
\* LEASE_ORDER ranks their kinds (broker/interface.py:146).
EXTENDS Broker, TLC

CONSTANTS instrument, camera, scanner

LeaseOrder == (instrument :> 1) @@ (camera :> 2) @@ (scanner :> 3)

\* The instances without an instrument, or with a camera or a scan unit only.
RankOf(ts) == [t \in ts |-> LeaseOrder[t]]
RankAll == RankOf({instrument, camera, scanner})
RankPair == RankOf({camera, scanner})
RankLone == RankOf({camera})
RankCamera == RankOf({instrument, camera})
RankScanner == RankOf({scanner})
RankInstrument == RankOf({instrument})

\* Leases and loops are names; clients are when none of them is set apart.
NameSymmetry == Permutations(LeaseIds) \cup Permutations(LoopIds)
ClientSymmetry == NameSymmetry \cup Permutations(Clients)

=============================================================================
