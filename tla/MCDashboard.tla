---------------------------- MODULE MCDashboard ----------------------------
(* Small instances of Dashboard: the jobs of one kind are interchangeable.  *)
EXTENDS Dashboard, TLC
CONSTANTS a1, a2, s1, s2, v1, haadf, bf

MCAcquirers == {a1, a2}
MCSavers == {s1, s2}
MCViewers == {v1}
MCRecorders == MCAcquirers \cup MCSavers \cup MCViewers
MCStreams == MCAcquirers \cup MCViewers
MCDatasets == {haadf, bf}
OneAcquirer == {a1}
OneRecorders == OneAcquirer \cup MCSavers \cup MCViewers
OneStreams == OneAcquirer \cup MCViewers
Symmetric == Permutations(MCAcquirers) \cup Permutations(MCSavers) \cup Permutations(MCDatasets)
============================================================================
