----------------------------- MODULE MCCaseStore -----------------------------
(* Instances of CaseStore for TLC: the sets are given in each .cfg.          *)
EXTENDS CaseStoreRefines, TLC

\* Submitters and receivers are alike; no run with symmetry checks liveness.
Alike == Permutations(Submitters) \cup Permutations(Receivers)
=============================================================================
