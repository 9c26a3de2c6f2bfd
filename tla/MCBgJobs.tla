------------------------------ MODULE MCBgJobs ------------------------------
(* Instances of BgJobs for TLC.                                            *)
EXTENDS BgJobs, TLC

\* Jobs and sessions are interchangeable.
Symmetry == Permutations(Jobs) \cup Permutations(Sessions)
=============================================================================
