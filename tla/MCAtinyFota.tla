----------------------------- MODULE MCAtinyFota -----------------------------
(* Two packages of a head and five units of software, behind two addresses. *)
EXTENDS AtinyFota, TLC

FotaSymmetry == Permutations(Packages) \cup Permutations(Uris)
=============================================================================
