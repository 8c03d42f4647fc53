-------------------------- MODULE MCEvidenceClaims --------------------------
(* EvidenceClaims on a small instance: see the README for why it is enough. *)
EXTENDS EvidenceClaims

CONSTANTS r1, r2, e1, e2

(* The evidence files are interchangeable, and so are the runtimes.         *)
MCSymmetry == Permutations(EvidenceFiles) \cup Permutations(Runtimes)
=============================================================================
