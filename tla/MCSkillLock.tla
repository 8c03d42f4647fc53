---------------------------- MODULE MCSkillLock ----------------------------
(* SkillLock on a small instance: see the README for why it is enough.      *)
EXTENDS SkillLock, TLC

CONSTANTS f1, f2, e1, c1, c2, p1, p2

MCTable(x, y, z) ==
    [f \in Paths |-> CASE f = f1 -> x [] f = f2 -> y [] f = e1 -> z]

(* A lock that pins one file only, one that pins both, one with an          *)
(* ephemeral path.                                                          *)
MCStrayTables == {MCTable(c1, NoFile, NoFile), MCTable(c1, c1, NoFile),
                  MCTable(c1, NoFile, c1)}

(* The processes are interchangeable.                                       *)
MCSymmetry == Permutations(Procs)
============================================================================
