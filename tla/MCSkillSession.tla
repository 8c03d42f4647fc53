--------------------------- MODULE MCSkillSession ---------------------------
(* SkillSession on one directory with five files.  The author starts from a *)
(* good contract or from one with something wrong in it, and writes the     *)
(* versions below.                                                          *)
EXTENDS SkillSession

CONSTANTS mdFile, abiFile, ioFile, effFile, degFile, sh, v1, v2, weak, odd, broken, a, b, x

MCLocked == {mdFile, abiFile, ioFile, effFile, degFile}
MCPosition == [f \in MCLocked |-> CASE f = mdFile -> 1 [] f = abiFile -> 2
                                      [] f = effFile -> 3 [] f = degFile -> 4 [] f = ioFile -> 5]
MCContents == {v1, v2, weak, odd, broken} \cup Flaws

(* SKILL.md: v1 has no flaw, weak has no body, broken does not parse; the   *)
(* contents named after a flaw have that flaw.                              *)
MCManifestOf ==
    [c \in MCContents |-> [parses |-> c # broken,
                           flaws |-> {c} \cap Flaws,
                           body |-> c # weak]]

(* skill.abi.yaml: v2 requires more than v1.                                *)
MCRequiredOf == [c \in MCContents |-> IF c = v2 THEN {a, b} ELSE {a}]

(* degradation.yaml: v1 covers the first ABI only, v2 both; weak has one    *)
(* tier, odd asks for a capability outside the vocabulary.                  *)
Floor == [requires |-> {}, terminal |-> TRUE]
Full(caps) == [requires |-> caps, terminal |-> FALSE]
MCTiersOf ==
    [c \in MCContents |->
       CASE c = v2 -> <<Full({a, b}), Floor>>
         [] c = weak -> <<Floor>>
         [] c = odd -> <<Full({a, x}), Floor>>
         [] OTHER -> <<Full({a}), Floor>>]

(* A good contract, one with something wrong in SKILL.md, or one where one  *)
(* other file breaks a rule, or requires more.                              *)
Good == [f \in MCLocked |-> v1]
MCInitialFiles ==
    {[Good EXCEPT ![mdFile] = c] : c \in {v1, broken} \cup Flaws}
        \cup {[Good EXCEPT ![abiFile] = c] : c \in {v2, weak}}
        \cup {[Good EXCEPT ![effFile] = weak]}
        \cup {[Good EXCEPT ![degFile] = c] : c \in {broken, odd}}

MCDrafts ==
    [f \in MCLocked |->
       CASE f = mdFile -> {v1, weak, NoFile}
         [] f = abiFile -> {v1, v2, broken, NoFile}
         [] f = effFile -> {v1, broken, NoFile}
         [] f = ioFile -> {v1, weak, NoFile}
         [] OTHER -> {v1, v2, weak, NoFile}]

(* A lock of the good contract, one of the contract with the larger ABI, and *)
(* one with the flaw of SKILL.md that no rule notices.                       *)
MCStrayTables ==
    {Good, [Good EXCEPT ![abiFile] = v2], [Good EXCEPT ![mdFile] = "final newline"]}
============================================================================
