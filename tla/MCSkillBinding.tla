--------------------------- MODULE MCSkillBinding ---------------------------
(* SkillBinding on a small instance: see the README for why it is enough.   *)
EXTENDS SkillBinding, SequencesExt

CONSTANTS a, b, x

(* x is a name outside the vocabulary.                                      *)
MCTiers ==
    [requires : SUBSET {a, b} \cup {{x}}, terminal : {FALSE}]
        \cup [requires : {{}, {a, b}}, terminal : {TRUE}]

MCModels == BoundedSeq(MCTiers, 3)
MCProfiles == SUBSET {a, b}
MCRequirements == {{}, {a, b}}
============================================================================
