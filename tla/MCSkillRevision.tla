--------------------------- MODULE MCSkillRevision ---------------------------
(* SkillRevision over every contract that differs from one base contract in *)
(* at most two places.                                                      *)
EXTENDS SkillRevision

CONSTANTS a, b, fs, o1, s1, s2, full, partial, floor

MCTier(n, caps, t) == [name |-> n, requires |-> caps, terminal |-> t]
Full == MCTier(full, {a}, FALSE)
Base == [required |-> {a}, optional |-> {}, obligations |-> {}, inputs |-> s1,
         outputs |-> s1, effects |-> [k \in {fs} |-> [bound |-> 1, note |-> 1]],
         tiers |-> <<Full, MCTier(floor, {}, TRUE)>>]

(* The tiers: one more, the first renamed, the first with other needs.      *)
MCTiers == {Base.tiers, <<Full, MCTier(partial, {b}, FALSE), MCTier(floor, {}, TRUE)>>,
            <<MCTier(partial, {a}, FALSE), MCTier(floor, {}, TRUE)>>,
            <<MCTier(full, {a, b}, FALSE), MCTier(floor, {}, TRUE)>>}

MCAll == [required : {{a}, {b}, {a, b}}, optional : {{}, {b}}, obligations : {{}, {o1}},
          inputs : {s1, s2}, outputs : {s1},
          effects : {[k \in {fs} |-> e] : e \in {[bound |-> 1, note |-> 1],
                       [bound |-> 1, note |-> 2], [bound |-> 2, note |-> 1], Undeclared}},
          tiers : MCTiers]
MCVersions == {c \in MCAll : Cardinality({x \in DOMAIN Base : c[x] # Base[x]}) <= 2}
============================================================================
