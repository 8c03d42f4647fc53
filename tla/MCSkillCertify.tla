--------------------------- MODULE MCSkillCertify ---------------------------
(* SkillCertify on a small instance: see the README for why it is enough.   *)
EXTENDS SkillCertify, TLC

CONSTANTS md, abi, inv, eff, deg, base, other, v1, v2, junk, fit, floor, cover

(* Three cases: one looks at the profile and degradation.yaml, one at a     *)
(* fixed profile and degradation.yaml, one at skill.lock.                   *)
MCOwn == (fit :> {deg}) @@ (floor :> {base, deg}) @@ (cover :> {})
MCListed == [c \in Contents |-> IF c = junk THEN {} ELSE {fit, floor, cover}]

(* floor wants the second version of degradation.yaml, fit the first, or a  *)
(* profile that is still in its first version.                              *)
MCPasses(k, p, v) == IF k = fit THEN p = v1 \/ v[deg] = v1 ELSE v[deg] = v2

(* SKILL.md, degradation.yaml and a profile are rewritten, the other        *)
(* profile breaks, skill.abi.yaml gets lost.  The directory conforms at     *)
(* first.                                                                   *)
MCInitial == [f \in Locked |-> IF f \in {deg, abi} THEN {v2} ELSE {v1}]
MCChoices ==
    [f \in Locked |-> IF f \in {md, deg, other} THEN {v1, v2}
                      ELSE IF f = base THEN {v1, junk}
                      ELSE IF f = abi THEN {v2, NoFile} ELSE {}]

(* skill.lock is missing or pins everything.                                *)
MCTable == [f \in Paths |-> v1]
MCLockChoices == {NoFile, MCTable}
============================================================================
