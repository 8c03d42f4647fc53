------------------------- MODULE MCReleasePipeline -------------------------
(* ReleasePipeline on a small instance: see the README.                     *)
EXTENDS ReleasePipeline, TLC

CONSTANTS md, abi, inv, eff, deg, bind, sch, good, bad, floor, cover

MCOwn == (floor :> {bind, deg}) @@ (cover :> {})
MCListed == [c \in Contents |-> {floor, cover}]
MCPasses(k, p, v) == v[deg] = good

(* The files certify only needs to be there can get lost, those it judges   *)
(* change too.                                                              *)
MCInitial ==
    [f \in Locked |-> IF f = bind THEN {good, NoFile}
                      ELSE IF f = deg THEN {good, bad} ELSE {good}]
MCChoices == [f \in Locked |-> IF f \in {md, deg, bind} THEN {good, bad, NoFile} ELSE {good, NoFile}]
============================================================================
