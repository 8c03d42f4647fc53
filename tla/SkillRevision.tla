---------------------------- MODULE SkillRevision ----------------------------
(***************************************************************************)
(* The versions of one skill, and a consumer who binds one of them and     *)
(* later moves to the latest version when no diff on the way is MAJOR,     *)
(* without binding again.  Bumps are what `sabi diff` recommends between   *)
(* consecutive versions; binding is what `sabi bind` reports.              *)
(***************************************************************************)
EXTENDS SemanticDiff

CONSTANTS
    Versions,     \* contracts the author can publish
    MaxVersions,  \* bound on the length of the history
    NoConsumer

ASSUME RevisionAssumption ==
    /\ Versions \subseteq Contract
    /\ MaxVersions \in Nat \ {0}

VARIABLES
    released,   \* the versions, oldest first
    bumps,      \* bumps[i] is the diff between released[i] and released[i + 1]
    consumer    \* the version in use, and what bind reported for the one bound

vars == <<released, bumps, consumer>>

Latest == released[Len(released)]

Init ==
    /\ released \in {<<c>> : c \in Versions}
    /\ bumps = <<>>
    /\ consumer = NoConsumer

Publish(c) ==
    /\ Len(released) < MaxVersions
    /\ released' = Append(released, c)
    /\ bumps' = Append(bumps, Bump(Latest, c))
    /\ UNCHANGED consumer

(* Mutated: the position of the tier is kept, not its name.                 *)
BindByPosition(caps) ==
    /\ consumer = NoConsumer
    /\ consumer' = [version |-> Len(released), caps |-> caps,
                    tier |-> {ResolveTier(Latest.tiers, caps)},
                    unresolved |-> Latest.required \ caps]
    /\ UNCHANGED <<released, bumps>>

(* What api.bind returns for a runtime with these capabilities; the set of  *)
(* tiers is empty when none matches.                                        *)
Bind(caps) ==
    LET i == ResolveTier(Latest.tiers, caps) IN
    /\ consumer = NoConsumer
    /\ consumer' = [version |-> Len(released), caps |-> caps,
                    tier |-> IF i = NoTier THEN {} ELSE {Latest.tiers[i].name},
                    unresolved |-> Latest.required \ caps]
    /\ UNCHANGED <<released, bumps>>

Upgrade ==
    /\ consumer # NoConsumer
    /\ consumer.version < Len(released)
    /\ \A i \in consumer.version..Len(bumps) : bumps[i] # "MAJOR"
    /\ consumer' = [consumer EXCEPT !.version = Len(released)]
    /\ UNCHANGED <<released, bumps>>

Next ==
    \/ \E c \in Versions : Publish(c)
    \/ \E caps \in SUBSET Capabilities : Bind(caps)
    \/ Upgrade

Spec == Init /\ [][Next]_vars

----------------------------------------------------------------------------
(* The history and the consumer keep their type: there is one bump between  *)
(* any two consecutive versions, and the consumer knows its tier by name.   *)
TypeOK ==
    /\ released \in Seq(Versions)
    /\ Len(released) \in 1..MaxVersions
    /\ bumps \in Seq(Bumps)
    /\ Len(bumps) = Len(released) - 1
    /\ consumer \in {NoConsumer} \cup
         [version : 1..Len(released), caps : SUBSET Capabilities,
          tier : {{}} \cup {{n} : n \in TierNames}, unresolved : SUBSET Capabilities]

(* No break is hidden by going through intermediate versions: when the diff *)
(* of two versions is MAJOR, so was a diff on the way, and when every diff  *)
(* on the way was a PATCH, so is the one of the ends (semantic_diff).       *)
ChainsNeverAddUp ==
    \A j \in 1..Len(released) : \A i \in 1..j - 1 :
        LET onTheWay == {bumps[k] : k \in i..j - 1}
            ends == Bump(released[i], released[j])
        IN /\ ends = "MAJOR" => "MAJOR" \in onTheWay
           /\ onTheWay = {"PATCH"} => ends = "PATCH"

(* A consumer who only followed MINOR and PATCH diffs keeps what bind told  *)
(* it: no required capability became unresolved, and the tier it selected   *)
(* is still declared (semantic_diff, api.bind).                             *)
UpgradesKeepResolution ==
    consumer # NoConsumer =>
        LET inUse == released[consumer.version] IN
        /\ inUse.required \ consumer.caps = consumer.unresolved
        /\ consumer.tier \subseteq Names(inUse)
============================================================================
