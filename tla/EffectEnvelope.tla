--------------------------- MODULE EffectEnvelope ---------------------------
(***************************************************************************)
(* The semantics of effect envelopes: when a declared envelope is well     *)
(* formed, when one envelope stays inside another, and when an observed    *)
(* effect record stays inside its envelope.  Pure operators.               *)
(*                                                                         *)
(* ${workspace} is taken to be expanded already, and a pattern can have a  *)
(* wildcard only as its last segment.                                      *)
(***************************************************************************)
EXTENDS Naturals, Sequences

CONSTANTS
    Names,       \* names of effects an envelope or a record can use
    Canonical,   \* CATEGORIES and ALIASES: the category of each name
    Unknown,     \* a name that has none
    Segments,    \* segments of a path
    Currencies,
    Unset        \* the mapping has no such key

Categories == {"filesystem", "repository", "process", "network", "message",
               "artifact", "deployment", "credential", "money"}

ASSUME EnvelopeAssumption ==
    /\ Canonical \in [Names -> Categories \cup {Unknown}]
    /\ Unknown \notin Categories
    /\ Unset \notin Nat

ListConstraints == {"scope", "paths", "branches", "destinations", "domains", "environment"}

(* The keys of CONSTRAINTS that hold lists.                                 *)
ListsOf ==
    [filesystem |-> {"scope", "paths"},
     repository |-> {"scope", "branches"},
     process    |-> {"scope", "environment"},
     network    |-> {"destinations", "domains"},
     message    |-> {"destinations"},
     artifact   |-> {"scope", "paths"},
     deployment |-> {"scope", "destinations", "environment"},
     credential |-> {"scope", "environment"},
     money      |-> {}]

(* OBSERVED_LISTS: the keys of a record, and the keys of the envelope whose *)
(* patterns bound each of them.                                             *)
ObservedKeys ==
    [filesystem |-> {"paths"}, repository |-> {"branches"},
     process    |-> {"scope", "environment"},
     network    |-> {"domains", "destinations"}, message |-> {"destinations"},
     artifact   |-> {"paths"},
     deployment |-> {"destinations", "environment"},
     credential |-> {"scope", "environment"}, money |-> {}]

BoundingKeys(cat, key) ==
    IF cat \in {"filesystem", "artifact", "repository"} THEN {key, "scope"} ELSE {key}

----------------------------------------------------------------------------
(* Patterns.                                                                *)

(* "a/b" is <<a, b>> with no wildcard, "a/*" is <<a>> with "*", and "a/**"  *)
(* is <<a>> with "**".                                                      *)
Pattern == [path : Seq(Segments), wild : {"none", "*", "**"}]
Value == {v \in Pattern : v.wild = "none" /\ v.path # <<>>}

Below(path, prefix) ==
    /\ Len(prefix) <= Len(path)
    /\ \A i \in 1..Len(prefix) : path[i] = prefix[i]

(* _glob_covers.  What it decides for outer "p/*" and inner "p/**" is that  *)
(* the rest of inner after "p/" has no slash.                               *)
GlobCovers(outer, inner) ==
    \/ outer = inner
    \/ outer.wild = "**" /\ outer.path # <<>> /\ Below(inner.path, outer.path)
    \/ outer.wild = "**" /\ outer.path = <<>> /\ inner.path = <<>> /\ inner.wild # "none"
    \/ outer.wild = "*" /\ inner.wild # "none" /\ inner.path = outer.path
    \/ outer.wild = "*" /\ inner.wild = "none"
         /\ Len(inner.path) = Len(outer.path) + 1 /\ Below(inner.path, outer.path)

Covered(value, patterns) == \E p \in patterns : GlobCovers(p, value)

----------------------------------------------------------------------------
(* Envelopes.                                                               *)

EffectSpec == [allowed : BOOLEAN \cup {Unset}, max_operations : Nat \cup {Unset},
          lists : [ListConstraints -> SUBSET Pattern],
          amount : Nat \cup {Unset}, currency : Currencies \cup {Unset},
          expose_to_model : BOOLEAN \cup {Unset}]

(* A mapping has its keys in an order, and a key once.                      *)
Envelope == Seq([name : Names, spec : EffectSpec])

Bound(n) == IF n = Unset THEN 0 ELSE n

IsVacuous(s) ==
    /\ s.allowed # TRUE /\ s.expose_to_model # TRUE
    /\ Bound(s.max_operations) = 0
    /\ Bound(s.amount) = 0
    /\ \A key \in ListConstraints : s.lists[key] = {}

Allowed(s) == IF s.allowed \in BOOLEAN THEN s.allowed ELSE ~IsVacuous(s)

DeclaresBound(s) ==
    \/ Unset # s.max_operations \/ Unset # s.amount \/ Unset # s.expose_to_model
    \/ \E key \in ListConstraints : s.lists[key] # {}

Category(env, i) == Canonical[env[i].name]

(* What makes _normalize report an error.                                   *)
Malformed(env) ==
    \E i \in 1..Len(env) :
        \/ Category(env, i) = Unknown
        \/ \E j \in 1..i - 1 : Category(env, j) = Category(env, i)

(* The entries of a category; _normalize keeps the first.                   *)
Entries(env, cat) == {i \in 1..Len(env) : Category(env, i) = cat}
Declares(env, cat) == Entries(env, cat) # {}
SpecOf(env, cat) ==
    env[CHOOSE i \in Entries(env, cat) : \A j \in Entries(env, cat) : i <= j].spec

(* validate_envelope finds nothing.                                         *)
WellFormed(env) ==
    /\ env # <<>>
    /\ ~Malformed(env)
    /\ \A i \in 1..Len(env) :
          LET s == env[i].spec
              cat == Category(env, i)
          IN /\ \A key \in ListConstraints \ ListsOf[cat] : s.lists[key] = {}
             /\ cat # "credential" => s.expose_to_model = Unset
             /\ cat # "money" => s.amount = Unset /\ s.currency = Unset
             /\ cat = "money" /\ Bound(s.amount) > 0 => s.currency # Unset
             /\ s.allowed = TRUE => DeclaresBound(s)
             /\ s.allowed = FALSE => IsVacuous(s)

(* Mutated: without a bound of its own the outer envelope is no limit.      *)
WidensUnlessBounded(cat, outer, inner) ==
    \/ Allowed(inner) /\ ~Allowed(outer)
    \/ Bound(inner.max_operations) > Bound(outer.max_operations)
         /\ outer.max_operations # Unset
    \/ \E key \in ListsOf[cat] : \E e \in inner.lists[key] : ~Covered(e, outer.lists[key])
    \/ cat = "credential" /\ inner.expose_to_model = TRUE /\ outer.expose_to_model # TRUE
    \/ cat = "money" /\ Bound(inner.amount) > Bound(outer.amount)
    \/ cat = "money" /\ Bound(inner.amount) > 0 /\ inner.currency # outer.currency

(* Mutated: a bound that is only kept counts as widening.                   *)
WidensUnlessNarrower(cat, outer, inner) ==
    \/ Allowed(inner) /\ ~Allowed(outer)
    \/ Bound(inner.max_operations) >= Bound(outer.max_operations)
    \/ \E key \in ListsOf[cat] : \E e \in inner.lists[key] : ~Covered(e, outer.lists[key])
    \/ cat = "credential" /\ inner.expose_to_model = TRUE /\ outer.expose_to_model # TRUE
    \/ cat = "money" /\ Bound(inner.amount) > Bound(outer.amount)
    \/ cat = "money" /\ Bound(inner.amount) > 0 /\ inner.currency # outer.currency

(* The comparisons of envelope_contains for one category.                   *)
Widens(cat, outer, inner) ==
    \/ Allowed(inner) /\ ~Allowed(outer)
    \/ Bound(inner.max_operations) > Bound(outer.max_operations)
    \/ \E key \in ListsOf[cat] : \E e \in inner.lists[key] : ~Covered(e, outer.lists[key])
    \/ cat = "credential" /\ inner.expose_to_model = TRUE /\ outer.expose_to_model # TRUE
    \/ cat = "money" /\ Bound(inner.amount) > Bound(outer.amount)
    \/ cat = "money" /\ Bound(inner.amount) > 0 /\ inner.currency # outer.currency

(* Mutated: a category the outer envelope does not declare is no limit.     *)
EnvelopeContainsIfDeclared(outer, inner) ==
    /\ ~Malformed(outer) /\ ~Malformed(inner)
    /\ \A cat \in Categories :
          Declares(inner, cat) /\ ~IsVacuous(SpecOf(inner, cat)) /\ Declares(outer, cat)
            => ~Widens(cat, SpecOf(outer, cat), SpecOf(inner, cat))

(* envelope_contains finds nothing.                                         *)
EnvelopeContains(outer, inner) ==
    /\ ~Malformed(outer) /\ ~Malformed(inner)
    /\ \A cat \in Categories :
          Declares(inner, cat) /\ ~IsVacuous(SpecOf(inner, cat))
            => Declares(outer, cat) /\ ~Widens(cat, SpecOf(outer, cat), SpecOf(inner, cat))

----------------------------------------------------------------------------
(* Observed effects.                                                        *)

Record == [count : Nat, lists : [ListConstraints -> SUBSET Value],
           amount : Nat \cup {Unset}, currency : Currencies \cup {Unset},
           expose_to_model : BOOLEAN]

(* A record for each effect that was observed, and one flag.                *)
IsObservation(o) ==
    /\ o.credentials_exposed \in BOOLEAN
    /\ DOMAIN o.effects \subseteq Names
    /\ \A name \in DOMAIN o.effects : o.effects[name] \in Record

IsActive(cat, rec) ==
    \/ rec.count > 0
    \/ Bound(rec.amount) > 0
    \/ \E key \in ObservedKeys[cat] : rec.lists[key] # {}
    \/ rec.expose_to_model

PatternsFor(s, cat, key) == UNION {s.lists[k] : k \in BoundingKeys(cat, key)}

Exceeds(cat, s, rec) ==
    \/ ~Allowed(s) /\ IsActive(cat, rec)
    \/ rec.count > Bound(s.max_operations)
    \/ \E key \in ObservedKeys[cat] :
          \E v \in rec.lists[key] : ~Covered(v, PatternsFor(s, cat, key))
    \/ cat = "money" /\ Bound(rec.amount) > Bound(s.amount)
    \/ cat = "money" /\ rec.currency # Unset /\ rec.currency # s.currency
    \/ cat = "credential" /\ rec.expose_to_model /\ s.expose_to_model # TRUE

(* check_observed finds nothing.  It does not look at the errors of         *)
(* _normalize.                                                              *)
Within(env, obs) ==
    /\ ~obs.credentials_exposed
    /\ \A name \in DOMAIN obs.effects :
          LET cat == Canonical[name]
              rec == obs.effects[name]
          IN /\ cat # Unknown
             /\ IF Declares(env, cat) THEN ~Exceeds(cat, SpecOf(env, cat), rec)
                                      ELSE ~IsActive(cat, rec)
============================================================================
