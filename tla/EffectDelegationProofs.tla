----------------------- MODULE EffectDelegationProofs -----------------------
(***************************************************************************)
(* What narrowing guarantees, for every set of envelopes and observations  *)
(* and however long the chain of grants: everything where it is clear, and *)
(* the reach of the declared patterns in any case.                         *)
(***************************************************************************)
EXTENDS EffectDelegation, WellFoundedInduction, TLAPS

----------------------------------------------------------------------------
(* Patterns.                                                                *)

(* Being below a path is transitive.                                        *)
LEMMA BelowTransitive ==
    ASSUME NEW p \in Seq(Segments), NEW q \in Seq(Segments), NEW r \in Seq(Segments),
           Below(q, p), Below(r, q)
    PROVE  Below(r, p)
BY DEF Below

(* A pattern that covers another one, or a value, and is not confused with  *)
(* it.  A value is never confused with anything.                            *)
SoundlyCovers(p, q) == GlobCovers(p, q) /\ ~Confused(p, q)

(* What a pattern covers is itself, or is below the path of its wildcard.   *)
LEMMA CoveredIsBelow ==
    ASSUME NEW p \in Pattern, NEW q \in Pattern, GlobCovers(p, q)
    PROVE  p = q \/ (p.wild # "none" /\ Below(q.path, p.path))
<1>1. p.path \in Seq(Segments) /\ q.path \in Seq(Segments) BY DEF Pattern
<1>2. q.path = p.path => Below(q.path, p.path) BY <1>1 DEF Below
<1> QED BY <1>1, <1>2 DEF GlobCovers

(* Covering soundly is transitive, down to patterns and values.             *)
LEMMA SoundTransitive ==
    ASSUME NEW outer \in Pattern, NEW mid \in Pattern, NEW inner \in Pattern,
           SoundlyCovers(outer, mid), SoundlyCovers(mid, inner)
    PROVE  SoundlyCovers(outer, inner)
<1>1. /\ inner.path \in Seq(Segments) /\ mid.path \in Seq(Segments)
      /\ outer.path \in Seq(Segments)
  BY DEF Pattern
<1>2. CASE outer = mid \/ mid = inner BY <1>2
<1>3. CASE outer # mid /\ mid # inner
  <2>1. /\ outer.wild # "none" /\ Below(mid.path, outer.path)
        /\ mid.wild # "none" /\ Below(inner.path, mid.path)
    BY <1>3, CoveredIsBelow DEF SoundlyCovers
  <2>2. Below(inner.path, outer.path) BY <1>1, <2>1, BelowTransitive
  <2>3. CASE outer.wild = "*"
    <3>1. mid.path = outer.path BY <2>1, <2>3, <1>3 DEF GlobCovers, SoundlyCovers
    <3>2. mid.wild = "**" /\ outer.path = <<>>
      BY <1>3, <2>1, <2>3, <3>1 DEF Pattern, SoundlyCovers, Confused
    <3>3. inner.path = <<>> /\ inner.wild = "*"
      BY <1>3, <2>1, <3>1, <3>2 DEF Pattern, SoundlyCovers, GlobCovers
    <3> QED BY <3>1, <3>2, <3>3 DEF SoundlyCovers, Confused
  <2>4. CASE outer.wild = "**" /\ outer.path # <<>>
    BY <2>2, <2>4 DEF SoundlyCovers, GlobCovers, Confused
  <2>5. CASE outer.wild = "**" /\ outer.path = <<>>
    <3>1. mid.path = <<>> /\ mid.wild = "*"
      BY <1>3, <2>1, <2>5 DEF Pattern, SoundlyCovers, GlobCovers
    <3> QED BY <2>5, <3>1 DEF SoundlyCovers, Confused
  <2> QED BY <2>1, <2>3, <2>4, <2>5 DEF Pattern
<1> QED BY <1>2, <1>3

(* What a pattern covers reaches no further than the pattern.               *)
LEMMA ReachingTransitive ==
    ASSUME NEW outer \in Pattern, NEW inner \in Pattern, NEW v \in Value,
           GlobCovers(outer, inner), Reaches(inner, v)
    PROVE  Reaches(outer, v)
<1>1. /\ inner.path \in Seq(Segments) /\ outer.path \in Seq(Segments)
      /\ v.path \in Seq(Segments) /\ v \in Pattern
  BY DEF Pattern, Value
<1>2. v.path = inner.path => Below(v.path, inner.path) BY <1>1 DEF Below
<1> QED BY <1>1, <1>2, CoveredIsBelow, BelowTransitive DEF Reaches

(* _glob_covers is wrong about exactly the confused pairs: where it says    *)
(* that p covers q, every value q covers is covered by p, except for those. *)
THEOREM WrongExactlyWhenConfused ==
    ASSUME Segments # {}, NEW p \in Pattern, NEW q \in Pattern, GlobCovers(p, q)
    PROVE  Confused(p, q) <=> \E v \in Value : GlobCovers(q, v) /\ ~GlobCovers(p, v)
<1>1. ASSUME NEW v \in Value, GlobCovers(q, v), ~Confused(p, q)
      PROVE  GlobCovers(p, v)
  <2>1. v \in Pattern /\ v.wild = "none" BY DEF Value
  <2>2. SoundlyCovers(q, v) BY <1>1, <2>1 DEF SoundlyCovers, Confused
  <2>3. SoundlyCovers(p, q) BY <1>1 DEF SoundlyCovers
  <2> QED BY <2>1, <2>2, <2>3, SoundTransitive DEF SoundlyCovers
<1>2. CASE p.wild = "*" /\ q.wild = "**" /\ p.path = q.path /\ p.path # <<>>
  <2> DEFINE v == [path |-> q.path, wild |-> "none"]
  <2>1. v \in Value BY <1>2 DEF Value, Pattern
  <2>2. GlobCovers(q, v) BY <1>2 DEF GlobCovers, Below, Pattern
  <2>3. Len(p.path) \in Nat BY DEF Pattern
  <2>4. ~GlobCovers(p, v) BY <1>2, <2>3 DEF GlobCovers
  <2> QED BY <2>1, <2>2, <2>4, <1>2 DEF Confused
<1>3. CASE p.wild = "**" /\ q.wild = "*" /\ p.path = <<>> /\ q.path = <<>>
  <2>1. PICK s \in Segments : TRUE OBVIOUS
  <2> DEFINE v == [path |-> <<s>>, wild |-> "none"]
  <2>2. v \in Value
    <3>1. <<s>> \in Seq(Segments) /\ <<s>> # <<>> OBVIOUS
    <3>2. v \in Pattern BY <3>1 DEF Pattern
    <3> QED BY <3>1, <3>2 DEF Value
  <2>3. GlobCovers(q, v) BY <1>3 DEF GlobCovers, Below
  <2>4. ~GlobCovers(p, v) BY <1>3 DEF GlobCovers
  <2> QED BY <2>2, <2>3, <2>4, <1>3 DEF Confused
<1> QED BY <1>1, <1>2, <1>3 DEF Confused

----------------------------------------------------------------------------
(* The tables and the entries.                                              *)

(* A record's key is bounded by lists that envelope_contains compares.      *)
LEMMA BoundedKeysAreCompared ==
    ASSUME NEW cat \in Categories, NEW key \in ObservedKeys[cat],
           NEW k \in BoundingKeys(cat, key)
    PROVE  k \in ListsOf[cat] /\ k \in ListConstraints
BY DEF Categories, ObservedKeys, BoundingKeys, ListsOf, ListConstraints

(* The values a record lists under a key that is looked at.                 *)
LEMMA ObservedValues ==
    ASSUME NEW cat \in Categories, NEW rec \in Record,
           NEW key \in ObservedKeys[cat], NEW v \in rec.lists[key]
    PROVE  v \in Value
<1>1. key \in BoundingKeys(cat, key) BY DEF BoundingKeys
<1>2. key \in ListConstraints BY <1>1, BoundedKeysAreCompared
<1>3. rec.lists \in [ListConstraints -> SUBSET Value] BY DEF Record
<1>4. rec.lists[key] \in SUBSET Value BY <1>2, <1>3
<1> QED BY <1>4

(* A set of positions has a first one.                                      *)
LEMMA LeastElement ==
    ASSUME NEW T \in SUBSET Nat, T # {}
    PROVE  \E i \in T : \A j \in T : i <= j
<1>1. \E i \in T : \A j \in T : <<j, i>> \notin OpToRel(<, Nat)
  BY NatLessThanWellFounded, WFMin
<1>2. PICK i \in T : \A j \in T : <<j, i>> \notin OpToRel(<, Nat)
  BY <1>1
<1>3. ASSUME NEW j \in T PROVE i <= j
  <2>1. ~ (j < i) BY <1>2 DEF OpToRel
  <2> QED BY <2>1
<1> QED BY <1>3

(* The entry _normalize keeps is one of the envelope.                       *)
LEMMA KeptEntry ==
    ASSUME NEW env \in Envelope, NEW cat, Declares(env, cat)
    PROVE  \E i \in 1..Len(env) : SpecOf(env, cat) = env[i].spec
<1> DEFINE T == Entries(env, cat)
<1>1. T \in SUBSET Nat /\ T # {} BY DEF Entries, Declares
<1>2. \E i \in T : \A j \in T : i <= j BY <1>1, LeastElement
<1>3. (CHOOSE i \in T : \A j \in T : i <= j) \in T BY <1>2
<1> QED BY <1>3 DEF SpecOf, Entries

(* So what is compared is a well-formed entry, with patterns of the         *)
(* envelope itself.                                                         *)
LEMMA KeptSpec ==
    ASSUME NEW env \in Envelope, NEW cat, Declares(env, cat)
    PROVE  /\ SpecOf(env, cat) \in EffectSpec
           /\ \A key \in ListConstraints : SpecOf(env, cat).lists[key] \subseteq PatternsOf(env)
<1> DEFINE E == [name : Names, spec : EffectSpec]
<1>1. \E i \in 1..Len(env) : SpecOf(env, cat) = env[i].spec BY KeptEntry
<1>2. PICK i \in 1..Len(env) : SpecOf(env, cat) = env[i].spec BY <1>1
<1>3. env \in Seq(E) BY DEF Envelope
<1> HIDE DEF E
<1>4. env[i] \in E BY <1>3
<1>5. env[i].spec \in EffectSpec
  BY <1>4 DEF E
<1> QED BY <1>2, <1>5 DEF PatternsOf

----------------------------------------------------------------------------
(* One grant.                                                               *)

(* An effect that did not happen exceeds nothing.                           *)
LEMMA InactiveExceedsNothing ==
    ASSUME NEW cat \in Categories, NEW s \in EffectSpec, NEW rec \in Record,
           ~IsActive(cat, rec),
           cat = "money" /\ rec.currency # Unset => Bound(rec.amount) > 0
    PROVE  ~Exceeds(cat, s, rec)
<1>1. /\ rec.count \in Nat /\ ~ (rec.count > 0)
      /\ ~ (Bound(rec.amount) > 0)
      /\ \A key \in ObservedKeys[cat] : rec.lists[key] = {}
      /\ ~rec.expose_to_model
  BY DEF IsActive, Record
<1>2. Bound(s.max_operations) \in Nat /\ Bound(s.amount) \in Nat /\ Bound(rec.amount) \in Nat
  BY DEF Bound, EffectSpec, Record
<1>3. ~ (rec.count > Bound(s.max_operations)) /\ ~ (Bound(rec.amount) > Bound(s.amount))
  BY <1>1, <1>2
<1>4. cat = "money" => rec.currency = Unset BY <1>1
<1> QED BY <1>1, <1>3, <1>4, Zenon DEF Exceeds

(* What envelope_contains finds of one category, and soundly.               *)
Narrows(cat, outer, inner) ==
    /\ ~Widens(cat, outer, inner)
    /\ \A key \in ListsOf[cat] : \A q \in inner.lists[key] :
          \E p \in outer.lists[key] : SoundlyCovers(p, q)

(* A specification that narrows lets nothing new through.                   *)
LEMMA NarrowerExceeds ==
    ASSUME NEW cat \in Categories, NEW outer \in EffectSpec, NEW inner \in EffectSpec,
           NEW rec \in Record,
           Narrows(cat, outer, inner),
           ~Exceeds(cat, inner, rec),
           cat = "money" /\ rec.currency # Unset => Bound(rec.amount) > 0
    PROVE  ~Exceeds(cat, outer, rec)
<1>1. /\ Bound(outer.max_operations) \in Nat /\ Bound(inner.max_operations) \in Nat
      /\ Bound(outer.amount) \in Nat /\ Bound(inner.amount) \in Nat
      /\ Bound(rec.amount) \in Nat /\ rec.count \in Nat
  BY DEF Bound, EffectSpec, Record
<1> USE DEF Narrows
<1>2. ~ (~Allowed(outer) /\ IsActive(cat, rec)) BY DEF Widens, Exceeds
<1>3. ~ (rec.count > Bound(outer.max_operations))
  <2>1. ~ (Bound(inner.max_operations) > Bound(outer.max_operations)) BY Zenon DEF Widens
  <2>2. ~ (rec.count > Bound(inner.max_operations)) BY Zenon DEF Exceeds
  <2> QED BY <1>1, <2>1, <2>2
<1>4. ASSUME NEW key \in ObservedKeys[cat], NEW v \in rec.lists[key]
      PROVE  Covered(v, PatternsFor(outer, cat, key))
  <2>1. PICK q \in PatternsFor(inner, cat, key) : GlobCovers(q, v) BY DEF Exceeds, Covered
  <2>2. PICK k \in BoundingKeys(cat, key) : q \in inner.lists[k] BY DEF PatternsFor
  <2>3. k \in ListsOf[cat] /\ k \in ListConstraints BY BoundedKeysAreCompared
  <2>4. PICK p \in outer.lists[k] : SoundlyCovers(p, q) BY <2>2, <2>3
  <2>5. p \in Pattern /\ q \in Pattern BY <2>2, <2>3 DEF EffectSpec
  <2>6. v \in Pattern /\ v.wild = "none" BY ObservedValues DEF Value
  <2>7. SoundlyCovers(q, v) BY <2>1, <2>6 DEF SoundlyCovers, Confused
  <2>8. SoundlyCovers(p, v) BY <2>4, <2>5, <2>6, <2>7, SoundTransitive
  <2> QED BY <2>8, <2>2 DEF Covered, PatternsFor, SoundlyCovers
<1>5. ~ (cat = "money" /\ Bound(rec.amount) > Bound(outer.amount))
  <2> SUFFICES ASSUME cat = "money" PROVE ~ (Bound(rec.amount) > Bound(outer.amount))
    OBVIOUS
  <2>1. ~ (Bound(inner.amount) > Bound(outer.amount)) BY Zenon DEF Widens
  <2>2. ~ (Bound(rec.amount) > Bound(inner.amount)) BY Zenon DEF Exceeds
  <2> QED BY <1>1, <2>1, <2>2
<1>6. ~ (cat = "money" /\ rec.currency # Unset /\ rec.currency # outer.currency)
  <2> SUFFICES ASSUME cat = "money", rec.currency # Unset
               PROVE  rec.currency = outer.currency
    OBVIOUS
  <2>1. ~ (Bound(rec.amount) > Bound(inner.amount)) BY Zenon DEF Exceeds
  <2>2. Bound(inner.amount) > 0 BY <1>1, <2>1
  <2>3. inner.currency = outer.currency BY <2>2, Zenon DEF Widens
  <2>4. rec.currency = inner.currency BY Zenon DEF Exceeds
  <2> QED BY <2>3, <2>4
<1>7. ~ (cat = "credential" /\ rec.expose_to_model /\ outer.expose_to_model # TRUE)
  BY DEF Widens, Exceeds
<1> QED BY <1>2, <1>3, <1>4, <1>5, <1>6, <1>7 DEF Exceeds

(* An effect within a specification is within its reach.                    *)
LEMMA WithinIsWithinReach ==
    ASSUME NEW cat \in Categories, NEW s \in EffectSpec, NEW rec \in Record,
           ~Exceeds(cat, s, rec), IsActive(cat, rec)
    PROVE  ~OutOfReach(cat, s, rec)
<1>1. Allowed(s) BY DEF Exceeds
<1>2. ASSUME NEW key \in ObservedKeys[cat], NEW v \in rec.lists[key]
      PROVE  \E p \in PatternsFor(s, cat, key) : Reaches(p, v)
  <2>1. PICK p \in PatternsFor(s, cat, key) : GlobCovers(p, v) BY DEF Exceeds, Covered
  <2>2. PICK k \in BoundingKeys(cat, key) : p \in s.lists[k] BY DEF PatternsFor
  <2>3. p \in Pattern BY <2>2, BoundedKeysAreCompared DEF EffectSpec
  <2>4. v \in Pattern BY ObservedValues DEF Value
  <2> QED BY <2>1, <2>3, <2>4, CoveredIsBelow DEF Reaches
<1> QED BY <1>1, <1>2, Zenon DEF Exceeds, OutOfReach

(* Nor does a specification reach further than one it does not widen,       *)
(* confused or not.                                                         *)
LEMMA NarrowerReaches ==
    ASSUME NEW cat \in Categories, NEW outer \in EffectSpec, NEW inner \in EffectSpec,
           NEW rec \in Record,
           ~Widens(cat, outer, inner),
           ~OutOfReach(cat, inner, rec)
    PROVE  ~OutOfReach(cat, outer, rec)
<1>1. /\ Bound(outer.max_operations) \in Nat /\ Bound(inner.max_operations) \in Nat
      /\ Bound(outer.amount) \in Nat /\ Bound(inner.amount) \in Nat
      /\ Bound(rec.amount) \in Nat /\ rec.count \in Nat
  BY DEF Bound, EffectSpec, Record
<1>2. Allowed(outer) BY DEF Widens, OutOfReach
<1>3. ~ (rec.count > Bound(outer.max_operations))
  <2>1. ~ (Bound(inner.max_operations) > Bound(outer.max_operations)) BY Zenon DEF Widens
  <2>2. ~ (rec.count > Bound(inner.max_operations)) BY Zenon DEF OutOfReach
  <2> QED BY <1>1, <2>1, <2>2
<1>4. ASSUME NEW key \in ObservedKeys[cat], NEW v \in rec.lists[key]
      PROVE  \E p \in PatternsFor(outer, cat, key) : Reaches(p, v)
  <2>1. PICK q \in PatternsFor(inner, cat, key) : Reaches(q, v) BY Zenon DEF OutOfReach
  <2>2. PICK k \in BoundingKeys(cat, key) : q \in inner.lists[k] BY DEF PatternsFor
  <2>3. k \in ListsOf[cat] /\ k \in ListConstraints BY BoundedKeysAreCompared
  <2>4. PICK p \in outer.lists[k] : GlobCovers(p, q) BY <2>2, <2>3 DEF Widens, Covered
  <2>5. p \in Pattern /\ q \in Pattern BY <2>2, <2>3 DEF EffectSpec
  <2>6. Reaches(p, v) BY <2>1, <2>4, <2>5, ObservedValues, ReachingTransitive
  <2> QED BY <2>2, <2>6 DEF PatternsFor
<1>5. ASSUME cat = "money"
      PROVE  /\ ~ (Bound(rec.amount) > Bound(outer.amount))
             /\ ~ (Bound(rec.amount) > 0 /\ rec.currency \notin {Unset, outer.currency})
  <2>1. /\ ~ (Bound(inner.amount) > Bound(outer.amount))
        /\ ~ (Bound(inner.amount) > 0 /\ inner.currency # outer.currency)
    BY <1>5, Zenon DEF Widens
  <2>2. /\ ~ (Bound(rec.amount) > Bound(inner.amount))
        /\ ~ (Bound(rec.amount) > 0 /\ rec.currency \notin {Unset, inner.currency})
    BY <1>5, Zenon DEF OutOfReach
  <2>3. Bound(rec.amount) > 0 => Bound(inner.amount) > 0 BY <1>1, <2>2
  <2>4. ~ (Bound(rec.amount) > 0 /\ rec.currency \notin {Unset, outer.currency})
    BY <2>1, <2>2, <2>3, Zenon
  <2> QED BY <1>1, <2>1, <2>2, <2>4
<1>6. ~ (cat = "credential" /\ rec.expose_to_model /\ outer.expose_to_model # TRUE)
  BY DEF Widens, OutOfReach
<1> QED BY <1>2, <1>3, <1>4, <1>5, <1>6, Zenon DEF OutOfReach

(* A vacuous specification allows no effect at all.                         *)
LEMMA VacuousAllowsNothing ==
    ASSUME NEW s \in EffectSpec, IsVacuous(s)
    PROVE  ~Allowed(s)
BY DEF IsVacuous, Allowed

(* Where the inner envelope allows something, envelope_contains compared it *)
(* with something.                                                          *)
LEMMA AllowedIsCompared ==
    ASSUME NEW outer \in Envelope, NEW inner \in Envelope, NEW cat \in Categories,
           EnvelopeContains(outer, inner),
           Declares(inner, cat), Allowed(SpecOf(inner, cat))
    PROVE  /\ Declares(outer, cat)
           /\ SpecOf(outer, cat) \in EffectSpec /\ SpecOf(inner, cat) \in EffectSpec
           /\ ~Widens(cat, SpecOf(outer, cat), SpecOf(inner, cat))
<1>1. SpecOf(inner, cat) \in EffectSpec BY KeptSpec
<1>2. ~IsVacuous(SpecOf(inner, cat)) BY <1>1, VacuousAllowsNothing
<1>3. Declares(outer, cat) /\ ~Widens(cat, SpecOf(outer, cat), SpecOf(inner, cat))
  BY <1>2 DEF EnvelopeContains
<1> QED BY <1>1, <1>3, KeptSpec

(* And soundly, between envelopes that are clear.                           *)
LEMMA ClearNarrows ==
    ASSUME NEW outer \in Envelope, NEW inner \in Envelope, NEW cat \in Categories,
           EnvelopeContains(outer, inner), Clear(outer, inner),
           Declares(inner, cat), Allowed(SpecOf(inner, cat))
    PROVE  Narrows(cat, SpecOf(outer, cat), SpecOf(inner, cat))
<1>1. Declares(outer, cat) /\ ~Widens(cat, SpecOf(outer, cat), SpecOf(inner, cat))
  BY AllowedIsCompared
<1>2. ASSUME NEW key \in ListsOf[cat], NEW q \in SpecOf(inner, cat).lists[key]
      PROVE  \E p \in SpecOf(outer, cat).lists[key] : SoundlyCovers(p, q)
  <2>1. key \in ListConstraints BY DEF Categories, ListsOf, ListConstraints
  <2>2. PICK p \in SpecOf(outer, cat).lists[key] : GlobCovers(p, q)
    BY <1>1 DEF Widens, Covered
  <2>3. p \in PatternsOf(outer) /\ q \in PatternsOf(inner)
    BY <1>1, <2>1, KeptSpec
  <2> QED BY <2>2, <2>3 DEF Clear, SoundlyCovers
<1> QED BY <1>1, <1>2 DEF Narrows

(* envelope_contains is sound where nothing is confused: what stays within  *)
(* the inner envelope stays within the outer one.                           *)
THEOREM ContainmentIsSound ==
    ASSUME NEW outer \in Envelope, NEW inner \in Envelope, NEW o,
           IsObservation(o), Priced(o),
           EnvelopeContains(outer, inner), Clear(outer, inner), Within(inner, o)
    PROVE  Within(outer, o)
<1>1. ~o.credentials_exposed BY DEF Within
<1>2. ASSUME NEW name \in DOMAIN o.effects
      PROVE  LET cat == Canonical[name]
                 rec == o.effects[name]
             IN /\ cat # Unknown
                /\ IF Declares(outer, cat) THEN ~Exceeds(cat, SpecOf(outer, cat), rec)
                                           ELSE ~IsActive(cat, rec)
  <2> DEFINE cat == Canonical[name]
             rec == o.effects[name]
  <2>1. rec \in Record /\ name \in Names BY DEF IsObservation
  <2>2. cat \in Categories /\ cat # Unknown
    BY <2>1, EnvelopeAssumption DEF Within
  <2>3. cat = "money" /\ rec.currency # Unset => Bound(rec.amount) > 0
    BY DEF Priced
  <2>4. CASE ~IsActive(cat, rec)
    <3>1. Declares(outer, cat) => ~Exceeds(cat, SpecOf(outer, cat), rec)
      BY <2>1, <2>2, <2>3, <2>4, KeptSpec, InactiveExceedsNothing
    <3> QED BY <2>2, <2>4, <3>1
  <2>5. CASE IsActive(cat, rec)
    <3>1. Declares(inner, cat) /\ ~Exceeds(cat, SpecOf(inner, cat), rec)
      BY <2>5 DEF Within
    <3>2. Allowed(SpecOf(inner, cat)) BY <2>5, <3>1 DEF Exceeds
    <3>3. /\ Declares(outer, cat)
          /\ SpecOf(outer, cat) \in EffectSpec /\ SpecOf(inner, cat) \in EffectSpec
          /\ Narrows(cat, SpecOf(outer, cat), SpecOf(inner, cat))
      BY <2>2, <3>1, <3>2, AllowedIsCompared, ClearNarrows
    <3>4. ~Exceeds(cat, SpecOf(outer, cat), rec)
      BY <2>1, <2>2, <2>3, <3>1, <3>3, NarrowerExceeds
    <3> QED BY <2>2, <3>3, <3>4
  <2> QED BY <2>4, <2>5
<1> QED BY <1>1, <1>2 DEF Within

(* What stays within an envelope stays within its reach.                    *)
LEMMA WithinReachOfIt ==
    ASSUME NEW env \in Envelope, NEW o, IsObservation(o), Within(env, o)
    PROVE  WithinReach(env, o)
<1>1. ~o.credentials_exposed BY DEF Within
<1>2. ASSUME NEW name \in DOMAIN o.effects
      PROVE  LET cat == Canonical[name]
                 rec == o.effects[name]
             IN /\ cat # Unknown
                /\ IsActive(cat, rec)
                     => Declares(env, cat) /\ ~OutOfReach(cat, SpecOf(env, cat), rec)
  <2> DEFINE cat == Canonical[name]
             rec == o.effects[name]
  <2>1. rec \in Record /\ name \in Names BY DEF IsObservation
  <2>2. cat \in Categories /\ cat # Unknown
    BY <2>1, EnvelopeAssumption DEF Within
  <2>3. ASSUME IsActive(cat, rec)
        PROVE  Declares(env, cat) /\ ~OutOfReach(cat, SpecOf(env, cat), rec)
    <3>1. Declares(env, cat) /\ ~Exceeds(cat, SpecOf(env, cat), rec) BY <2>3 DEF Within
    <3> QED BY <2>1, <2>2, <2>3, <3>1, KeptSpec, WithinIsWithinReach
  <2> QED BY <2>2, <2>3
<1> QED BY <1>1, <1>2 DEF WithinReach

(* envelope_contains in any case keeps the reach: nothing is assumed of the *)
(* patterns or of the records.                                              *)
THEOREM ContainmentKeepsReach ==
    ASSUME NEW outer \in Envelope, NEW inner \in Envelope, NEW o, IsObservation(o),
           EnvelopeContains(outer, inner), WithinReach(inner, o)
    PROVE  WithinReach(outer, o)
<1>1. ~o.credentials_exposed BY DEF WithinReach
<1>2. ASSUME NEW name \in DOMAIN o.effects
      PROVE  LET cat == Canonical[name]
                 rec == o.effects[name]
             IN /\ cat # Unknown
                /\ IsActive(cat, rec)
                     => Declares(outer, cat) /\ ~OutOfReach(cat, SpecOf(outer, cat), rec)
  <2> DEFINE cat == Canonical[name]
             rec == o.effects[name]
  <2>1. rec \in Record /\ name \in Names BY DEF IsObservation
  <2>2. cat \in Categories /\ cat # Unknown
    BY <2>1, EnvelopeAssumption DEF WithinReach
  <2>3. ASSUME IsActive(cat, rec)
        PROVE  Declares(outer, cat) /\ ~OutOfReach(cat, SpecOf(outer, cat), rec)
    <3>1. Declares(inner, cat) /\ ~OutOfReach(cat, SpecOf(inner, cat), rec)
      BY <2>3 DEF WithinReach
    <3>2. Allowed(SpecOf(inner, cat)) BY <3>1 DEF OutOfReach
    <3>3. /\ Declares(outer, cat)
          /\ SpecOf(outer, cat) \in EffectSpec /\ SpecOf(inner, cat) \in EffectSpec
          /\ ~Widens(cat, SpecOf(outer, cat), SpecOf(inner, cat))
      BY <2>2, <3>1, <3>2, AllowedIsCompared
    <3> QED BY <2>1, <2>2, <3>1, <3>3, NarrowerReaches
  <2> QED BY <2>2, <2>3
<1> QED BY <1>1, <1>2 DEF WithinReach

----------------------------------------------------------------------------
(* Any number of grants.                                                    *)

(* Every variable keeps its type.                                           *)
THEOREM TypeCorrect == Spec => []TypeOK
<1>1. Init => TypeOK BY DEF Init, TypeOK
<1>2. TypeOK /\ [Next]_vars => TypeOK'
  <2> SUFFICES ASSUME TypeOK, [Next]_vars PROVE TypeOK'
    OBVIOUS
  <2>1. clear' \in BOOLEAN
    BY Zenon DEF TypeOK, Next, Grant, Observe, vars
  <2> QED BY <2>1 DEF TypeOK, Next, Grant, Observe, vars
<1> QED BY <1>1, <1>2, PTL DEF Spec

(* The invariant: whatever the envelope in force lets through, the declared *)
(* one lets through, as long as the grants were clear; and it never reaches *)
(* further.                                                                 *)
ClearInsideDeclared ==
    clear => \A o \in Observations :
                Priced(o) /\ Within(granted, o) => Within(declared, o)

ReachInsideDeclared ==
    \A o \in Observations : WithinReach(granted, o) => WithinReach(declared, o)

IInv ==
    /\ TypeOK
    /\ ClearInsideDeclared /\ ReachInsideDeclared
    /\ AcceptedWithinDeclaredIfClear /\ AcceptedWithinReach

(* One more grant.                                                          *)
LEMMA GrantKeepsInside ==
    ASSUME IInv, NEW e \in Envelopes, Grant(e)
    PROVE  IInv'
<1>1. /\ declared \in Envelope /\ granted \in Envelope /\ e \in Envelope
      /\ \A o \in Observations : IsObservation(o)
  BY DelegationAssumption DEF IInv, TypeOK
<1>2. /\ EnvelopeContains(granted, e)
      /\ granted' = e /\ declared' = declared /\ accepted' = accepted
      /\ clear' = (clear /\ Clear(granted, e))
  BY DEF Grant
<1>3. clear' => clear /\ Clear(granted, e) BY <1>2, Zenon
<1>4. TypeOK'
  <2>1. clear' \in BOOLEAN BY <1>2, Zenon
  <2> QED BY <1>2, <2>1 DEF IInv, TypeOK
<1>5. ClearInsideDeclared'
  <2> SUFFICES ASSUME clear', NEW o \in Observations, Priced(o), Within(e, o)
               PROVE  Within(declared, o)
    BY <1>2 DEF ClearInsideDeclared
  <2>1. Within(granted, o) BY <1>1, <1>2, <1>3, ContainmentIsSound
  <2> QED BY <1>3, <2>1 DEF IInv, ClearInsideDeclared
<1>6. ReachInsideDeclared'
  <2> SUFFICES ASSUME NEW o \in Observations, WithinReach(e, o)
               PROVE  WithinReach(declared, o)
    BY <1>2 DEF ReachInsideDeclared
  <2>1. WithinReach(granted, o) BY <1>1, <1>2, ContainmentKeepsReach
  <2> QED BY <2>1 DEF IInv, ReachInsideDeclared
<1>7. AcceptedWithinDeclaredIfClear'
  BY <1>2, <1>3, Zenon DEF IInv, AcceptedWithinDeclaredIfClear
<1>8. AcceptedWithinReach' BY <1>2 DEF IInv, AcceptedWithinReach
<1> QED BY <1>4, <1>5, <1>6, <1>7, <1>8 DEF IInv

(* What is accepted was within the envelope in force, so within the         *)
(* declared one and within its reach.                                       *)
LEMMA ObserveKeepsInside ==
    ASSUME IInv, NEW o \in Observations, Observe(o)
    PROVE  IInv'
<1>1. /\ Within(granted, o) /\ accepted' = o
      /\ granted' = granted /\ declared' = declared /\ clear' = clear
  BY DEF Observe
<1>2. granted \in Envelope /\ IsObservation(o)
  BY DelegationAssumption DEF IInv, TypeOK
<1>3. TypeOK' /\ ClearInsideDeclared' /\ ReachInsideDeclared'
  BY <1>1 DEF IInv, TypeOK, ClearInsideDeclared, ReachInsideDeclared
<1>4. AcceptedWithinDeclaredIfClear'
  BY <1>1 DEF IInv, ClearInsideDeclared, AcceptedWithinDeclaredIfClear
<1>5. WithinReach(granted, o) BY <1>1, <1>2, WithinReachOfIt
<1>6. AcceptedWithinReach'
  BY <1>1, <1>5 DEF IInv, ReachInsideDeclared, AcceptedWithinReach
<1> QED BY <1>3, <1>4, <1>6 DEF IInv

LEMMA Invariance == Spec => []IInv
<1>1. Init => IInv
  BY DEF Init, IInv, TypeOK, ClearInsideDeclared, ReachInsideDeclared,
         AcceptedWithinDeclaredIfClear, AcceptedWithinReach
<1>2. IInv /\ [Next]_vars => IInv'
  <2> SUFFICES ASSUME IInv, [Next]_vars PROVE IInv'
    OBVIOUS
  <2>1. CASE UNCHANGED vars
    BY <2>1 DEF vars, IInv, TypeOK, ClearInsideDeclared, ReachInsideDeclared,
                AcceptedWithinDeclaredIfClear, AcceptedWithinReach
  <2> QED BY <2>1, GrantKeepsInside, ObserveKeepsInside DEF Next
<1> QED BY <1>1, <1>2, PTL DEF Spec

(* What is accepted at the end of a chain of clear grants is inside the     *)
(* envelope the skill declared (envelope_contains, check_observed).         *)
THEOREM AcceptedIsWithinDeclared == Spec => []AcceptedWithinDeclaredIfClear
<1>1. IInv => AcceptedWithinDeclaredIfClear BY DEF IInv
<1> QED BY <1>1, Invariance, PTL

(* At the end of any chain of grants it is within reach of that envelope.   *)
THEOREM AcceptedIsWithinReach == Spec => []AcceptedWithinReach
<1>1. IInv => AcceptedWithinReach BY DEF IInv
<1> QED BY <1>1, Invariance, PTL

(* No clear grant lets through what the envelope before it stopped          *)
(* (envelope_contains).                                                     *)
THEOREM GrantsNeverWidenAnything == Spec => GrantsNeverWiden
<1> DEFINE Narrowed ==
      Clear(granted, granted')
        => \A o \in Observations : Priced(o) /\ Within(granted', o) => Within(granted, o)
<1>1. ASSUME TypeOK, [Next]_vars PROVE Narrowed
  <2>1. ASSUME NEW e \in Envelopes, Grant(e) PROVE Narrowed
    BY <1>1, <2>1, ContainmentIsSound, DelegationAssumption DEF TypeOK, Grant
  <2>2. CASE granted' = granted BY <2>2
  <2> QED BY <1>1, <2>1, <2>2 DEF Next, Observe, vars
<1>2. TypeOK /\ [Next]_vars => [Narrowed]_vars BY <1>1
<1> QED BY <1>2, TypeCorrect, PTL DEF Spec, GrantsNeverWiden

----------------------------------------------------------------------------
(* The whole chain against the declaration.                                 *)

(* An entry narrows itself.                                                 *)
LEMMA NarrowsItself ==
    ASSUME NEW cat \in Categories, NEW s \in EffectSpec
    PROVE  Narrows(cat, s, s)
<1>1. Bound(s.max_operations) \in Nat /\ Bound(s.amount) \in Nat
  BY DEF EffectSpec, Bound
<1>2. \A key \in ListsOf[cat] : \A q \in s.lists[key] : SoundlyCovers(q, q)
  BY DEF SoundlyCovers, GlobCovers, Confused
<1>3. \A key \in ListsOf[cat] : \A q \in s.lists[key] : Covered(q, s.lists[key])
  BY <1>2 DEF Covered, SoundlyCovers
<1>4. /\ ~ (Bound(s.max_operations) > Bound(s.max_operations))
      /\ ~ (Bound(s.amount) > Bound(s.amount))
  BY <1>1
<1>5. ~Widens(cat, s, s) BY <1>3, <1>4, Zenon DEF Widens
<1> QED BY <1>2, <1>5 DEF Narrows

(* An envelope that passes validate_envelope is contained in itself: a      *)
(* delegate may always restate what it was granted (envelope_contains).     *)
THEOREM RestatingNeverWidens ==
    ASSUME NEW env \in Envelope, WellFormed(env)
    PROVE  EnvelopeContains(env, env)
<1>1. ASSUME NEW cat \in Categories, Declares(env, cat)
      PROVE  ~Widens(cat, SpecOf(env, cat), SpecOf(env, cat))
  BY <1>1, KeptSpec, NarrowsItself DEF Narrows
<1> QED BY <1>1 DEF EnvelopeContains, WellFormed

(* Narrowing is transitive.                                                 *)
LEMMA NarrowingTransitive ==
    ASSUME NEW cat \in Categories,
           NEW outer \in EffectSpec, NEW mid \in EffectSpec, NEW inner \in EffectSpec,
           Narrows(cat, outer, mid), Narrows(cat, mid, inner)
    PROVE  Narrows(cat, outer, inner)
<1> USE DEF Narrows
<1>1. \A s \in {outer, mid, inner} : Bound(s.max_operations) \in Nat /\ Bound(s.amount) \in Nat
  BY DEF Bound, EffectSpec
<1>2. ~ (Allowed(inner) /\ ~Allowed(outer)) BY Zenon DEF Widens
<1>3. ~ (Bound(inner.max_operations) > Bound(outer.max_operations))
  <2>1. /\ ~ (Bound(mid.max_operations) > Bound(outer.max_operations))
        /\ ~ (Bound(inner.max_operations) > Bound(mid.max_operations))
    BY Zenon DEF Widens
  <2> QED BY <1>1, <2>1
<1>4. ASSUME NEW key \in ListsOf[cat], NEW e \in inner.lists[key]
      PROVE  \E p \in outer.lists[key] : SoundlyCovers(p, e)
  <2>1. key \in ListConstraints BY DEF Categories, ListsOf, ListConstraints
  <2>2. PICK q \in mid.lists[key] : SoundlyCovers(q, e) OBVIOUS
  <2>3. PICK p \in outer.lists[key] : SoundlyCovers(p, q) BY <2>2
  <2>4. p \in Pattern /\ q \in Pattern /\ e \in Pattern BY <2>1 DEF EffectSpec
  <2> QED BY <2>2, <2>3, <2>4, SoundTransitive
<1>5. ~ (cat = "credential" /\ inner.expose_to_model = TRUE /\ outer.expose_to_model # TRUE)
  BY Zenon DEF Widens
<1>6. ASSUME cat = "money"
      PROVE  /\ ~ (Bound(inner.amount) > Bound(outer.amount))
             /\ ~ (Bound(inner.amount) > 0 /\ inner.currency # outer.currency)
  <2>1. /\ ~ (Bound(mid.amount) > Bound(outer.amount))
        /\ ~ (Bound(inner.amount) > Bound(mid.amount))
        /\ ~ (Bound(mid.amount) > 0 /\ mid.currency # outer.currency)
        /\ ~ (Bound(inner.amount) > 0 /\ inner.currency # mid.currency)
    BY <1>6, Zenon DEF Widens
  <2> QED BY <1>1, <2>1
<1>7. \A key \in ListsOf[cat] : \A e \in inner.lists[key] : Covered(e, outer.lists[key])
  BY <1>4 DEF Covered, SoundlyCovers
<1>8. ~Widens(cat, outer, inner) BY <1>2, <1>3, <1>5, <1>6, <1>7, Zenon DEF Widens
<1> QED BY <1>4, <1>8

(* The invariant: every category in which the envelope in force allows      *)
(* anything is declared, and narrows the declaration.  It leaves out the    *)
(* categories that allow nothing: a grant can carry bounds there that       *)
(* envelope_contains compares with nothing.                                 *)
AllowedInsideDeclared ==
    clear => /\ ~Malformed(declared) /\ ~Malformed(granted)
             /\ \A cat \in Categories :
                   Declares(granted, cat) /\ Allowed(SpecOf(granted, cat))
                     => /\ Declares(declared, cat)
                        /\ Narrows(cat, SpecOf(declared, cat), SpecOf(granted, cat))

(* One more grant.                                                          *)
LEMMA GrantStaysInsideDeclared ==
    ASSUME TypeOK, AllowedInsideDeclared, NEW e \in Envelopes, Grant(e)
    PROVE  AllowedInsideDeclared'
<1>1. declared \in Envelope /\ granted \in Envelope /\ e \in Envelope
  BY DelegationAssumption DEF TypeOK
<1>2. /\ declared' = declared /\ granted' = e /\ EnvelopeContains(granted, e)
      /\ clear' = (clear /\ Clear(granted, e))
  BY DEF Grant
<1>3. clear' => clear /\ Clear(granted, e) BY <1>2, Zenon
<1>4. ASSUME clear', NEW cat \in Categories, Declares(e, cat), Allowed(SpecOf(e, cat))
      PROVE  /\ Declares(declared, cat)
             /\ Narrows(cat, SpecOf(declared, cat), SpecOf(e, cat))
  <2>1. /\ Declares(granted, cat)
        /\ SpecOf(granted, cat) \in EffectSpec /\ SpecOf(e, cat) \in EffectSpec
        /\ ~Widens(cat, SpecOf(granted, cat), SpecOf(e, cat))
        /\ Narrows(cat, SpecOf(granted, cat), SpecOf(e, cat))
    BY <1>1, <1>2, <1>3, <1>4, AllowedIsCompared, ClearNarrows
  <2>2. Allowed(SpecOf(granted, cat)) BY <1>4, <2>1, Zenon DEF Widens
  <2>3. /\ Declares(declared, cat)
        /\ Narrows(cat, SpecOf(declared, cat), SpecOf(granted, cat))
    BY <1>3, <1>4, <2>1, <2>2 DEF AllowedInsideDeclared
  <2>4. SpecOf(declared, cat) \in EffectSpec BY <1>1, <2>3, KeptSpec
  <2> QED BY <2>1, <2>3, <2>4, NarrowingTransitive
<1>5. clear' => ~Malformed(declared) /\ ~Malformed(e)
  BY <1>2, <1>3 DEF AllowedInsideDeclared, EnvelopeContains
<1> QED BY <1>2, <1>4, <1>5 DEF AllowedInsideDeclared

(* In an envelope that validates, what is not vacuous allows something.     *)
LEMMA WellFormedAllows ==
    ASSUME NEW env \in Envelope, WellFormed(env), NEW cat, Declares(env, cat),
           ~IsVacuous(SpecOf(env, cat))
    PROVE  Allowed(SpecOf(env, cat))
<1>1. \E i \in 1..Len(env) : SpecOf(env, cat) = env[i].spec BY KeptEntry
<1>2. SpecOf(env, cat).allowed # FALSE BY <1>1 DEF WellFormed
<1>3. SpecOf(env, cat).allowed \in BOOLEAN \cup {Unset} BY KeptSpec DEF EffectSpec
<1> QED BY <1>2, <1>3 DEF Allowed

(* Narrowing composes over any number of grants: the last delegate's        *)
(* envelope passes envelope_contains against the one the skill declared.    *)
THEOREM NarrowingAlwaysComposes == Spec => []NarrowingComposes
<1>1. Init => AllowedInsideDeclared
  <2> SUFFICES ASSUME Init PROVE AllowedInsideDeclared
    OBVIOUS
  <2>1. declared \in Envelope /\ granted = declared /\ ~Malformed(declared)
    BY DelegationAssumption DEF Init, WellFormed
  <2> QED BY <2>1, KeptSpec, NarrowsItself DEF AllowedInsideDeclared
<1>2. TypeOK /\ AllowedInsideDeclared /\ [Next]_vars => AllowedInsideDeclared'
  <2> SUFFICES ASSUME TypeOK, AllowedInsideDeclared, [Next]_vars
               PROVE  AllowedInsideDeclared'
    OBVIOUS
  <2>1. CASE \E e \in Envelopes : Grant(e) BY <2>1, GrantStaysInsideDeclared
  <2>2. CASE UNCHANGED <<declared, granted, clear>> BY <2>2 DEF AllowedInsideDeclared
  <2> QED BY <2>1, <2>2 DEF Next, Observe, vars
<1>3. TypeOK /\ AllowedInsideDeclared => NarrowingComposes
  <2> SUFFICES ASSUME TypeOK, AllowedInsideDeclared, clear, WellFormed(granted)
               PROVE  EnvelopeContains(declared, granted)
    BY DEF NarrowingComposes
  <2>1. granted \in Envelope BY DelegationAssumption DEF TypeOK
  <2> QED BY <2>1, WellFormedAllows DEF EnvelopeContains, AllowedInsideDeclared, Narrows
<1> QED BY <1>1, <1>2, <1>3, TypeCorrect, PTL DEF Spec
=============================================================================
