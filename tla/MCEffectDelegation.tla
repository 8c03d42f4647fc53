------------------------- MODULE MCEffectDelegation -------------------------
(* EffectDelegation on a small instance: see the README for why it is       *)
(* enough.                                                                  *)
EXTENDS EffectDelegation

CONSTANTS a, b, c, d, usd, eur

MCNames == {"filesystem", "filesystem.write", "money", "credential", "other"}
MCCanonical ==
    [n \in MCNames |-> CASE n = "filesystem.write" -> "filesystem"
                         [] n = "other" -> Unknown
                         [] OTHER -> n]

Pat(path, wild) == [path |-> path, wild |-> wild]
NoLists == [key \in ListConstraints |-> {}]
NoSpec == [allowed |-> Unset, max_operations |-> Unset, lists |-> NoLists,
           amount |-> Unset, currency |-> Unset, expose_to_model |-> Unset]

(* a/b below a/** can be narrowed; c/* and c/** are what _glob_covers       *)
(* confuses, and so are the bare wildcards.                                 *)
MCPaths ==
    {{}, {Pat(<<a, b>>, "none")}, {Pat(<<a>>, "**")}, {Pat(<<c>>, "**")},
     {Pat(<<a, b>>, "none"), Pat(<<c>>, "*")}}

FilesystemSpecs ==
    {[NoSpec EXCEPT !.allowed = x, !.max_operations = n, !.lists["paths"] = P] :
        x \in {Unset, TRUE, FALSE}, n \in {Unset, 1, 2}, P \in MCPaths}
    \cup {[NoSpec EXCEPT !.max_operations = n, !.lists["scope"] = {Pat(<<a>>, "**")},
                         !.lists["paths"] = P] : n \in {Unset, 1}, P \in MCPaths}
    \cup {[NoSpec EXCEPT !.max_operations = 1, !.lists["scope"] = {Pat(<<>>, w)}] :
            w \in {"*", "**"}}

MoneySpecs ==
    {[NoSpec EXCEPT !.allowed = x, !.max_operations = n, !.amount = m, !.currency = y] :
        x \in {Unset, TRUE}, n \in {Unset, 1}, m \in {Unset, 1, 2}, y \in {Unset, usd, eur}}

CredentialSpecs ==
    {[NoSpec EXCEPT !.max_operations = n, !.expose_to_model = x] :
        n \in {Unset, 1}, x \in {Unset, TRUE, FALSE}}

Entry(name, s) == [name |-> name, spec |-> s]

SomeFiles == [NoSpec EXCEPT !.max_operations = 1, !.lists["paths"] = {Pat(<<a, b>>, "none")}]
SomeMoney == [NoSpec EXCEPT !.max_operations = 1, !.amount = 1, !.currency = usd]

(* A bound that filesystem does not have: it does not validate, and         *)
(* envelope_contains compares it with nothing.                              *)
Misplaced == [NoSpec EXCEPT !.allowed = FALSE, !.amount = 1]

(* Envelopes with one category, and some with two, in both orders, with an  *)
(* alias, with one category twice, and with an unknown name.                *)
MCEnvelopes ==
    {<<Entry("filesystem", s)>> : s \in FilesystemSpecs}
    \cup {<<Entry("money", s)>> : s \in MoneySpecs}
    \cup {<<Entry("credential", s)>> : s \in CredentialSpecs}
    \cup {<<>>, <<Entry("filesystem.write", SomeFiles)>>, <<Entry("other", SomeFiles)>>,
          <<Entry("filesystem", Misplaced)>>,
          <<Entry("filesystem", SomeFiles), Entry("money", SomeMoney)>>,
          <<Entry("money", SomeMoney), Entry("filesystem.write", SomeFiles)>>,
          <<Entry("filesystem", NoSpec), Entry("filesystem.write", SomeFiles)>>}

NoEffect == [count |-> 0, lists |-> NoLists, amount |-> Unset, currency |-> Unset,
             expose_to_model |-> FALSE]

FileRecords ==
    {[NoEffect EXCEPT !.count = n, !.lists["paths"] = P] :
        n \in 0..2, P \in {{}} \cup {{Pat(v, "none")} : v \in {<<a, b>>, <<a, b, c>>,
                                                               <<c, d>>, <<c, d, b>>}}}
MoneyRecords ==
    {[NoEffect EXCEPT !.count = n, !.amount = m, !.currency = y] :
        n \in 0..1, m \in {Unset, 1, 2}, y \in {Unset, usd, eur}}
CredentialRecords == {[NoEffect EXCEPT !.count = n, !.expose_to_model = TRUE] : n \in 0..1}

One(name, R) == {[effects |-> [n \in {name} |-> r], credentials_exposed |-> FALSE] : r \in R}

MCObservations ==
    One("filesystem", FileRecords) \cup One("money", MoneyRecords)
    \cup One("credential", CredentialRecords) \cup One("filesystem.write", FileRecords)
    \cup {[effects |-> <<>>, credentials_exposed |-> x] : x \in BOOLEAN}
    \cup {[effects |-> [n \in {"filesystem", "money"} |->
                          IF n = "money" THEN m ELSE [NoEffect EXCEPT !.count = 1]],
           credentials_exposed |-> FALSE] : m \in MoneyRecords}

MCPricedObservations == {o \in MCObservations : Priced(o)}
============================================================================
