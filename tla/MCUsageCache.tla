---------------------------- MODULE MCUsageCache ----------------------------
(* Small instances of the two modules about the history store, one at a time: *)
(* the copies that are read, and the amounts of the rows.  "part" is the one  *)
(* that runs; the other stays in one state.                                   *)
EXTENDS UsageCache, UsagePrices, TLC

CONSTANTS i1, i2, i3, v1, v2, r1, r2

IdSymmetry == Permutations(Id) \cup Permutations(Content) \cup Permutations(Reference)

(* Three releases: the first knows neither model, the second brings a tariff  *)
(* for one and reprices it, the third another, with a condition and none for  *)
(* the fast tier.  The catalog offers that model, and later the other too.    *)
Tariff(default, fast, plain) == [default |-> default, fast |-> fast, plain |-> plain]
SomeModelOf  == ("c1" :> "ruled") @@ ("c2" :> "ruled") @@ ("c3" :> "listed")
SomeAt       == ("c1" :> 0) @@ ("c2" :> 1) @@ ("c3" :> 1)
SomeRules    ==
  (1 :> ("other" :> Tariff(9, 9, TRUE))) @@ (2 :> ("ruled" :> Tariff(3, 6, TRUE)))
    @@ (3 :> ("ruled" :> Tariff(4, Unpriced, FALSE)))
SomeRepriced == (1 :> {}) @@ (2 :> {"ruled"}) @@ (3 :> {})
SomeCatalogs == {"ruled" :> 1, ("ruled" :> 1) @@ ("listed" :> 2)}

VARIABLE part
storeVars == <<part, vars, pricesVars>>

PricesAtRest == PricesInit /\ revision = 1
StoreInit ==
  \/ part = "cache"  /\ Init /\ PricesAtRest
  \/ part = "prices" /\ Init /\ PricesInit
StoreNext ==
  /\ UNCHANGED part
  /\ \/ part = "cache"  /\ Next       /\ UNCHANGED pricesVars
     \/ part = "prices" /\ PricesNext /\ UNCHANGED vars
StoreSpec == StoreInit /\ [][StoreNext]_storeVars
=============================================================================
