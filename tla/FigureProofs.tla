---------------------------- MODULE FigureProofs ----------------------------
(***************************************************************************)
(* What the page says of a published figure, for every instance: what a    *)
(* provider's accounts consumed of their limit (QuotaUsage), the words of  *)
(* a span of usage (Periods), what a reading says while it ages            *)
(* (Readings); and the loop of Scheduler.backoff (BackoffLoop).            *)
(*                                                                         *)
(* The page computes all it says from what is published, so its            *)
(* invariants follow from the types of the variables, which last while     *)
(* the server publishes and the reader waits: the content is in the sums,  *)
(* the words and the reasons.  Sums and least elements are taken over      *)
(* finite sets, by a recursion over subsets; the first lemmas give it its  *)
(* steps and bounds.                                                       *)
(***************************************************************************)
EXTENDS Periods, Readings, QuotaUsage, BackoffLoop, FiniteSetTheorems, TLAPS

(***************************************************************************)
(* Sums over a finite set.  What a recursion over its subsets computes is  *)
(* reached through a minimal subset for which a claim would fail.          *)
(***************************************************************************)
LEMMA MinimalSubset ==
  ASSUME NEW S, IsFiniteSet(S), NEW T, T \subseteq SUBSET S, T # {}
  PROVE  \E s \in T : \A u \in T : u \subseteq s => u = s
<1>1. IsWellFoundedOn(StrictSubsetOrdering(S), SUBSET S)
  BY FS_StrictSubsetOrderingWellFounded, FS_FiniteSubsetsOfFinite
<1>2. PICK s \in T : \A u \in T : <<u, s>> \notin StrictSubsetOrdering(S)
  BY <1>1, WFMin
<1> QED
  BY <1>2 DEF StrictSubsetOrdering

LEMMA SubsetInduction ==
  ASSUME NEW S, IsFiniteSet(S), NEW G, {} \in G,
         ASSUME NEW s \in SUBSET S, s # {}, \A x \in s : s \ {x} \in G
         PROVE  s \in G
  PROVE  S \in G
<1> SUFFICES ASSUME S \notin G PROVE FALSE
  OBVIOUS
<1> DEFINE T == {s \in SUBSET S : s \notin G}
<1>0. T \subseteq SUBSET S /\ T # {}
  OBVIOUS
<1> HIDE DEF T
<1>1. PICK s \in T : \A u \in T : u \subseteq s => u = s
  BY <1>0, MinimalSubset
<1> USE DEF T
<1>2. s # {}
  BY <1>1
<1>3. ASSUME NEW x \in s
      PROVE  s \ {x} \in G
  <2>1. s \ {x} \subseteq s /\ s \ {x} # s /\ s \ {x} \in SUBSET S
    BY <1>1, <1>3
  <2> QED
    BY <1>1, <2>1
<1> QED
  BY <1>1, <1>2, <1>3

Choice(s) == CHOOSE x \in s : TRUE
SumTable(f, h, S) ==
  f = [s \in SUBSET S |-> IF s = {} THEN 0 ELSE h[Choice(s)] + f[s \ {Choice(s)}]]

LEMMA ChoiceInside ==
  ASSUME NEW s, s # {}
  PROVE  Choice(s) \in s /\ s \ {Choice(s)} \subseteq s /\ s \ {Choice(s)} # s
  BY DEF Choice

LEMMA TableUnique ==
  ASSUME NEW S, IsFiniteSet(S), NEW h, NEW f, NEW g, SumTable(f, h, S), SumTable(g, h, S)
  PROVE  f = g
<1> DEFINE T == {s \in SUBSET S : f[s] # g[s]}
<1>1. ASSUME T # {} PROVE FALSE
  <2>0. T \subseteq SUBSET S
    OBVIOUS
  <2> HIDE DEF T
  <2>1. PICK s \in T : \A u \in T : u \subseteq s => u = s
    BY <1>1, <2>0, MinimalSubset
  <2> USE DEF T
  <2>2. CASE s = {}
    BY <2>1, <2>2 DEF SumTable
  <2>3. CASE s # {}
    <3>1. s \ {Choice(s)} \in SUBSET S /\ s \ {Choice(s)} \notin T
      BY <2>1, <2>3, ChoiceInside
    <3>2. f[s \ {Choice(s)}] = g[s \ {Choice(s)}]
      BY <3>1
    <3>3. f[s] = h[Choice(s)] + f[s \ {Choice(s)}] /\ g[s] = h[Choice(s)] + g[s \ {Choice(s)}]
      BY <2>1, <2>3 DEF SumTable
    <3> QED
      BY <2>1, <3>2, <3>3
  <2> QED
    BY <2>2, <2>3
<1>2. \A s \in SUBSET S : f[s] = g[s]
  BY <1>1
<1>3. /\ f = [s \in SUBSET S |-> f[s]]
      /\ g = [s \in SUBSET S |-> g[s]]
  BY DEF SumTable
<1> QED
  BY <1>2, <1>3

LEMMA TableBelow ==
  ASSUME NEW S, NEW w \in SUBSET S, NEW h, NEW f, SumTable(f, h, S)
  PROVE  SumTable([s \in SUBSET w |-> f[s]], h, w)
<1> DEFINE g == [s \in SUBSET w |-> f[s]]
<1>1. ASSUME NEW s \in SUBSET w
      PROVE  g[s] = IF s = {} THEN 0 ELSE h[Choice(s)] + g[s \ {Choice(s)}]
  <2>1. g[s] = f[s] /\ s \in SUBSET S
    OBVIOUS
  <2>2. f[s] = IF s = {} THEN 0 ELSE h[Choice(s)] + f[s \ {Choice(s)}]
    BY <2>1 DEF SumTable
  <2>3. g[s \ {Choice(s)}] = f[s \ {Choice(s)}]
    OBVIOUS
  <2> QED
    BY <2>1, <2>2, <2>3
<1> QED
  BY <1>1 DEF SumTable

LEMMA TableExists ==
  ASSUME NEW S, IsFiniteSet(S), NEW h
  PROVE  \E f : SumTable(f, h, S)
<1> DEFINE T == {s \in SUBSET S : ~ \E f : SumTable(f, h, s)}
<1> SUFFICES ASSUME T # {} PROVE FALSE
  OBVIOUS
<1>0. T \subseteq SUBSET S /\ T # {}
  OBVIOUS
<1> HIDE DEF T
<1>1. PICK s \in T : \A u \in T : u \subseteq s => u = s
  BY <1>0, MinimalSubset
<1> USE DEF T
<1> DEFINE At(v) == (CHOOSE f : SumTable(f, h, v))[v]
<1> DEFINE F == [u \in SUBSET s |-> IF u = {} THEN 0 ELSE h[Choice(u)] + At(u \ {Choice(u)})]
<1>2. ASSUME NEW v \in SUBSET s, v # s
      PROVE  /\ SumTable(CHOOSE f : SumTable(f, h, v), h, v)
             /\ At(v) = IF v = {} THEN 0 ELSE h[Choice(v)] + At(v \ {Choice(v)})
  <2>1. \E f : SumTable(f, h, v)
    BY <1>1, <1>2
  <2>2. PICK f : f = (CHOOSE g : SumTable(g, h, v)) /\ SumTable(f, h, v)
    BY <2>1
  <2>3. At(v) = f[v]
    BY <2>2
  <2>4. CASE v = {}
    BY <2>2, <2>3, <2>4 DEF SumTable
  <2>5. CASE v # {}
    <3>1. PICK w : w = v \ {Choice(v)}
      OBVIOUS
    <3>2. w \in SUBSET v /\ w \in SUBSET s /\ w # s
      BY <2>5, <3>1, ChoiceInside
    <3>3. \E g : SumTable(g, h, w)
      BY <1>1, <3>2
    <3>4. PICK g : g = (CHOOSE k : SumTable(k, h, w)) /\ SumTable(g, h, w)
      BY <3>3
    <3>5. IsFiniteSet(w)
      BY <1>1, <3>2, FS_Subset
    <3>6. SumTable([u \in SUBSET w |-> f[u]], h, w)
      BY <2>2, <3>2, TableBelow
    <3>7. g = [u \in SUBSET w |-> f[u]]
      BY <3>4, <3>5, <3>6, TableUnique
    <3>8. At(w) = f[w]
      BY <3>4, <3>7
    <3>9. f[v] = h[Choice(v)] + f[w]
      BY <2>2, <2>5, <3>1 DEF SumTable
    <3> QED
      BY <2>2, <2>3, <2>5, <3>1, <3>8, <3>9
  <2> QED
    BY <2>2, <2>4, <2>5
<1>3. ASSUME NEW u \in SUBSET s
      PROVE  F[u] = IF u = {} THEN 0 ELSE h[Choice(u)] + F[u \ {Choice(u)}]
  <2>1. CASE u = {}
    BY <2>1
  <2>2. CASE u # {}
    <3>1. PICK v : v = u \ {Choice(u)}
      OBVIOUS
    <3>2. v \in SUBSET s /\ v # s
      BY <2>2, <3>1, ChoiceInside
    <3>3. At(v) = F[v]
      BY <1>2, <3>2
    <3> QED
      BY <2>2, <3>1, <3>3
  <2> QED
    BY <2>1, <2>2
<1>4. F = [u \in SUBSET s |-> F[u]]
  OBVIOUS
<1> HIDE DEF F
<1>5. SumTable(F, h, s)
  BY <1>3, <1>4 DEF SumTable
<1> QED
  BY <1>1, <1>5

\* What SumFunction computes, step by step.
LEMMA SumSteps ==
  ASSUME NEW h, IsFiniteSet(DOMAIN h)
  PROVE  \E f : /\ SumFunction(h) = f[DOMAIN h] /\ f[{}] = 0
                /\ \A s \in SUBSET DOMAIN h :
                     s # {} => \E x \in s : f[s] = h[x] + f[s \ {x}]
<1> DEFINE S == DOMAIN h
<1>1. PICK f : f = (CHOOSE g : SumTable(g, h, S)) /\ SumTable(f, h, S)
  BY TableExists
<1>2. SumFunction(h) = f[S]
  <2>1. SumFunction(h) = (CHOOSE g : SumTable(g, h, S))[S]
    BY Zenon DEF SumFunction, SumFunctionOnSet, FoldFunctionOnSet, MapThenFoldSet, SumTable, Choice
  <2> QED
    BY <1>1, <2>1
<1>3. f[{}] = 0
  BY <1>1 DEF SumTable
<1>4. ASSUME NEW s \in SUBSET S, s # {}
      PROVE  \E x \in s : f[s] = h[x] + f[s \ {x}]
  <2>1. f[s] = h[Choice(s)] + f[s \ {Choice(s)}]
    BY <1>1, <1>4 DEF SumTable
  <2> QED
    BY <1>4, <2>1, ChoiceInside
<1>5. \A s \in SUBSET DOMAIN h : s # {} => \E x \in s : f[s] = h[x] + f[s \ {x}]
  BY <1>4
<1> QED
  BY <1>2, <1>3, <1>5, Zenon

\* Sums of numbers with a floor and a ceiling, and what a sum at its bound tells.
LEMMA SumBounds ==
  ASSUME NEW h, IsFiniteSet(DOMAIN h), NEW low \in Int, NEW high \in Int,
         \A x \in DOMAIN h : h[x] \in Int
  PROVE  /\ SumFunction(h) \in Int
         /\ Cardinality(DOMAIN h) \in Nat
         /\ (\A x \in DOMAIN h : h[x] >= low) => SumFunction(h) >= Cardinality(DOMAIN h) * low
         /\ (\A x \in DOMAIN h : h[x] <= high) => SumFunction(h) <= Cardinality(DOMAIN h) * high
         /\ (\A x \in DOMAIN h : h[x] <= high) /\ SumFunction(h) >= Cardinality(DOMAIN h) * high
              => \A x \in DOMAIN h : h[x] = high
<1> DEFINE S == DOMAIN h
<1>1. PICK f : /\ SumFunction(h) = f[S] /\ f[{}] = 0
               /\ \A s \in SUBSET S : s # {} => \E x \in s : f[s] = h[x] + f[s \ {x}]
  BY SumSteps
<1> DEFINE Bounded(s) ==
             /\ f[s] \in Int /\ Cardinality(s) \in Nat
             /\ (\A x \in s : h[x] >= low) => f[s] >= Cardinality(s) * low
             /\ (\A x \in s : h[x] <= high) => f[s] <= Cardinality(s) * high
             /\ (\A x \in s : h[x] <= high) /\ f[s] >= Cardinality(s) * high
                   => \A x \in s : h[x] = high
           G == {s \in SUBSET S : Bounded(s)}
<1>2. {} \in G
  <2>1. Cardinality({}) = 0
    BY FS_EmptySet
  <2> QED
    BY <1>1, <2>1
<1>3. ASSUME NEW s \in SUBSET S, s # {}, \A x \in s : s \ {x} \in G
      PROVE  s \in G
  <2>1. PICK x \in s : f[s] = h[x] + f[s \ {x}]
    BY <1>1, <1>3
  <2>2. PICK t : t = s \ {x}
    OBVIOUS
  <2>3. IsFiniteSet(s)
    BY FS_Subset
  <2>4. Cardinality(t) = Cardinality(s) - 1 /\ Cardinality(s) \in Nat
    BY <2>1, <2>2, <2>3, FS_RemoveElement, FS_CardinalityType
  <2>5. PICK n \in Nat : n = Cardinality(t)
    BY <1>3, <2>1, <2>2
  <2>6. Cardinality(s) = n + 1
    BY <2>4, <2>5, SMT
  <2>7. /\ f[t] \in Int
        /\ (\A y \in t : h[y] >= low) => f[t] >= n * low
        /\ (\A y \in t : h[y] <= high) => f[t] <= n * high
        /\ (\A y \in t : h[y] <= high) /\ f[t] >= n * high => \A y \in t : h[y] = high
    BY <1>3, <2>1, <2>2, <2>5
  <2>8. h[x] \in Int /\ f[s] = h[x] + f[t] /\ t \subseteq s /\ s = t \cup {x}
    BY <2>1, <2>2
  <2>9. (n + 1) * low = n * low + low /\ (n + 1) * high = n * high + high
        /\ n * low \in Int /\ n * high \in Int
    BY <2>5, SMT
  <2>10. f[s] \in Int
    BY <2>7, <2>8, SMT
  <2>11. (\A y \in s : h[y] >= low) => f[s] >= (n + 1) * low
    BY <2>7, <2>8, <2>9, SMT
  <2>12. (\A y \in s : h[y] <= high) => f[s] <= (n + 1) * high
    BY <2>7, <2>8, <2>9, SMT
  <2>13. ASSUME \A y \in s : h[y] <= high, f[s] >= (n + 1) * high
         PROVE  \A y \in s : h[y] = high
    <3>1. h[x] <= high /\ f[t] <= n * high
      BY <2>7, <2>8, <2>13
    <3>2. h[x] = high /\ f[t] >= n * high
      BY <2>7, <2>8, <2>9, <2>13, <3>1, SMT
    <3>3. \A y \in t : h[y] = high
      BY <2>7, <2>8, <2>13, <3>2
    <3> QED
      BY <2>8, <3>2, <3>3
  <2> QED
    BY <2>6, <2>10, <2>11, <2>12, <2>13
<1>4. S \in G
  <2> HIDE DEF G
  <2> QED
    BY <1>2, <1>3, SubsetInduction
<1> QED
  BY <1>1, <1>4

UsageTyped ==
  /\ holding \in [Owner -> Holdings] /\ totalled \in BOOLEAN
  /\ usagePeriod \in DOMAIN PeriodHours

LEMMA UsageTypedAlways == UsageSpec => []UsageTyped
<1>1. UsageInit => UsageTyped
  BY QuotaUsageAssumption, HoldingsAssumption DEF UsageInit, UsageTyped
<1>2. UsageTyped /\ [UsageNext]_usageVars => UsageTyped'
  BY DEF UsageTyped, UsageNext, ReadAccount, Upgrade, ChooseUsagePeriod, usageVars
<1> QED
  BY <1>1, <1>2, PTL DEF UsageSpec

(***************************************************************************)
(* The number of accounts.                                                 *)
(***************************************************************************)
LEMMA CeilingIsLeast ==
  ASSUME NEW x \in Nat, NEW y \in Nat \ {0}
  PROVE  /\ Ceiling(x, y) \in Nat /\ Ceiling(x, y) * y >= x
         /\ Ceiling(x, y) > 0 => (Ceiling(x, y) - 1) * y < x
<1>1. PICK q \in Nat, r \in 0 .. y - 1 : q = x \div y /\ r = x % y /\ x = y * q + r
  <2>1. x \div y \in Nat /\ x % y \in 0 .. y - 1 /\ x = y * (x \div y) + (x % y)
    BY SMT
  <2> QED
    BY <2>1
<1>2. Ceiling(x, y) = IF r = 0 THEN q ELSE q + 1
  BY <1>1 DEF Ceiling
<1>3. (q + 1) * y = y * q + y /\ q * y = y * q /\ (q - 1) * y = y * q - y /\ y * q \in Nat
  BY SMT
<1> QED
  BY <1>1, <1>2, <1>3, SMT

LEMMA LargerOfTwo ==
  ASSUME NEW a \in Int, NEW b \in Int
  PROVE  Max({a, b}) \in Int /\ Max({a, b}) >= a /\ Max({a, b}) >= b
<1>1. \E x \in {a, b} : \A y \in {a, b} : x >= y
  BY SMT
<1>2. Max({a, b}) \in {a, b} /\ \A y \in {a, b} : Max({a, b}) >= y
  BY <1>1 DEF Max
<1> QED
  BY <1>2

\* What the server totals.
LEMMA TotalTold ==
  ASSUME UsageTyped, IsFiniteSet(Owner), NEW t, t = SumConsumption
  PROVE  /\ t.window = Basis /\ t.window \in {"weekly", "monthly", "none"}
         /\ t.measured \in Nat /\ t.measured <= Cardinality(Owner) /\ Cardinality(Owner) \in Nat
         /\ t.window = "none" => t.measured = 0
         /\ t.measured = 0 => t.delta = Null
         /\ t.measured # 0 => t.delta \in Nat
<1> DEFINE measured == IF Basis = "none" THEN {} ELSE Measured(Basis)
           h == [o \in measured |-> Current(Basis, o).delta]
<1>1. /\ t.window = Basis /\ t.measured = Cardinality(measured)
      /\ t.delta = IF measured = {} THEN Null ELSE SumFunction(h)
  BY DEF SumConsumption
<1>2. Basis \in {"weekly", "monthly", "none"}
  BY DEF Basis
<1>3. measured \subseteq Owner
  BY DEF Measured, Held, Holders
<1>4. IsFiniteSet(measured) /\ Cardinality(measured) \in Nat /\ Cardinality(Owner) \in Nat
      /\ Cardinality(measured) <= Cardinality(Owner)
  BY <1>3, FS_Subset, FS_CardinalityType
<1>5. Cardinality(measured) = 0 <=> measured = {}
  BY <1>4, FS_EmptySet
<1>6. \A o \in DOMAIN h : h[o] \in Int /\ h[o] >= 0
  BY DEF Measured, Known
<1>7. SumFunction(h) \in Nat
  <2>1. DOMAIN h = measured
    OBVIOUS
  <2> HIDE DEF h, measured
  <2>2. SumFunction(h) \in Int /\ SumFunction(h) >= Cardinality(DOMAIN h) * 0
    BY <1>4, <1>6, <2>1, SumBounds
  <2> QED
    BY <1>4, <2>1, <2>2, SMT
<1> QED
  BY <1>1, <1>2, <1>4, <1>5, <1>7

\* An object that was published is one.
Objects == \A s, n, a : IsRecord([status |-> s, need |-> n, add |-> a])

LEMMA NeedIsCeiling ==
  ASSUME UsageTyped, IsFiniteSet(Owner), Cardinality(Owner) + 2 <= HalfUlps, Objects, Null # "collecting",
         NEW t, t = SumConsumption, NEW error \in -Roundings(t.measured) .. Roundings(t.measured),
         NEW r, r = Recommendation(t, error)
  PROVE  /\ t.delta = Null => r.need = Null /\ RecommendationView(r) = << >>
         /\ t.delta # Null =>
              /\ t.window \in {"weekly", "monthly"}
              /\ r.need = Ceiling(t.delta * CapacityHours[t.window], 100 * PeriodHours[usagePeriod])
              /\ t.delta * CapacityHours[t.window] \in Nat
              /\ 100 * PeriodHours[usagePeriod] \in Nat \ {0}
              /\ r.need \in Nat /\ RecommendationView(r) = <<r.need>>
              /\ r.add + Cardinality({o \in Owner : ~holding[o].paused}) >= r.need
<1> DEFINE working == Cardinality({o \in Owner : ~holding[o].paused})
           status == IF t.delta = Null THEN "collecting"
                     ELSE IF t.partial \/ t.rising \/ t.measured < t.held THEN "provisional" ELSE "ready"
<1>1. /\ r.status = status
      /\ r.need = IF t.delta = Null THEN Null
                  ELSE NeededAccounts(t.delta, CapacityHours[t.window], PeriodHours[usagePeriod], error)
      /\ r.add = IF r.need = Null THEN Null ELSE Max({0, r.need - working})
      /\ r = [status |-> r.status, need |-> r.need, add |-> r.add]
  BY DEF Recommendation
<1>2. IsRecord(r)
  <2>1. \A s, n, a : IsRecord([status |-> s, need |-> n, add |-> a])
    BY DEF Objects
  <2>2. IsRecord([status |-> r.status, need |-> r.need, add |-> r.add])
    BY <2>1
  <2> QED
    BY <1>1, <2>2
<1>3. RecommendationView(r) =
        IF Str(r.status) # "collecting" /\ Known(Num(r.need)) THEN <<Num(r.need)>> ELSE << >>
  BY <1>2 DEF RecommendationView, RecommendationOf
<1>4. ASSUME t.delta = Null
      PROVE  r.need = Null /\ RecommendationView(r) = << >>
  BY <1>1, <1>3, <1>4, ValuesAssumption DEF Num, Known
<1>5. ASSUME t.delta # Null
      PROVE  /\ t.window \in {"weekly", "monthly"}
             /\ r.need = Ceiling(t.delta * CapacityHours[t.window], 100 * PeriodHours[usagePeriod])
             /\ t.delta * CapacityHours[t.window] \in Nat
             /\ 100 * PeriodHours[usagePeriod] \in Nat \ {0}
             /\ r.need \in Nat /\ RecommendationView(r) = <<r.need>>
             /\ r.add + working >= r.need
  <2>1. /\ t.window \in {"weekly", "monthly"} /\ t.delta \in Nat
        /\ t.measured \in Nat /\ t.measured <= Cardinality(Owner) /\ Cardinality(Owner) \in Nat
    BY <1>5, TotalTold
  <2>2. PICK capacity \in Nat \ {0}, period \in Nat \ {0} :
          capacity = CapacityHours[t.window] /\ period = PeriodHours[usagePeriod]
    BY <2>1, QuotaUsageAssumption DEF UsageTyped
  <2>3. PICK exact \in Nat, unit \in Nat \ {0} : exact = t.delta * capacity /\ unit = 100 * period
    <3>1. t.delta * capacity \in Nat /\ 100 * period \in Nat \ {0}
      BY <2>1, SMT
    <3> QED
      BY <3>1
  <2>4. ~(error > HalfUlps)
    BY <2>1, QuotaUsageAssumption, SMT DEF Roundings
  <2>5. r.need = Ceiling(exact, unit)
    BY <1>1, <1>5, <2>2, <2>3, <2>4 DEF NeededAccounts
  <2>6. r.need \in Nat
    BY <2>5, CeilingIsLeast
  <2>7. Str(r.status) # "collecting"
    <3>1. r.status \in {"provisional", "ready"}
      BY <1>1, <1>5
    <3> QED
      BY <3>1 DEF Str
  <2>8. RecommendationView(r) = <<r.need>>
    BY <1>3, <2>6, <2>7 DEF Num, Known
  <2>9. r.add + working >= r.need
    <3>1. working \in Nat
      BY FS_Subset, FS_CardinalityType
    <3>2. r.need # Null
      BY <2>6, ValuesAssumption
    <3> HIDE DEF working
    <3>3. r.need - working \in Int
      BY <2>6, <3>1, SMT
    <3>4. r.add \in Int /\ r.add >= r.need - working
      BY <1>1, <3>2, <3>3, LargerOfTwo
    <3> QED
      BY <2>6, <3>1, <3>4, SMT
  <2> QED
    BY <2>1, <2>2, <2>3, <2>5, <2>6, <2>8, <2>9
<1> QED
  BY <1>4, <1>5

LEMMA StatusTold ==
  ASSUME NEW t, t.window = "none" => t.measured = 0
  PROVE  FromPublished(t).state \in {"unobserved", "unsupported"} <=> t.measured = 0
<1>1. CASE t.window = "none"
  BY <1>1 DEF FromPublished, NoWindow, Nothing
<1>2. CASE t.window # "none" /\ t.measured = 0
  BY <1>2 DEF FromPublished, Unobserved, Nothing
<1>3. CASE t.window # "none" /\ t.measured # 0
  BY <1>3 DEF FromPublished, Nothing
<1> QED
  BY <1>1, <1>2, <1>3

\* As long as the roundings of all additions stay within the tolerance, the number of
\* accounts that is published and written is the least that holds the total, however
\* they fall (calc/need.go, calc/recommend.go, contract.ts).
THEOREM NeedIsLeastAlways ==
  ASSUME IsFiniteSet(Owner), Cardinality(Owner) + 2 <= HalfUlps, Objects, Null # "collecting"
  PROVE  UsageSpec => []NeedIsLeast
<1>1. ASSUME UsageTyped
      PROVE  NeedIsLeast
  <2> SUFFICES ASSUME NEW error \in -Roundings(SumConsumption.measured)
                                      .. Roundings(SumConsumption.measured)
               PROVE  LET t == SumConsumption
                          r == Recommendation(t, error)
                          shown == RecommendationView(r)
                      IN  /\ shown = QuotaRow(t, r).need
                          /\ (shown = << >>) = (FromPublished(t).state \in {"unobserved", "unsupported"})
                          /\ \A k \in DOMAIN shown :
                               LET unit == 100 * PeriodHours[usagePeriod]
                                   used == t.delta * CapacityHours[t.window] IN
                               /\ shown[k] * unit >= used
                               /\ shown[k] > 0 => (shown[k] - 1) * unit < used
                               /\ r.add + Cardinality({o \in Owner : ~holding[o].paused}) >= shown[k]
    BY Zenon DEF NeedIsLeast
  <2>1. PICK t : t = SumConsumption
    OBVIOUS
  <2>2. PICK r, shown : r = Recommendation(t, error) /\ shown = RecommendationView(r)
    OBVIOUS
  <2>0. error \in -Roundings(t.measured) .. Roundings(t.measured)
    BY <2>1
  <2>3. /\ t.window = "none" => t.measured = 0
        /\ t.measured = 0 <=> t.delta = Null
    BY <1>1, <2>1, TotalTold, ValuesAssumption
  <2>4. FromPublished(t).state \in {"unobserved", "unsupported"} <=> t.delta = Null
    BY <2>3, StatusTold
  <2>5. QuotaRow(t, r).need = IF r.need = Null THEN << >> ELSE <<r.need>>
    BY DEF QuotaRow
  <2>6. shown = QuotaRow(t, r).need /\ ((shown = << >>) <=> t.delta = Null)
    <3>1. CASE t.delta = Null
      <4>1. r.need = Null /\ shown = << >>
        BY <1>1, <2>0, <2>1, <2>2, <3>1, NeedIsCeiling
      <4> QED
        BY <2>5, <3>1, <4>1
    <3>2. CASE t.delta # Null
      <4>1. r.need \in Nat /\ shown = <<r.need>>
        BY <1>1, <2>0, <2>1, <2>2, <3>2, NeedIsCeiling
      <4> QED
        BY <2>5, <3>2, <4>1, ValuesAssumption
    <3> QED
      BY <3>1, <3>2
  <2>7. ASSUME NEW k \in DOMAIN shown
        PROVE  /\ shown[k] * (100 * PeriodHours[usagePeriod]) >= t.delta * CapacityHours[t.window]
               /\ shown[k] > 0 => (shown[k] - 1) * (100 * PeriodHours[usagePeriod])
                                     < t.delta * CapacityHours[t.window]
               /\ r.add + Cardinality({o \in Owner : ~holding[o].paused}) >= shown[k]
    <3>1. t.delta # Null
      <4>1. shown # << >>
        BY <2>7
      <4> QED
        BY <2>6, <4>1
    <3>2. /\ r.need = Ceiling(t.delta * CapacityHours[t.window], 100 * PeriodHours[usagePeriod])
          /\ t.delta * CapacityHours[t.window] \in Nat
          /\ 100 * PeriodHours[usagePeriod] \in Nat \ {0}
          /\ shown = <<r.need>>
          /\ r.add + Cardinality({o \in Owner : ~holding[o].paused}) >= r.need
      BY <1>1, <2>0, <2>1, <2>2, <3>1, NeedIsCeiling
    <3>3. shown[k] = r.need
      BY <2>7, <3>2
    <3>4. /\ r.need * (100 * PeriodHours[usagePeriod]) >= t.delta * CapacityHours[t.window]
          /\ r.need > 0 => (r.need - 1) * (100 * PeriodHours[usagePeriod])
                             < t.delta * CapacityHours[t.window]
      BY <3>2, CeilingIsLeast
    <3> QED
      BY <3>2, <3>3, <3>4
  <2>8. (shown = << >>) = (FromPublished(t).state \in {"unobserved", "unsupported"})
    BY <2>4, <2>6
  <2> QED
    BY <2>1, <2>2, <2>6, <2>7, <2>8, Zenon
<1>2. UsageTyped => NeedIsLeast
  BY <1>1
<1> QED
  BY <1>2, UsageTypedAlways, PTL

(***************************************************************************)
(* The total of a period, by the server and by the page.                   *)
(***************************************************************************)
Taken(id) == {o \in Held(id) : Picked(id, o) # Null /\ Known(Picked(id, o).delta)}
Unreadable(id) == {o \in Owner \ Held(id) : Unread(o)}
Absent(id) == (Owner \ Held(id)) \ Unreadable(id)

\* The figures of a total, of the accounts M.
DeltaOf(id, M)  == SumFunction([o \in M |-> Current(id, o).delta])
SpanOf(id, M)   == SumFunction([o \in M |-> N0(Current(id, o).span)])
SeenOf(id, M)   == IF \A o \in M : Known(Current(id, o).coverage)
                   THEN SumFunction([o \in M |-> Current(id, o).coverage]) ELSE Null
RisingOf(id, M) == \E o \in M : Current(id, o).rising
GapsOf(id, M)   == SumFunction([o \in M |-> Current(id, o).gaps])
Least           == PeriodHours[usagePeriod] - SpanSlack
ShortOf(id, M)  == ShortMean(SpanOf(id, M), Cardinality(M), Least)
WholeOf(id, M)  == \A o \in M : /\ Known(Current(id, o).coverage)
                                /\ ~(Current(id, o).coverage < Covered)
                                /\ ~(N0(Current(id, o).span) < Least)

\* The fields of summariseQuotaUsage, one by one.
LEMMA OwnTold ==
  ASSUME NEW id, Taken(id) # {}, NEW own, own = SummariseQuotaUsage(id)
  PROVE  /\ own.window = id
         /\ own.value = QuotaFigure(SumFunction([o \in Taken(id) |-> Picked(id, o).delta]))
         /\ own.of = <<Cardinality(Taken(id)), Cardinality(Held(id))>>
         /\ own.short = ShortMean(SumFunction([o \in Taken(id) |-> N0(Picked(id, o).span)]),
                                  Cardinality(Taken(id)), PeriodHours[usagePeriod] - SpanSlack)
         /\ own.seen = IF \A o \in Taken(id) : Known(Picked(id, o).coverage)
                       THEN SumFunction([o \in Taken(id) |-> Picked(id, o).coverage]) ELSE Null
         /\ own.rising = (\E o \in Taken(id) : Picked(id, o).rising)
         /\ own.gaps = SumFunction([o \in Taken(id) |-> Picked(id, o).gaps])
         /\ own.absent = Cardinality(Absent(id)) /\ own.unreadable = Cardinality(Unreadable(id))
         /\ own.historical = (\E o \in Taken(id) : Borrowed(id, o) # Null)
         /\ own.state \in {"partial", "measured"}
         /\ own.state = "measured" <=>
              /\ ~own.historical /\ ~own.rising /\ ~own.short /\ Taken(id) = Held(id)
              /\ Absent(id) = {} /\ Unreadable(id) = {}
              /\ own.seen # Null /\ ~ShortMean(own.seen, Cardinality(Taken(id)), Covered)
  BY Zenon DEF SummariseQuotaUsage, Nothing, Taken, Absent, Unreadable

\* The same figures when each sample the page takes is the current one.
OwnFigures(id, M, own) ==
  /\ own.window = id
  /\ own.value = QuotaFigure(DeltaOf(id, M))
  /\ own.of = <<Cardinality(M), Cardinality(Held(id))>>
  /\ own.short = ShortOf(id, M)
  /\ own.seen = SeenOf(id, M)
  /\ own.rising = RisingOf(id, M)
  /\ own.gaps = GapsOf(id, M)
  /\ own.absent = Cardinality(Absent(id)) /\ own.unreadable = Cardinality(Unreadable(id))
  /\ own.historical = FALSE
  /\ own.state \in {"partial", "measured"}
  /\ own.state = "measured" <=>
       /\ ~RisingOf(id, M) /\ ~ShortOf(id, M) /\ M = Held(id)
       /\ Absent(id) = {} /\ Unreadable(id) = {}
       /\ SeenOf(id, M) # Null /\ ~ShortMean(SeenOf(id, M), Cardinality(M), Covered)

LEMMA OwnPresent ==
  ASSUME NEW id, Taken(id) # {}, NEW own, own = SummariseQuotaUsage(id),
         \A o \in Taken(id) : Picked(id, o) = Current(id, o) /\ Borrowed(id, o) = Null
  PROVE  OwnFigures(id, Taken(id), own)
<1>1. /\ [o \in Taken(id) |-> Picked(id, o).delta] = [o \in Taken(id) |-> Current(id, o).delta]
      /\ [o \in Taken(id) |-> N0(Picked(id, o).span)] = [o \in Taken(id) |-> N0(Current(id, o).span)]
      /\ [o \in Taken(id) |-> Picked(id, o).coverage] = [o \in Taken(id) |-> Current(id, o).coverage]
      /\ [o \in Taken(id) |-> Picked(id, o).gaps] = [o \in Taken(id) |-> Current(id, o).gaps]
      /\ (\A o \in Taken(id) : Known(Picked(id, o).coverage))
           <=> (\A o \in Taken(id) : Known(Current(id, o).coverage))
      /\ (\E o \in Taken(id) : Picked(id, o).rising) <=> RisingOf(id, Taken(id))
  BY DEF RisingOf
<1>2. /\ own.window = id
      /\ own.of = <<Cardinality(Taken(id)), Cardinality(Held(id))>>
      /\ own.absent = Cardinality(Absent(id)) /\ own.unreadable = Cardinality(Unreadable(id))
      /\ own.state \in {"partial", "measured"}
  BY OwnTold, Zenon
<1>3. own.value = QuotaFigure(DeltaOf(id, Taken(id)))
  <2>1. own.value = QuotaFigure(SumFunction([o \in Taken(id) |-> Picked(id, o).delta]))
    BY OwnTold, Zenon
  <2> QED
    BY <1>1, <2>1, Zenon DEF DeltaOf
<1>4. own.short = ShortOf(id, Taken(id))
  <2>1. own.short = ShortMean(SumFunction([o \in Taken(id) |-> N0(Picked(id, o).span)]),
                              Cardinality(Taken(id)), PeriodHours[usagePeriod] - SpanSlack)
    BY OwnTold, Zenon
  <2> QED
    BY <1>1, <2>1, Zenon DEF ShortOf, SpanOf, Least
<1>5. own.seen = SeenOf(id, Taken(id))
  <2>1. own.seen = IF \A o \in Taken(id) : Known(Picked(id, o).coverage)
                   THEN SumFunction([o \in Taken(id) |-> Picked(id, o).coverage]) ELSE Null
    BY OwnTold, Zenon
  <2> QED
    BY <1>1, <2>1, Zenon DEF SeenOf
<1>6. own.rising = RisingOf(id, Taken(id))
  <2>1. own.rising = (\E o \in Taken(id) : Picked(id, o).rising)
    BY OwnTold, Zenon
  <2> QED
    BY <1>1, <2>1, SMT DEF RisingOf
<1>7. own.gaps = GapsOf(id, Taken(id))
  <2>1. own.gaps = SumFunction([o \in Taken(id) |-> Picked(id, o).gaps])
    BY OwnTold, Zenon
  <2> QED
    BY <1>1, <2>1, Zenon DEF GapsOf
<1>8. own.historical = FALSE
  <2>1. own.historical = (\E o \in Taken(id) : Borrowed(id, o) # Null)
    BY OwnTold, Zenon
  <2> QED
    BY <2>1, Zenon
<1>9. own.state = "measured" <=>
        /\ ~own.historical /\ ~own.rising /\ ~own.short /\ Taken(id) = Held(id)
        /\ Absent(id) = {} /\ Unreadable(id) = {}
        /\ own.seen # Null /\ ~ShortMean(own.seen, Cardinality(Taken(id)), Covered)
  BY OwnTold, Zenon
<1> QED
  BY <1>2, <1>3, <1>4, <1>5, <1>6, <1>7, <1>8, <1>9, Zenon DEF OwnFigures

LEMMA OwnPast ==
  ASSUME NEW id, NEW own, own = SummariseQuotaUsage(id), \E o \in Taken(id) : Borrowed(id, o) # Null
  PROVE  own.historical /\ own.state = "partial"
<1>1. /\ own.historical = (\E o \in Taken(id) : Borrowed(id, o) # Null)
      /\ own.state \in {"partial", "measured"}
      /\ own.state = "measured" => ~own.historical
  BY OwnTold, Zenon
<1> QED
  BY <1>1, SMT

\* The fields of consumptionDTO and of fromPublished.
LEMMA TheirsTold ==
  ASSUME Basis # "none", NEW theirs, theirs = FromPublished(SumConsumption)
  PROVE  LET id == Basis  M == Measured(id)
         IN  /\ Cardinality(M) = 0 => theirs = Unobserved(id, Cardinality(Held(id)))
             /\ Cardinality(M) # 0 /\ M # {} =>
                  /\ theirs.window = id
                  /\ theirs.value = QuotaFigure(DeltaOf(id, M))
                  /\ theirs.of = <<Cardinality(M), Cardinality(Held(id))>>
                  /\ theirs.short = ShortOf(id, M)
                  /\ theirs.seen = SeenOf(id, M)
                  /\ theirs.rising = RisingOf(id, M)
                  /\ theirs.gaps = GapsOf(id, M)
                  /\ theirs.state \in {"partial", "measured"}
                  /\ theirs.state = "measured" <=>
                       WholeOf(id, M) /\ ~RisingOf(id, M) /\ ~(Cardinality(M) < Cardinality(Held(id)))
<1>0. PICK id, M, t : id = Basis /\ id # "none" /\ M = Measured(id) /\ t = SumConsumption
  OBVIOUS
<1>1. /\ t.window = id /\ t.held = Cardinality(Held(id)) /\ t.measured = Cardinality(M)
      /\ t.delta = IF M = {} THEN Null ELSE DeltaOf(id, M)
      /\ t.spans = SpanOf(id, M)
      /\ t.coverages = SeenOf(id, M)
      /\ t.partial = (\E o \in M :
                        \/ ~Known(Current(id, o).coverage) \/ Current(id, o).coverage < Covered
                        \/ N0(Current(id, o).span) < PeriodHours[usagePeriod] - SpanSlack)
      /\ t.rising = RisingOf(id, M)
      /\ t.gaps = GapsOf(id, M)
  BY <1>0, Zenon DEF SumConsumption, DeltaOf, SpanOf, SeenOf, RisingOf, GapsOf
<1>2. t.partial <=> ~WholeOf(id, M)
  BY <1>1, Zenon DEF WholeOf, Least
<1>3. Cardinality(M) = 0 => theirs = Unobserved(id, Cardinality(Held(id)))
  BY <1>0, <1>1, Zenon DEF FromPublished
<1>4. ASSUME Cardinality(M) # 0, M # {}
      PROVE  /\ theirs.window = id
             /\ theirs.value = QuotaFigure(t.delta)
             /\ theirs.of = <<Cardinality(M), Cardinality(Held(id))>>
             /\ theirs.short = ShortMean(t.spans, Cardinality(M), PeriodHours[usagePeriod] - SpanSlack)
             /\ theirs.seen = t.coverages /\ theirs.rising = t.rising /\ theirs.gaps = t.gaps
             /\ theirs.state \in {"partial", "measured"}
             /\ theirs.state = "measured" <=>
                  ~t.partial /\ ~t.rising /\ ~(Cardinality(M) < Cardinality(Held(id)))
  BY <1>0, <1>1, <1>4, Zenon DEF FromPublished, Nothing
<1>5. ASSUME Cardinality(M) # 0, M # {}
      PROVE  /\ theirs.value = QuotaFigure(DeltaOf(id, M)) /\ theirs.short = ShortOf(id, M)
             /\ theirs.seen = SeenOf(id, M) /\ theirs.rising = RisingOf(id, M)
             /\ theirs.gaps = GapsOf(id, M)
             /\ theirs.state = "measured" <=>
                  WholeOf(id, M) /\ ~RisingOf(id, M) /\ ~(Cardinality(M) < Cardinality(Held(id)))
  BY <1>1, <1>2, <1>4, <1>5, Zenon DEF ShortOf, Least
<1> QED
  BY <1>0, <1>3, <1>4, <1>5, Zenon

\* What the server may publish of an account that holds the limit.
LEMMA SamplesHeld ==
  ASSUME UsageTyped, NEW id, NEW o \in Held(id)
  PROVE  /\ o \in Owner
         /\ Sampled(holding[o].windows[id].periods[usagePeriod])
         /\ usagePeriod = "weekly" /\ Sample(holding[o].windows[id].forecast) # Null
              => Current(id, o) # Null
<1>1. o \in Owner /\ id \in DOMAIN holding[o].windows
  BY DEF Held, Holders
<1>2. PICK h \in Holdings : h = holding[o]
  BY <1>1 DEF UsageTyped
<1>3. PICK w : w = h.windows[id]
  OBVIOUS
<1>4. /\ Sampled(w.periods[usagePeriod])
      /\ Sample(w.forecast) # Null => Sample(w.periods["weekly"]) # Null
  BY <1>1, <1>2, <1>3, HoldingsAssumption DEF UsageTyped
<1> QED
  BY <1>1, <1>2, <1>3, <1>4 DEF Current

\* While an account has a current sample, the page takes the samples the server totals.
LEMMA PickedIsCurrent ==
  ASSUME UsageTyped, NEW id, AnyCurrent(id)
  PROVE  /\ \A o \in Held(id) : Borrowed(id, o) = Null /\ Picked(id, o) = Current(id, o)
         /\ Taken(id) = Measured(id) /\ Measured(id) # {}
         /\ \A o \in Measured(id) : Known(Current(id, o).coverage) => Current(id, o).coverage <= Covered
<1>1. ASSUME NEW o \in Held(id)
      PROVE  /\ Borrowed(id, o) = Null /\ Picked(id, o) = Current(id, o)
             /\ Current(id, o) # Null =>
                  /\ Known(Current(id, o).delta) => Current(id, o).delta >= 0
                  /\ Known(Current(id, o).coverage) => Current(id, o).coverage <= Covered
  <2>1. Borrowed(id, o) = Null
    BY DEF Borrowed
  <2>2. Picked(id, o) = Current(id, o)
    BY <2>1, SamplesHeld DEF Picked
  <2>3. Sampled(holding[o].windows[id].periods[usagePeriod])
    BY SamplesHeld
  <2> QED
    BY <2>1, <2>2, <2>3, Zenon DEF Sampled, Current
<1>2. Taken(id) = Measured(id)
  BY <1>1 DEF Taken, Measured
<1>3. Measured(id) # {}
  BY <1>1 DEF AnyCurrent, Measured
<1> QED
  BY <1>1, <1>2, <1>3 DEF Measured

\* Without one, the server totals nothing and what the page counts is of the past.
LEMMA NothingCurrent ==
  ASSUME UsageTyped, NEW id, ~AnyCurrent(id)
  PROVE  Measured(id) = {} /\ \A o \in Taken(id) : Borrowed(id, o) # Null
<1>1. Measured(id) = {}
  BY DEF Measured, AnyCurrent
<1>2. ASSUME NEW o \in Taken(id), Borrowed(id, o) = Null
      PROVE  FALSE
  <2>1. o \in Held(id) /\ Picked(id, o) # Null /\ Known(Picked(id, o).delta)
    BY DEF Taken
  <2>2. CASE Current(id, o) # Null
    BY <1>2, <2>1, <2>2 DEF Picked, AnyCurrent
  <2>3. CASE Current(id, o) = Null
    BY <1>2, <2>1, <2>3, SamplesHeld DEF Picked
  <2> QED
    BY <2>2, <2>3
<1> QED
  BY <1>1, <1>2

\* A mean is not short when no part is, and a mean of coverages is the whole only
\* when each coverage is.
LEMMA Means ==
  ASSUME NEW M, IsFiniteSet(M), NEW c, NEW whole \in Int
  PROVE  /\ (\A o \in M : c[o] \in Int /\ c[o] >= whole)
              => ~ShortMean(SumFunction([o \in M |-> c[o]]), Cardinality(M), whole)
         /\ (\A o \in M : c[o] \in Int /\ c[o] <= whole)
              /\ ~ShortMean(SumFunction([o \in M |-> c[o]]), Cardinality(M), whole)
              => \A o \in M : c[o] = whole
<1> DEFINE h == [o \in M |-> c[o]]
<1>1. DOMAIN h = M /\ \A o \in M : h[o] = c[o]
  OBVIOUS
<1> HIDE DEF h
<1>2. ASSUME \A o \in M : c[o] \in Int
      PROVE  /\ SumFunction(h) \in Int /\ Cardinality(M) * whole \in Int
             /\ (\A o \in M : h[o] >= whole) => SumFunction(h) >= Cardinality(M) * whole
             /\ (\A o \in M : h[o] <= whole) /\ SumFunction(h) >= Cardinality(M) * whole
                  => \A o \in M : h[o] = whole
  <2>1. \A o \in DOMAIN h : h[o] \in Int
    BY <1>1, <1>2
  <2>2. Cardinality(M) * whole \in Int
    BY FS_CardinalityType, SMT
  <2> QED
    BY <1>1, <2>1, <2>2, SumBounds
<1>3. ASSUME \A o \in M : c[o] \in Int /\ c[o] >= whole
      PROVE  ~(SumFunction(h) < Cardinality(M) * whole)
  BY <1>1, <1>2, <1>3, SMT
<1>4. ASSUME \A o \in M : c[o] \in Int /\ c[o] <= whole, ~(SumFunction(h) < Cardinality(M) * whole)
      PROVE  \A o \in M : c[o] = whole
  <2>1. SumFunction(h) >= Cardinality(M) * whole
    BY <1>2, <1>4, SMT
  <2> QED
    BY <1>1, <1>2, <1>4, <2>1
<1> QED
  BY <1>3, <1>4 DEF ShortMean, h

\* Neither side knows a window that all accounts share.
LEMMA AgreedWithoutBasis ==
  ASSUME Basis = "none"
  PROVE  PublishedAgrees
<1>1. FromPublished(SumConsumption) = NoWindow
  BY Zenon DEF FromPublished, SumConsumption
<1>2. NoWindow.state \in {"unobserved", "unsupported"} /\ NoWindow.window = "none"
      /\ NoWindow.historical = FALSE
  BY DEF NoWindow, Nothing
<1>3. OwnUsage = NoWindow \/ OwnUsage = Nothing("unknown-scope")
  BY DEF OwnUsage
<1>4. Nothing("unknown-scope").state = "unknown-scope" /\ Nothing("unknown-scope").historical = FALSE
  BY DEF Nothing
<1>5. NoWindow.absent + NoWindow.unreadable = 0
  BY DEF NoWindow, Nothing
<1>6. WeeklyQuotaUsage.state # "measured"
  BY <1>1, <1>2, <1>3, <1>4 DEF WeeklyQuotaUsage
<1>7. CASE OwnUsage = NoWindow
  BY <1>1, <1>2, <1>5, <1>6, <1>7, SMT DEF PublishedAgrees
<1>8. CASE OwnUsage = Nothing("unknown-scope")
  BY <1>1, <1>2, <1>4, <1>6, <1>8, Zenon DEF PublishedAgrees
<1> QED
  BY <1>3, <1>7, <1>8

\* No account has a current sample: the server says so, the page what was before.
LEMMA AgreedOnThePast ==
  ASSUME UsageTyped, NEW id, id = Basis, id # "none", ~AnyCurrent(id)
  PROVE  PublishedAgrees
<1>1. PICK own, theirs : own = OwnUsage /\ theirs = FromPublished(SumConsumption)
  OBVIOUS
<1>2. own = SummariseQuotaUsage(id)
  BY <1>1 DEF OwnUsage
<1>3. Cardinality(Measured(id)) = 0
  BY NothingCurrent, FS_EmptySet
<1>4. theirs = Unobserved(id, Cardinality(Held(id)))
  BY <1>1, <1>3, TheirsTold
<1>5. theirs.state = "unobserved" /\ theirs.historical = FALSE /\ theirs.absent = 0 /\ theirs.unreadable = 0
  BY <1>4 DEF Unobserved, Nothing
<1>6. CASE Taken(id) = {}
  <2>1. own = theirs
    BY <1>2, <1>4, <1>6, Zenon DEF SummariseQuotaUsage, Taken
  <2>2. WeeklyQuotaUsage.state = "unobserved"
    BY <1>1, <1>5, <2>1 DEF WeeklyQuotaUsage
  <2>3. own.absent + own.unreadable = 0
    BY <1>5, <2>1
  <2> QED
    BY <1>1, <1>5, <2>1, <2>2, <2>3, SMT DEF PublishedAgrees
<1>7. CASE Taken(id) # {}
  <2>1. \E o \in Taken(id) : Borrowed(id, o) # Null
    BY <1>7, NothingCurrent
  <2>3. own.historical /\ own.state = "partial"
    BY <1>2, <2>1, OwnPast, SMT
  <2>4. WeeklyQuotaUsage.state # "measured"
    BY <1>1, <1>5, <2>3 DEF WeeklyQuotaUsage
  <2> QED
    BY <1>1, <1>5, <2>3, <2>4, Zenon DEF PublishedAgrees
<1> QED
  BY <1>6, <1>7

\* Some account has one: both say the same of the same accounts.
LEMMA AgreedOnThePresent ==
  ASSUME UsageTyped, IsFiniteSet(Owner), NEW id, id = Basis, id # "none", AnyCurrent(id)
  PROVE  PublishedAgrees
<1>1. PICK own, theirs : own = OwnUsage /\ theirs = FromPublished(SumConsumption)
  OBVIOUS
<1>2. own = SummariseQuotaUsage(id)
  BY <1>1 DEF OwnUsage
<1>3. PICK M : M = Measured(id) /\ M = Taken(id) /\ M # {}
  BY PickedIsCurrent
<1>4. PICK n, held : n = Cardinality(M) /\ held = Cardinality(Held(id))
  OBVIOUS
<1>5. /\ M \subseteq Held(id) /\ IsFiniteSet(Held(id)) /\ IsFiniteSet(M)
      /\ n \in Nat /\ held \in Nat /\ n # 0 /\ (~(n < held) <=> M = Held(id))
  <2>1. M \subseteq Held(id) /\ Held(id) \subseteq Owner
    BY <1>3 DEF Measured, Held, Holders
  <2>2. IsFiniteSet(Held(id)) /\ IsFiniteSet(M) /\ n \in Nat /\ held \in Nat
    BY <1>4, <2>1, FS_Subset, FS_CardinalityType
  <2>3. n # 0
    BY <1>3, <1>4, <2>2, FS_EmptySet
  <2>4. n <= held /\ (n = held <=> M = Held(id))
    BY <1>4, <2>1, <2>2, FS_Subset
  <2> QED
    BY <2>1, <2>2, <2>3, <2>4
<1>6. PICK absent, unreadable : absent = own.absent /\ unreadable = own.unreadable
  OBVIOUS
<1>7. /\ absent \in Nat /\ unreadable \in Nat
      /\ absent = 0 <=> Absent(id) = {}
      /\ unreadable = 0 <=> Unreadable(id) = {}
  <2>1. absent = Cardinality(Absent(id)) /\ unreadable = Cardinality(Unreadable(id))
    BY <1>2, <1>3, <1>6, OwnTold, Zenon
  <2>2. IsFiniteSet(Absent(id)) /\ IsFiniteSet(Unreadable(id))
    BY FS_Subset DEF Absent, Unreadable
  <2> QED
    BY <2>1, <2>2, FS_CardinalityType, FS_EmptySet
<1>8. \A o \in Taken(id) : Picked(id, o) = Current(id, o) /\ Borrowed(id, o) = Null
  BY <1>3, <1>5, PickedIsCurrent
<1>9. \A o \in M : Known(Current(id, o).coverage) => Current(id, o).coverage <= Covered
  BY <1>3, PickedIsCurrent
<1> DEFINE short == ShortOf(id, M)  rising == RisingOf(id, M)  seen == SeenOf(id, M)
<1>a. /\ own.window = id /\ own.value = QuotaFigure(DeltaOf(id, M)) /\ own.of = <<n, held>>
      /\ own.short = short /\ own.seen = seen /\ own.rising = rising /\ own.gaps = GapsOf(id, M)
      /\ own.historical = FALSE /\ own.state \in {"partial", "measured"}
      /\ own.state = "measured" <=>
           /\ ~rising /\ ~short /\ M = Held(id) /\ Absent(id) = {} /\ Unreadable(id) = {}
           /\ seen # Null /\ ~ShortMean(seen, n, Covered)
  <2>1. Taken(id) # {} /\ Taken(id) = M
    BY <1>3
  <2>2. OwnFigures(id, Taken(id), own)
    BY <1>2, <1>8, <2>1, OwnPresent, SMT
  <2>3. OwnFigures(id, M, own)
    BY <2>1, <2>2
  <2> QED
    BY <1>4, <2>3, Zenon DEF OwnFigures
<1>b. /\ theirs.window = id /\ theirs.value = QuotaFigure(DeltaOf(id, M)) /\ theirs.of = <<n, held>>
      /\ theirs.short = short /\ theirs.seen = seen /\ theirs.rising = rising
      /\ theirs.gaps = GapsOf(id, M)
      /\ theirs.state \in {"partial", "measured"}
      /\ theirs.state = "measured" <=> WholeOf(id, M) /\ ~rising /\ ~(n < held)
  BY <1>1, <1>3, <1>4, <1>5, TheirsTold, Zenon
<1>10. \A f \in {"window", "value", "of", "short", "seen", "rising", "gaps"} : own[f] = theirs[f]
  BY <1>a, <1>b
<1>11. own.state = "measured" <=>
         /\ ~rising /\ ~short /\ M = Held(id) /\ absent = 0 /\ unreadable = 0
         /\ seen # Null /\ ~ShortMean(seen, n, Covered)
  BY <1>7, <1>a, Zenon
<1>12. theirs.state = "measured" <=> WholeOf(id, M) /\ ~rising /\ M = Held(id)
  BY <1>5, <1>b, Zenon
<1> DEFINE Coverage == [o \in M |-> Current(id, o).coverage]
           Spans == [o \in M |-> N0(Current(id, o).span)]
<1>13. Covered \in Int /\ Least \in Int /\ \A v : N0(v) \in Int
  <2>1. PeriodHours[usagePeriod] \in Nat /\ SpanSlack \in Nat /\ Covered \in Nat
    BY QuotaUsageAssumption DEF UsageTyped
  <2> QED
    BY <2>1 DEF N0, Least
<1>14. ASSUME own.state = "measured"
       PROVE  \A o \in M : Known(Current(id, o).coverage) /\ Current(id, o).coverage = Covered
  <2>1. seen # Null /\ ~ShortMean(seen, n, Covered)
    BY <1>11, <1>14, Zenon
  <2>2. \A o \in M : Known(Current(id, o).coverage)
    BY <2>1, Zenon DEF SeenOf
  <2>3. \A o \in M : Coverage[o] \in Int /\ Coverage[o] <= Covered
    BY <1>9, <2>2 DEF Known
  <2>4. Coverage = [o \in M |-> Coverage[o]]
    OBVIOUS
  <2>5. seen = SumFunction(Coverage)
    BY <2>2, Zenon DEF SeenOf
  <2> HIDE DEF Coverage, seen
  <2>6. ~ShortMean(SumFunction([o \in M |-> Coverage[o]]), Cardinality(M), Covered)
    BY <1>4, <2>1, <2>4, <2>5
  <2>7. \A o \in M : Coverage[o] = Covered
    BY <1>5, <1>13, <2>3, <2>6, Means
  <2> QED
    BY <2>2, <2>7 DEF Coverage
<1>15. ASSUME theirs.state = "measured"
       PROVE  /\ \A o \in M : Known(Current(id, o).coverage) /\ Current(id, o).coverage = Covered
              /\ ~short /\ seen # Null /\ ~ShortMean(seen, n, Covered)
  <2>1. \A o \in M : /\ Known(Current(id, o).coverage)
                     /\ ~(Current(id, o).coverage < Covered)
                     /\ ~(N0(Current(id, o).span) < Least)
    BY <1>12, <1>15, Zenon DEF WholeOf
  <2>2. \A o \in M : Coverage[o] \in Int /\ Coverage[o] >= Covered /\ Coverage[o] = Covered
    BY <1>9, <1>13, <2>1 DEF Known
  <2>3. \A o \in M : Spans[o] \in Int /\ Spans[o] >= Least
    BY <1>13, <2>1
  <2>4. Coverage = [o \in M |-> Coverage[o]] /\ Spans = [o \in M |-> Spans[o]]
    OBVIOUS
  <2>5. seen = SumFunction(Coverage) /\ (short <=> ShortMean(SumFunction(Spans), n, Least))
    BY <1>4, <2>1, Zenon DEF SeenOf, ShortOf, SpanOf
  <2> HIDE DEF Coverage, Spans, seen, short
  <2>6. ~ShortMean(SumFunction([o \in M |-> Coverage[o]]), Cardinality(M), Covered)
    BY <1>5, <1>13, <2>2, Means
  <2>7. ~ShortMean(SumFunction([o \in M |-> Spans[o]]), Cardinality(M), Least)
    BY <1>5, <1>13, <2>3, Means
  <2>8. SumFunction(Coverage) # Null
    <3>1. DOMAIN Coverage = M
      BY DEF Coverage
    <3>2. SumFunction(Coverage) \in Int
      BY <1>5, <1>13, <2>2, <3>1, SumBounds
    <3> QED
      BY <3>2, ValuesAssumption
  <2>9. ~short /\ seen # Null /\ ~ShortMean(seen, n, Covered)
    BY <1>4, <2>4, <2>5, <2>6, <2>7, <2>8
  <2> QED
    BY <2>1, <2>2, <2>9 DEF Coverage
<1> HIDE DEF seen, rising, short
<1>16. ASSUME own.state = "measured", theirs.state # "measured"
       PROVE  \E o \in Held(id) : N0(Current(id, o).span) < Least
  <2>1. ~rising /\ M = Held(id)
    BY <1>11, <1>16, Zenon
  <2>2. \A o \in M : Known(Current(id, o).coverage) /\ ~(Current(id, o).coverage < Covered)
    BY <1>13, <1>14, <1>16
  <2> QED
    BY <1>12, <1>16, <2>1, <2>2, Zenon DEF WholeOf
<1>17. own.state = "measured" =>
         theirs.state = "measured" \/ (~own.short /\ \E o \in Held(id) : N0(Current(id, o).span) < Least)
  BY <1>11, <1>16, <1>a, Zenon
<1>18. absent + unreadable = 0 /\ theirs.state = "measured" => own.state = "measured"
  <2>1. absent + unreadable = 0 => absent = 0 /\ unreadable = 0
    BY <1>7, SMT
  <2> QED
    BY <1>11, <1>12, <1>15, <2>1, Zenon
<1>19. absent + unreadable > 0 => own.state = "partial"
  <2>1. absent + unreadable > 0 => ~(absent = 0 /\ unreadable = 0)
    BY <1>7, SMT
  <2> QED
    BY <1>11, <1>a, <2>1
<1>20. WeeklyQuotaUsage.state = "measured" => \A o \in Held(id) : Current(id, o).coverage = Covered
  <2>1. WeeklyQuotaUsage.state = "measured" => own.state = "measured" \/ theirs.state = "measured"
    BY <1>1 DEF WeeklyQuotaUsage
  <2>2. own.state = "measured" \/ theirs.state = "measured" => M = Held(id)
    BY <1>11, <1>12, Zenon
  <2> QED
    BY <1>14, <1>15, <2>1, <2>2
<1>21. own.state # "unknown-scope" /\ theirs.state \notin {"unobserved", "unsupported"}
  BY <1>a, <1>b
<1>22. /\ own.absent + own.unreadable = 0 /\ theirs.state = "measured" => own.state = "measured"
       /\ own.absent + own.unreadable > 0 => own.state = "partial"
  BY <1>6, <1>18, <1>19
<1>23. Least = PeriodHours[usagePeriod] - SpanSlack
  BY DEF Least
<1>24. ~own.historical /\ own.state # "unknown-scope"
  BY <1>a, Zenon
<1> HIDE DEF Coverage, Spans
<1> QED
  BY <1>1, <1>10, <1>17, <1>20, <1>21, <1>22, <1>23, <1>24, Zenon DEF PublishedAgrees

\* In every state, whatever the accounts publish: the server's total and the page's own
\* say the same of a period, and what they tell apart is what the one knows and the
\* other does not (calc/consumption_total.go, ui/quota.ts).
THEOREM PublishedAgreesAlways ==
  ASSUME IsFiniteSet(Owner)
  PROVE  UsageSpec => []PublishedAgrees
<1>1. UsageTyped => PublishedAgrees
  BY AgreedWithoutBasis, AgreedOnThePast, AgreedOnThePresent
<1> QED
  BY <1>1, UsageTypedAlways, PTL

(***************************************************************************)
(* The words of a span of usage.                                           *)
(***************************************************************************)
LEMMA LeastOfFinite ==
  ASSUME NEW S, IsFiniteSet(S), S # {}, S \subseteq Int
  PROVE  Min(S) \in S /\ \A n \in S : Min(S) <= n
<1> DEFINE G == {s \in SUBSET S : s # {} => \E m \in s : \A n \in s : m <= n}
<1>1. {} \in G
  OBVIOUS
<1>2. ASSUME NEW s \in SUBSET S, s # {}, \A x \in s : s \ {x} \in G
      PROVE  s \in G
  <2>1. PICK x \in s : TRUE
    BY <1>2
  <2>2. CASE s \ {x} = {}
    <3>1. \A n \in s : x <= n
      BY <2>1, <2>2
    <3> QED
      BY <2>1, <3>1
  <2>3. CASE s \ {x} # {}
    <3>1. PICK m \in s \ {x} : \A n \in s \ {x} : m <= n
      BY <1>2, <2>1, <2>3
    <3>2. m \in s /\ m \in Int /\ x \in Int
      BY <2>1, <3>1
    <3>3. CASE m <= x
      BY <3>1, <3>2, <3>3
    <3>4. CASE ~(m <= x)
      <4>1. \A n \in s : x <= n
        BY <3>1, <3>2, <3>4
      <4> QED
        BY <2>1, <4>1
    <3> QED
      BY <3>3, <3>4
  <2> QED
    BY <2>2, <2>3
<1> HIDE DEF G
<1>3. S \in G
  BY <1>1, <1>2, SubsetInduction
<1>4. PICK m \in S : \A n \in S : m <= n
  BY <1>3 DEF G
<1> QED
  BY <1>4 DEF Min

LEMMA LeastOfNaturals ==
  ASSUME NEW S, S \subseteq Nat, S # {}
  PROVE  Min(S) \in S /\ \A n \in S : Min(S) <= n
<1>1. PICK k : k \in S /\ k \in Nat
  OBVIOUS
<1> DEFINE T == S \cap 0 .. k
<1>2. IsFiniteSet(T) /\ k \in T /\ T \subseteq Int
  <2>1. IsFiniteSet(T)
    <3>1. IsFiniteSet(0 .. k)
      BY <1>1, FS_Interval
    <3> QED
      BY <3>1, FS_Intersection, Zenon
  <2>2. k \in T /\ T \subseteq Int
    BY <1>1
  <2> QED
    BY <2>1, <2>2
<1>3. PICK m : m \in T /\ \A n \in T : m <= n
  <2> HIDE DEF T
  <2> QED
    BY <1>2, LeastOfFinite
<1>4. ASSUME NEW n \in S
      PROVE  m <= n
  <2>1. n \in Nat /\ m \in 0 .. k
    BY <1>3
  <2>2. CASE n <= k
    BY <1>3, <2>1, <2>2
  <2>3. CASE ~(n <= k)
    BY <1>1, <2>1, <2>3
  <2> QED
    BY <2>2, <2>3
<1> QED
  BY <1>3, <1>4 DEF Min

AXES == {"unknown", "none", "partial", "full"}

LEMMA AxisTold ==
  ASSUME NEW value, NEW hours, NEW axis, axis = CoverageAxis(value, hours)
  PROVE  /\ axis \in AXES
         /\ axis # "unknown" => Known(value) /\ Known(hours)
         /\ axis = "none" => value <= Tolerance
         /\ Known(hours) /\ hours > 0 /\ value = 0 => axis = "none"
<1>1. 0 <= Tolerance
  BY PeriodsAssumption
<1> QED
  BY <1>1 DEF CoverageAxis, Known, AXES

WordFits(s, record, observation, word) ==
  /\ word = "none" <=> ~ShortAxis(record) /\ ~ShortAxis(observation)
  /\ word = "short record" => ShortAxis(record)
  /\ word = "short observation" => ShortAxis(observation)
  /\ word = "unobserved" <=> observation = "none"
  /\ word = "no record" => record = "none" /\ s.requests = 0
  /\ ShortAxis(record) /\ ShortAxis(observation) /\ word = "short observation"
       => N0(s.observed) <= N0(s.record)

LEMMA WordTold ==
  ASSUME NEW s, NEW record \in AXES, NEW observation \in AXES
  PROVE  WordFits(s, record, observation, StateWord(s, record, observation))
  BY DEF StateWord, ShortAxis, AXES, WordFits

StatisticsOfCell(bag, key) ==
  IF IsRecord(bag) /\ key \in DOMAIN bag THEN PeriodStats(bag[key]) ELSE Null

\* A cell without statistics has no word; one with them has what its axes say.
CellFits(s, record, observation, v) ==
  /\ v.word = StateWord(s, record, observation)
  /\ v.state = IF "none" \in {record, observation} THEN "attention"
               ELSE IF "partial" \in {record, observation} THEN "partial" ELSE "ok"
  /\ v.spans = (IF ShortAxis(record) THEN {"record"} ELSE {})
                 \cup (IF ShortAxis(observation) THEN {"observed"} ELSE {})
  /\ v.head = IF v.word = "no record" THEN "no record" ELSE HeadNote(s)
  /\ v.amount = UsageAmount(s)
  /\ v.partial = (s.unpriced > 0)

LEMMA CellTold ==
  ASSUME NEW bag, NEW key, NEW s, s = StatisticsOfCell(bag, key)
  PROVE  LET v == PeriodState(bag, key) IN
         /\ ~IsRecord(bag) => v.word = "none" /\ v.state = "unknown" /\ v.spans = {}
         /\ IsRecord(bag) /\ s = Null => v.word = "none" /\ v.state = "unsupported" /\ v.spans = {}
         /\ IsRecord(bag) /\ s # Null =>
              CellFits(s, CoverageAxis(s.record, s.hours), CoverageAxis(s.observed, s.hours), v)
<1>1. s = IF IsRecord(bag) /\ key \in DOMAIN bag THEN PeriodStats(bag[key]) ELSE Null
  BY DEF StatisticsOfCell
<1>2. PICK v : v = PeriodState(bag, key)
  OBVIOUS
<1>3. /\ ~IsRecord(bag) => v.word = "none" /\ v.state = "unknown" /\ v.spans = {}
      /\ IsRecord(bag) /\ s = Null => v.word = "none" /\ v.state = "unsupported" /\ v.spans = {}
      /\ IsRecord(bag) /\ s # Null =>
           CellFits(s, CoverageAxis(s.record, s.hours), CoverageAxis(s.observed, s.hours), v)
  BY <1>1, <1>2, Zenon DEF PeriodState, CellFits
<1> QED
  BY <1>2, <1>3, Zenon

PeriodsTyped ==
  /\ IsRecord(periods) => DOMAIN periods = PERIODS /\ \A key \in PERIODS : periods[key] \in Statistics[key]
  /\ selected \in PERIODS /\ costSelection \in COST_PERIODS
  /\ costs \in [COST_PERIODS -> Costs]

LEMMA PeriodsTypedAlways == PeriodsSpec => []PeriodsTyped
<1>1. PeriodsInit => PeriodsTyped
  <2> SUFFICES ASSUME PeriodsInit PROVE PeriodsTyped
    OBVIOUS
  <2>1. "weekly" \in PERIODS /\ "week" \in COST_PERIODS
    BY DEF PERIODS, COST_PERIODS
  <2>2. IsRecord(periods) => periods # Null
    BY DEF IsRecord
  <2> QED
    BY <2>1, <2>2 DEF PeriodsInit, PeriodsTyped
<1>2. PeriodsTyped /\ [PeriodsNext]_periodsVars => PeriodsTyped'
  <2> SUFFICES ASSUME PeriodsTyped, [PeriodsNext]_periodsVars PROVE PeriodsTyped'
    OBVIOUS
  <2>1. ASSUME NEW key \in PERIODS, NEW s \in Statistics[key], PublishPeriod(key, s)
        PROVE  PeriodsTyped'
    BY <2>1 DEF PeriodsTyped, PublishPeriod
  <2>2. ASSUME NEW key \in COST_PERIODS, NEW c \in Costs, PublishCosts(key, c)
        PROVE  PeriodsTyped'
    BY <2>2 DEF PeriodsTyped, PublishCosts
  <2>3. ASSUME NEW key \in PERIODS, ChoosePeriod(key)
        PROVE  PeriodsTyped'
    BY <2>3 DEF PeriodsTyped, ChoosePeriod
  <2>4. ASSUME NEW key \in COST_PERIODS, ChooseSpan(key)
        PROVE  PeriodsTyped'
    BY <2>4 DEF PeriodsTyped, ChooseSpan
  <2>5. CASE UNCHANGED periodsVars
    BY <2>5 DEF PeriodsTyped, periodsVars
  <2> QED
    BY <2>1, <2>2, <2>3, <2>4, <2>5 DEF PeriodsNext
<1> QED
  BY <1>1, <1>2, PTL DEF PeriodsSpec

\* What periodStats makes of what is published.
LEMMA StatisticsTold ==
  ASSUME NEW o, IsRecord(o), NEW s, s = PeriodStats(o)
  PROVE  /\ s.requests = N0(o.requests) /\ s.unpriced = N0(o.unpriced) /\ s.usd = Num(o.usd)
         /\ s.record = Num(o.record) /\ s.observed = Num(o.observed) /\ s.hours = Num(o.hours)
  BY DEF PeriodStats

\* A cell says whatever its figure is short of.
LEMMA WordMatchesCell ==
  ASSUME PeriodsTyped, NEW key \in PERIODS, NEW v, v = PeriodCell(periods, key)
  PROVE  /\ v.word = "none" <=> v.state \in {"ok", "unknown", "unsupported"}
         /\ v.word = "none" <=> v.spans = {}
         /\ v.word = "short record" => "record" \in v.spans
         /\ v.word = "short observation" => "observed" \in v.spans
         /\ \A l \in PeriodLine(periods, key) :
              LET s == PeriodStats(periods[key]) IN
              /\ Known(s.hours) /\ s.hours > 0 /\ s.observed = 0 => v.word = "unobserved"
              /\ v.word = "no record" => s.record <= Tolerance /\ s.requests = 0
              /\ v.spans = {"record", "observed"} /\ v.word = "short observation" =>
                   s.observed <= s.record
              /\ v.head = "calls" => Known(v.amount) /\ s.requests > 0
              /\ v.partial <=> l.excluded # {}
              /\ l.selected /\ TokenNotes(periods) # {} => v.head \in {"calls", "no price"}
              /\ l.selected => ~Unsupported(periods)
<1>1. v = PeriodState(periods, key)
  BY DEF PeriodCell
<1>2. PICK s : s = StatisticsOfCell(periods, key)
  OBVIOUS
<1>3. CASE ~IsRecord(periods)
  <2>1. v.word = "none" /\ v.state = "unknown" /\ v.spans = {}
    BY <1>1, <1>2, <1>3, CellTold
  <2>2. PeriodLine(periods, key) = {}
    BY <1>3, Zenon DEF PeriodLine
  <2> QED
    BY <2>1, <2>2
<1>4. CASE IsRecord(periods) /\ s = Null
  <2>1. v.word = "none" /\ v.state = "unsupported" /\ v.spans = {}
    BY <1>1, <1>2, <1>4, CellTold
  <2>2. PeriodLine(periods, key) = {}
    BY <1>2, <1>4, Zenon DEF PeriodLine, StatisticsOfCell
  <2> QED
    BY <2>1, <2>2
<1>5. CASE IsRecord(periods) /\ s # Null
  <2>1. PICK record, observation :
          record = CoverageAxis(s.record, s.hours) /\ observation = CoverageAxis(s.observed, s.hours)
    OBVIOUS
  <2>0. CellFits(s, record, observation, v)
    BY <1>1, <1>2, <1>5, <2>1, CellTold
  <2>2. /\ v.word = StateWord(s, record, observation)
        /\ v.state = IF "none" \in {record, observation} THEN "attention"
                     ELSE IF "partial" \in {record, observation} THEN "partial" ELSE "ok"
        /\ v.spans = (IF ShortAxis(record) THEN {"record"} ELSE {})
                       \cup (IF ShortAxis(observation) THEN {"observed"} ELSE {})
        /\ v.head = IF v.word = "no record" THEN "no record" ELSE HeadNote(s)
        /\ v.amount = UsageAmount(s)
        /\ v.partial = (s.unpriced > 0)
    BY <2>0, Zenon DEF CellFits
  <2>3. /\ record \in AXES /\ observation \in AXES
        /\ record # "unknown" => Known(s.record)
        /\ observation # "unknown" => Known(s.observed)
        /\ record = "none" => s.record <= Tolerance
        /\ Known(s.hours) /\ s.hours > 0 /\ s.observed = 0 => observation = "none"
    BY <2>1, AxisTold
  <2>4. /\ v.word = "none" <=> ~ShortAxis(record) /\ ~ShortAxis(observation)
        /\ v.word = "short record" => ShortAxis(record)
        /\ v.word = "short observation" => ShortAxis(observation)
        /\ v.word = "unobserved" <=> observation = "none"
        /\ v.word = "no record" => record = "none" /\ s.requests = 0
        /\ ShortAxis(record) /\ ShortAxis(observation) /\ v.word = "short observation"
             => N0(s.observed) <= N0(s.record)
    <3>1. WordFits(s, record, observation, v.word)
      <4>1. WordFits(s, record, observation, StateWord(s, record, observation))
        BY <2>3, WordTold, Zenon
      <4> QED
        BY <2>2, <4>1
    <3> QED
      BY <3>1, Zenon DEF WordFits
  <2>5. v.word = "none" <=> v.state \in {"ok", "unknown", "unsupported"}
    BY <2>2, <2>3, <2>4 DEF ShortAxis, AXES
  <2>6. /\ v.word = "none" <=> v.spans = {}
        /\ v.word = "short record" => "record" \in v.spans
        /\ v.word = "short observation" => "observed" \in v.spans
        /\ v.spans = {"record", "observed"} => ShortAxis(record) /\ ShortAxis(observation)
    <3>2. CASE ShortAxis(record) /\ ShortAxis(observation)
      <4>1. v.spans = {"record", "observed"}
        BY <2>2, <3>2
      <4> QED
        BY <2>4, <3>2, <4>1
    <3>3. CASE ShortAxis(record) /\ ~ShortAxis(observation)
      <4>1. v.spans = {"record"}
        BY <2>2, <3>3
      <4> QED
        BY <2>4, <3>3, <4>1
    <3>4. CASE ~ShortAxis(record) /\ ShortAxis(observation)
      <4>1. v.spans = {"observed"}
        BY <2>2, <3>4
      <4> QED
        BY <2>4, <3>4, <4>1
    <3>5. CASE ~ShortAxis(record) /\ ~ShortAxis(observation)
      <4>1. v.spans = {}
        BY <2>2, <3>5
      <4> QED
        BY <2>4, <3>5, <4>1
    <3> QED
      BY <3>2, <3>3, <3>4, <3>5
  <2>7. ASSUME NEW l \in PeriodLine(periods, key)
        PROVE  LET t == PeriodStats(periods[key]) IN
               /\ Known(t.hours) /\ t.hours > 0 /\ t.observed = 0 => v.word = "unobserved"
               /\ v.word = "no record" => t.record <= Tolerance /\ t.requests = 0
               /\ v.spans = {"record", "observed"} /\ v.word = "short observation" =>
                    t.observed <= t.record
               /\ v.head = "calls" => Known(v.amount) /\ t.requests > 0
               /\ v.partial <=> l.excluded # {}
               /\ l.selected /\ TokenNotes(periods) # {} => v.head \in {"calls", "no price"}
               /\ l.selected => ~Unsupported(periods)
    <3>1. PICK o : o = periods[key]
      OBVIOUS
    <3>2. s = PeriodStats(o) /\ l.excluded = ExcludedNote(s) /\ l.selected = (key = selected)
      <4>1. PeriodLine(periods, key) =
              {[requests |-> s.requests, priced |-> PricedShare(s), excluded |-> ExcludedNote(s),
                spans |-> PeriodState(periods, key).spans, selected |-> key = selected]}
        BY <1>2, <1>5, Zenon DEF PeriodLine, StatisticsOfCell
      <4>2. l.excluded = ExcludedNote(s) /\ l.selected = (key = selected)
        <5>1. l = [requests |-> s.requests, priced |-> PricedShare(s), excluded |-> ExcludedNote(s),
                   spans |-> PeriodState(periods, key).spans, selected |-> key = selected]
          BY <2>7, <4>1
        <5> QED
          BY <5>1, Zenon
      <4> QED
        BY <1>2, <1>5, <3>1, <4>2 DEF StatisticsOfCell
    <3>3. IsRecord(o)
      BY <1>5, <3>2 DEF PeriodStats
    <3>4. s.requests \in Int /\ s.requests >= 0 /\ s.unpriced \in Int /\ s.unpriced >= 0
      <4>1. s.requests = N0(o.requests) /\ s.unpriced = N0(o.unpriced)
        BY <3>2, <3>3, StatisticsTold
      <4>2. N0(o.requests) >= 0 /\ N0(o.unpriced) >= 0
        BY <1>5, <3>1, <3>3, StatisticsAssumption DEF PeriodsTyped
      <4>3. N0(o.requests) \in Int /\ N0(o.unpriced) \in Int
        BY DEF N0
      <4> QED
        BY <4>1, <4>2, <4>3
    <3>5. Known(s.hours) /\ s.hours > 0 /\ s.observed = 0 => v.word = "unobserved"
      BY <2>3, <2>4
    <3>6. v.word = "no record" => s.record <= Tolerance /\ s.requests = 0
      BY <2>3, <2>4
    <3>7. v.spans = {"record", "observed"} /\ v.word = "short observation" => s.observed <= s.record
      BY <2>3, <2>4, <2>6 DEF ShortAxis, N0, Known
    <3>8. v.head = "calls" => Known(v.amount) /\ s.requests > 0
      <4>1. v.head = "calls" => HeadNote(s) = "calls"
        BY <2>2
      <4>2. HeadNote(s) = "calls" => s.requests # 0 /\ Known(s.usd)
        BY DEF HeadNote
      <4>3. v.amount = s.usd
        BY <1>5, <2>2 DEF UsageAmount
      <4> QED
        BY <3>4, <4>1, <4>2, <4>3
    <3>9. v.partial <=> l.excluded # {}
      <4>1. l.excluded # {} <=> s.unpriced > 0
        BY <1>5, <3>2, <3>4 DEF ExcludedNote
      <4> QED
        BY <2>2, <4>1
    <3>10. ASSUME l.selected, TokenNotes(periods) # {}
           PROVE  v.head \in {"calls", "no price"}
      <4>1. key = selected
        BY <3>2, <3>10
      <4>2. s.requests # 0
        BY <1>5, <3>1, <3>2, <3>10, <4>1, Zenon DEF TokenNotes
      <4> QED
        BY <2>2, <2>4, <4>2 DEF HeadNote
    <3>11. ASSUME l.selected
           PROVE  ~Unsupported(periods)
      <4>1. key = selected
        BY <3>2, <3>11
      <4>2. v.state # "unsupported"
        BY <2>2
      <4> QED
        BY <1>1, <4>1, <4>2 DEF Unsupported
    <3> QED
      BY <3>1, <3>2, <3>5, <3>6, <3>7, <3>8, <3>9, <3>10, <3>11, Zenon
  <2> QED
    BY <2>4, <2>5, <2>6, <2>7, Zenon
<1> QED
  BY <1>3, <1>4, <1>5

\* The cost page.
LEMMA CostsMatch ==
  ASSUME PeriodsTyped, NEW o, o = costs[costSelection], IsRecord(o), NEW v, v = CostsView
  PROVE  /\ IsRecord(o.total) => \A x \in {"unpriced", "tokenless"} :
              N0(o.total[x]) > 0 <=> <<x, N0(o.total[x])>> \in v.facts
         /\ v.unattributed = {} <=> WithoutAccount(o.accounts) = {}
         /\ v.unattributed \subseteq {N0(o.accounts[n].requests) : n \in WithoutAccount(o.accounts)}
<1>1. PICK t : t = CostCell(o.total)
  OBVIOUS
<1>2. /\ v.facts = (IF t.unpriced > 0 THEN {<<"unpriced", t.unpriced>>} ELSE {})
                     \cup (IF t.tokenless > 0 THEN {<<"tokenless", t.tokenless>>} ELSE {})
      /\ v.unattributed = Unattributed(o.accounts)
  BY <1>1, Zenon DEF CostsView
<1>3. ASSUME IsRecord(o.total), NEW x \in {"unpriced", "tokenless"}
      PROVE  N0(o.total[x]) > 0 <=> <<x, N0(o.total[x])>> \in v.facts
  <2>1. t.unpriced = N0(o.total["unpriced"]) /\ t.tokenless = N0(o.total["tokenless"])
    BY <1>1, <1>3 DEF CostCell
  <2> QED
    BY <1>2, <1>3, <2>1
<1>4. ASSUME WithoutAccount(o.accounts) # {}
      PROVE  /\ v.unattributed # {}
             /\ v.unattributed \subseteq {N0(o.accounts[n].requests) : n \in WithoutAccount(o.accounts)}
  <2>1. o \in Costs
    BY DEF PeriodsTyped
  <2>2. WithoutAccount(o.accounts) \subseteq Nat
    BY <2>1, CostsAssumption DEF WithoutAccount
  <2>3. PICK n \in WithoutAccount(o.accounts) : n = Min(WithoutAccount(o.accounts))
    BY <1>4, <2>2, LeastOfNaturals
  <2>4. v.unattributed = {CostCell(o.accounts[n]).requests}
    BY <1>2, <1>4, <2>3 DEF Unattributed
  <2>5. IsRecord(o.accounts[n])
    BY <2>3 DEF WithoutAccount
  <2>6. CostCell(o.accounts[n]).requests = N0(o.accounts[n].requests)
    BY <2>5 DEF CostCell
  <2> QED
    BY <2>4, <2>6
<1>5. ASSUME WithoutAccount(o.accounts) = {}
      PROVE  v.unattributed = {}
  BY <1>2, <1>5 DEF Unattributed
<1> QED
  BY <1>3, <1>4, <1>5

\* Whatever is published of a span, its cell says what the figure is short of, and the
\* cost page what its total leaves out (ui/quota.ts, ui/views.ts).
THEOREM WordMatchesSpanAlways == PeriodsSpec => []WordMatchesSpan
<1>1. ASSUME PeriodsTyped PROVE WordMatchesSpan
  BY <1>1, WordMatchesCell, CostsMatch, Zenon DEF WordMatchesSpan
<1>2. PeriodsTyped => WordMatchesSpan
  BY <1>1
<1> QED
  BY <1>2, PeriodsTypedAlways, PTL

(***************************************************************************)
(* What the page says of a reading.                                        *)
(***************************************************************************)
LEMMA RoundedNear ==
  ASSUME NEW v \in Int
  PROVE  /\ Rounded(v) \in Int /\ v - Rounded(v) \in -5 .. 5
         /\ v = 0 => Rounded(v) = 0
         /\ Rounded(v) = 0 => v \in -9 .. 9
         /\ v = Whole => Rounded(v) = Whole
<1>1. Whole = 100000
  BY DEF Whole, Point
<1>2. CASE v >= 0
  <2>1. PICK q \in Int, r \in 0 .. 9 : q = (v + 5) \div 10 /\ v + 5 = 10 * q + r
    <3>1. (v + 5) \div 10 \in Int /\ (v + 5) % 10 \in 0 .. 9
          /\ v + 5 = 10 * ((v + 5) \div 10) + ((v + 5) % 10)
      BY <1>2, SMT
    <3> QED
      BY <3>1
  <2>2. Rounded(v) = q * 10
    BY <1>2, <2>1 DEF Rounded
  <2> QED
    BY <1>1, <1>2, <2>1, <2>2, SMT
<1>3. CASE v < 0
  <2>1. PICK q \in Int, r \in 0 .. 9 : q = (5 - v) \div 10 /\ 5 - v = 10 * q + r
    <3>1. (5 - v) \div 10 \in Int /\ (5 - v) % 10 \in 0 .. 9
          /\ 5 - v = 10 * ((5 - v) \div 10) + ((5 - v) % 10)
      BY <1>3, SMT
    <3> QED
      BY <3>1
  <2>2. Rounded(v) = -(q * 10)
    BY <1>3, <2>1 DEF Rounded
  <2> QED
    BY <1>1, <1>3, <2>1, <2>2, SMT
<1> QED
  BY <1>2, <1>3, SMT

\* A figure never claims the 0 or the 100 it is not, nor stands for what was not given.
LEMMA FigureTells ==
  ASSUME NEW v
  PROVE  Tells(QuotaFigure(v), v) /\ QuotaFigure(v)[1] \in {"unknown", "below", "above", "is"}
<1>1. Whole = 100000
  BY DEF Whole, Point
<1>2. CASE ~Known(v)
  BY <1>2 DEF Tells, QuotaFigure
<1>3. CASE Known(v)
  <2>1. v \in Int
    BY <1>3 DEF Known
  <2>2. PICK r \in Int : /\ r = Rounded(v) /\ v - r \in -5 .. 5
                         /\ v = 0 => r = 0
                         /\ r = 0 => v \in -9 .. 9
                         /\ v = Whole => r = Whole
    BY <2>1, RoundedNear
  <2>3. CASE v \in 1 .. 9
    <3>1. QuotaFigure(v) = <<"below", 10>>
      BY <1>3, <2>3 DEF QuotaFigure
    <3> QED
      BY <1>3, <2>1, <2>3, <3>1 DEF Tells
  <2>4. CASE v \in -9 .. -1
    <3>1. QuotaFigure(v) = <<"above", -10>>
      BY <1>3, <2>4 DEF QuotaFigure
    <3> QED
      BY <1>3, <2>1, <2>4, <3>1 DEF Tells
  <2>5. CASE v \notin -9 .. -1 /\ v \notin 1 .. 9 /\ v # Whole /\ r = Whole
    <3>1. QuotaFigure(v) = <<IF v > Whole THEN "above" ELSE "below", Whole>>
      BY <1>3, <2>2, <2>5 DEF QuotaFigure
    <3>2. CASE v > Whole
      BY <1>1, <1>3, <2>1, <2>2, <2>5, <3>1, <3>2 DEF Tells
    <3>3. CASE ~(v > Whole)
      BY <1>1, <1>3, <2>1, <2>2, <2>5, <3>1, <3>3 DEF Tells
    <3> QED
      BY <3>2, <3>3
  <2>6. CASE v \notin -9 .. -1 /\ v \notin 1 .. 9 /\ ~(v # Whole /\ r = Whole)
    <3>1. QuotaFigure(v) = <<"is", r>>
      BY <1>3, <2>2, <2>6 DEF QuotaFigure
    <3>2. /\ v - r \in -5 .. 5
          /\ r = 0 <=> v = 0
          /\ r = Whole <=> v = Whole
      BY <2>1, <2>2, <2>6, SMT
    <3> QED
      BY <1>3, <3>1, <3>2 DEF Tells
  <2> QED
    BY <2>3, <2>4, <2>5, <2>6
<1> QED
  BY <1>2, <1>3

(***************************************************************************)
(* The types that last while time passes.                                  *)
(***************************************************************************)
WindowTyped(w) ==
  {"reset", "analytics"} \subseteq DOMAIN w /\ (Known(w.reset) \/ w.reset \in {Null, Junk})
AccountTyped(a) ==
  /\ {"status", "seen", "windows"} \subseteq DOMAIN a
  /\ DOMAIN a.windows \subseteq Nat /\ IsFiniteSet(DOMAIN a.windows)
  /\ \A k \in DOMAIN a.windows : WindowTyped(a.windows[k])
ReadingsTyped == DOMAIN accounts = Account /\ \A id \in Account : AccountTyped(accounts[id])

LEMMA PublishedTyped ==
  ASSUME NEW id \in Account, NEW a \in Published[id], IsRecord(a.windows)
  PROVE  AccountTyped(a)
<1>1. /\ {"status", "seen", "windows"} \subseteq DOMAIN a
      /\ DOMAIN a.windows = 1 .. Len(a.windows)
      /\ \A k \in DOMAIN a.windows :
           /\ {"reset", "analytics"} \subseteq DOMAIN a.windows[k]
           /\ Known(a.windows[k].reset) \/ a.windows[k].reset \in {Null, Junk}
  BY PublishedAssumption
<1>2. DOMAIN a.windows \subseteq Nat /\ IsFiniteSet(DOMAIN a.windows)
  <2>1. PICK n \in Nat : DOMAIN a.windows = 1 .. n
    BY <1>1
  <2>2. IsFiniteSet(1 .. n)
    BY FS_Interval
  <2> QED
    BY <2>1, <2>2
<1> QED
  BY <1>1, <1>2 DEF AccountTyped, WindowTyped

Waited(a) == [a EXCEPT !.seen = Older(@), !.windows = [k \in DOMAIN @ |-> WaitedWindow(@[k])]]

LEMMA WaitTyped ==
  ASSUME NEW a, AccountTyped(a)
  PROVE  AccountTyped(Waited(a))
<1> DEFINE b == Waited(a)
<1>1. /\ {"status", "seen", "windows"} \subseteq DOMAIN a
      /\ DOMAIN a.windows \subseteq Nat /\ IsFiniteSet(DOMAIN a.windows)
      /\ \A k \in DOMAIN a.windows : WindowTyped(a.windows[k])
  BY DEF AccountTyped
<1>2. DOMAIN b = DOMAIN a /\ b.windows = [k \in DOMAIN a.windows |-> WaitedWindow(a.windows[k])]
  BY <1>1 DEF Waited
<1> HIDE DEF b
<1>3. ASSUME NEW w, WindowTyped(w) PROVE WindowTyped(WaitedWindow(w))
  <2>1. DOMAIN WaitedWindow(w) = DOMAIN w /\ WaitedWindow(w).reset = Nearer(w.reset)
    BY <1>3 DEF WaitedWindow, WindowTyped
  <2>2. Known(Nearer(w.reset)) \/ Nearer(w.reset) \in {Null, Junk}
    BY <1>3 DEF Nearer, WindowTyped, Known
  <2> QED
    BY <1>3, <2>1, <2>2 DEF WindowTyped
<1>4. \A k \in DOMAIN b.windows : WindowTyped(b.windows[k])
  BY <1>1, <1>2, <1>3
<1>5. DOMAIN b.windows = DOMAIN a.windows
  BY <1>2
<1>6. AccountTyped(b)
  BY <1>1, <1>2, <1>4, <1>5 DEF AccountTyped
<1> QED
  BY <1>6 DEF b

LEMMA ReadingsTypedAlways == ReadingsSpec => []ReadingsTyped
<1>1. ASSUME ReadingsInit PROVE ReadingsTyped
  <2>1. DOMAIN accounts = Account
    BY <1>1 DEF ReadingsInit
  <2>2. ASSUME NEW id \in Account PROVE AccountTyped(accounts[id])
    <3>1. accounts[id] \in Published[id] /\ IsRecord(accounts[id].windows)
      BY <1>1 DEF ReadingsInit, ValidateSnapshot
    <3> QED
      BY <3>1, PublishedTyped
  <2> QED
    BY <2>1, <2>2 DEF ReadingsTyped
<1>2. ASSUME ReadingsTyped, [ReadingsNext]_readingsVars PROVE ReadingsTyped'
  <2>1. ASSUME NEW id \in Account, NEW a \in Published[id], Publish(id, a)
        PROVE  ReadingsTyped'
    <3>1. PICK snapshot : snapshot = [accounts EXCEPT ![id] = a]
      OBVIOUS
    <3>2. accounts' = IF ValidateSnapshot(snapshot) THEN snapshot ELSE accounts
      BY <2>1, <3>1, Zenon DEF Publish
    <3>3. CASE ValidateSnapshot(snapshot)
      <4>1. DOMAIN snapshot = Account /\ snapshot[id] = a
        BY <1>2, <3>1 DEF ReadingsTyped
      <4>2. IsRecord(a.windows)
        BY <3>3, <4>1 DEF ValidateSnapshot
      <4>3. AccountTyped(a)
        BY <4>2, PublishedTyped
      <4>4. \A k \in Account : AccountTyped(snapshot[k])
        BY <1>2, <3>1, <4>1, <4>3 DEF ReadingsTyped
      <4> QED
        BY <3>2, <3>3, <4>1, <4>4 DEF ReadingsTyped
    <3>4. CASE ~ValidateSnapshot(snapshot)
      BY <1>2, <3>2, <3>4 DEF ReadingsTyped
    <3> QED
      BY <3>3, <3>4
  <2>2. ASSUME NEW r \in Rosters, PublishRoster(r)
        PROVE  ReadingsTyped'
    BY <1>2, <2>2 DEF PublishRoster, ReadingsTyped
  <2>3. ASSUME Wait PROVE ReadingsTyped'
    <3>1. DOMAIN accounts' = Account
      BY <2>3 DEF Wait
    <3>2. ASSUME NEW id \in Account PROVE AccountTyped(accounts'[id])
      <4>1. accounts'[id] = Waited(accounts[id])
        BY <2>3, Zenon DEF Wait, Waited
      <4>2. AccountTyped(accounts[id])
        BY <1>2 DEF ReadingsTyped
      <4> QED
        BY <4>1, <4>2, WaitTyped, Zenon
    <3> QED
      BY <3>1, <3>2 DEF ReadingsTyped
  <2>4. CASE UNCHANGED readingsVars
    BY <1>2, <2>4 DEF readingsVars, ReadingsTyped
  <2> QED
    BY <1>2, <2>1, <2>2, <2>3, <2>4 DEF ReadingsNext
<1>3. ReadingsInit => ReadingsTyped
  BY <1>1
<1>4. ReadingsTyped /\ [ReadingsNext]_readingsVars => ReadingsTyped'
  BY <1>2
<1> QED
  BY <1>3, <1>4, PTL DEF ReadingsSpec

(***************************************************************************)
(* One window: what it says when it does not count, and what it counts as  *)
(* once the windows of a model are dropped.                                *)
(***************************************************************************)
Reason(a, w) == <<MeasurementReason(a, w), 0>>

LEMMA ReasonTold ==
  ASSUME NEW a, NEW w, WindowTyped(w), ~Fresh(a, w)
  PROVE  /\ WindowView(a, w).badge = Reason(a, w) \/ WindowView(a, w).meta = Reason(a, w)
         /\ MeasurementReason(a, w) = "check value" =>
              a.status = "unavailable" \/ w.stale \/ ~Valid(w) \/ w.reset = Junk
         /\ MeasurementReason(a, w) = "old" =>
              a.seen > FreshFor /\ Reset(w.reset)[1] # "awaits a reading"
<1>1. WindowView(a, w).badge = Reason(a, w) \/ WindowView(a, w).meta = Reason(a, w)
  <2>1. CASE OwnReason(a, w)
    BY <2>1 DEF WindowView, Reason
  <2>2. CASE ~OwnReason(a, w)
    BY <2>2 DEF WindowView, Meta, Reason
  <2> QED
    BY <2>1, <2>2
<1>2. ASSUME MeasurementReason(a, w) = "check value"
      PROVE  a.status = "unavailable" \/ w.stale \/ ~Valid(w) \/ w.reset = Junk
  <2>1. /\ a.status \notin {"reauth", "paused"} /\ Known(a.seen) /\ -a.seen <= Skew
        /\ ~(Known(w.reset) /\ w.reset <= 0) /\ ~(a.seen > FreshFor)
    BY <1>2 DEF MeasurementReason
  <2>2. Recent(a)
    BY <2>1, ReadingsAssumption DEF Recent, Known
  <2>3. CASE w.reset # Null /\ ~(Known(w.reset) /\ w.reset > 0)
    BY <2>1, <2>3 DEF WindowTyped, Known
  <2> QED
    BY <2>1, <2>2, <2>3 DEF Fresh, Withdrawn
<1>3. ASSUME MeasurementReason(a, w) = "old"
      PROVE  a.seen > FreshFor /\ Reset(w.reset)[1] # "awaits a reading"
  <2>1. a.status \notin {"reauth", "paused"}
    BY <1>3 DEF MeasurementReason
  <2>2. ~(Known(w.reset) /\ w.reset <= 0) /\ a.seen > FreshFor
    BY <1>3, <2>1 DEF MeasurementReason
  <2> QED
    BY <2>2 DEF Reset
<1> QED
  BY <1>1, <1>2, <1>3

LEMMA NothingProjected ==
  ASSUME NEW a, NEW w, ~Fresh(a, w), NEW p \in WindowView(a, w).projection
  PROVE  p.eta[1] = "none" /\ (~p.earlier => ~Known(p.capacity) /\ ~Known(p.remaining))
<1>1. p = Projection(Stale(w), w)
  BY DEF WindowView
<1>2. /\ Stale(w).status = "stale" /\ Stale(w).capacity = Null /\ Stale(w).remaining = Null
  BY DEF Stale, WindowAnalytics
<1>3. ~Known(Null)
  BY ValuesAssumption DEF Known
<1>4. p.eta = <<"none", 0>>
  BY <1>1, <1>2 DEF Projection, Eta
<1>5. ASSUME ~p.earlier PROVE ~Known(p.capacity) /\ ~Known(p.remaining)
  BY <1>1, <1>2, <1>3, <1>5 DEF Projection
<1> QED
  BY <1>4, <1>5

LEMMA RestatedCounts ==
  ASSUME NEW a, AccountTyped(a), NEW k \in DOMAIN a.windows, ~a.windows[k].spark
  PROVE  Fresh(Restated(a), a.windows[k]) <=> Fresh(a, a.windows[k])
<1>1. Kept(a) # {}
  BY DEF Kept, OfAccount
<1>2. Restated(a).seen = a.seen
  BY DEF AccountTyped, Restated
<1>3. Recent(Restated(a)) <=> Recent(a)
  BY <1>2 DEF Recent
<1>4. Restated(a).status = IF a.status \notin {"ok", "stale"} THEN a.status
                           ELSE IF Kept(a) = {} THEN "unavailable"
                           ELSE IF \E j \in Kept(a) : ~Fresh(a, a.windows[j]) THEN "stale" ELSE "ok"
  BY DEF AccountTyped, Restated
<1>5. Restated(a).status \notin Withdrawn <=> a.status \notin Withdrawn
  BY <1>1, <1>4 DEF Withdrawn
<1> QED
  BY <1>3, <1>5 DEF Fresh

\* What the invariant says of one window.
WindowExplained(a, w) ==
  LET v == WindowView(a, w)
      reason == <<MeasurementReason(a, w), 0>>
  IN  /\ Tells(v.figure, w.left)
      /\ ~Fresh(a, w) =>
           /\ v.badge = reason \/ v.meta = reason
           /\ reason[1] = "check value" =>
                a.status = "unavailable" \/ w.stale \/ ~Valid(w) \/ w.reset = Junk
           /\ reason[1] = "old" => a.seen > FreshFor /\ Reset(w.reset)[1] # "awaits a reading"
           /\ \A p \in v.projection :
                /\ p.eta[1] = "none"
                /\ ~p.earlier => ~Known(p.capacity) /\ ~Known(p.remaining)
      /\ Fresh(a, w) => v.badge[1] = "none"
      /\ v.meta[1] # "awaits a reading"
      /\ ~w.spark => (Fresh(Restated(a), w) <=> Fresh(a, w))

LEMMA WindowsExplained ==
  ASSUME NEW a, AccountTyped(a), NEW k \in DOMAIN a.windows
  PROVE  WindowExplained(a, a.windows[k])
<1> DEFINE w == a.windows[k]
<1>0. WindowTyped(w)
  BY DEF AccountTyped
<1>1. Tells(WindowView(a, w).figure, w.left)
  <2>1. CASE Valid(w)
    <3>1. WindowView(a, w).figure = QuotaFigure(w.left)
      BY <2>1 DEF WindowView
    <3> QED
      BY <3>1, FigureTells
  <2>2. CASE ~Valid(w)
    <3>1. WindowView(a, w).figure = <<"none", 0>>
      BY <2>2 DEF WindowView
    <3> QED
      BY <2>2, <3>1 DEF Tells, Valid
  <2> QED
    BY <2>1, <2>2
<1>2. ~w.spark => (Fresh(Restated(a), w) <=> Fresh(a, w))
  BY RestatedCounts
<1> HIDE DEF w
<1>3. ASSUME ~Fresh(a, w)
      PROVE  /\ WindowView(a, w).badge = Reason(a, w) \/ WindowView(a, w).meta = Reason(a, w)
             /\ Reason(a, w)[1] = "check value" =>
                  a.status = "unavailable" \/ w.stale \/ ~Valid(w) \/ w.reset = Junk
             /\ Reason(a, w)[1] = "old" =>
                  a.seen > FreshFor /\ Reset(w.reset)[1] # "awaits a reading"
             /\ \A p \in WindowView(a, w).projection :
                  p.eta[1] = "none" /\ (~p.earlier => ~Known(p.capacity) /\ ~Known(p.remaining))
  <2>1. Reason(a, w)[1] = MeasurementReason(a, w)
    BY DEF Reason
  <2> QED
    BY <1>0, <1>3, <2>1, ReasonTold, NothingProjected
<1>4. ASSUME Fresh(a, w) PROVE WindowView(a, w).badge[1] = "none"
  BY <1>4 DEF WindowView, OwnReason
<1>5. WindowView(a, w).meta[1] # "awaits a reading"
  <2>1. WindowView(a, w).meta = Meta(a, w)
    BY DEF WindowView
  <2>2. CASE Fresh(a, w)
    <3>1. w.reset # Null => Known(w.reset) /\ w.reset > 0
      BY <2>2 DEF Fresh
    <3>2. Reset(w.reset)[1] # "awaits a reading"
      <4>1. CASE Known(w.reset)
        <5>1. w.reset \in Int /\ w.reset > 0
          BY <3>1, <4>1, ValuesAssumption DEF Known
        <5>2. Reset(w.reset) = <<"in", w.reset>>
          <6>1. ~(w.reset <= 0)
            BY <5>1, SMT
          <6> QED
            BY <4>1, <6>1, Zenon DEF Reset
        <5> QED
          BY <5>2
      <4>2. CASE ~Known(w.reset)
        BY <4>2 DEF Reset
      <4> QED
        BY <4>1, <4>2
    <3>3. WindowView(a, w).meta = Reset(w.reset)
      BY <2>1, <2>2, Zenon DEF Meta
    <3> QED
      BY <3>2, <3>3
  <2>3. CASE ~Fresh(a, w) /\ ~OwnReason(a, w)
    <3>1. WindowView(a, w).meta[1] = MeasurementReason(a, w)
      BY <2>1, <2>3 DEF Meta
    <3>2. MeasurementReason(a, w) # "awaits a reading"
      <4>1. CASE a.status \in {"reauth", "paused"}
        BY <4>1 DEF MeasurementReason
      <4>2. CASE a.status \notin {"reauth", "paused"}
        BY <4>2 DEF MeasurementReason
      <4> QED
        BY <4>1, <4>2
    <3> QED
      BY <3>1, <3>2
  <2>4. CASE ~Fresh(a, w) /\ OwnReason(a, w)
    <3>1. CASE Reset(w.reset)[1] = "awaits a reading"
      <4>1. WindowView(a, w).meta = <<"was", w.reset>>
        BY <2>1, <2>4, <3>1, Zenon DEF Meta
      <4> QED
        BY <4>1
    <3>2. CASE Reset(w.reset)[1] # "awaits a reading"
      <4>1. WindowView(a, w).meta = Reset(w.reset)
        BY <2>1, <2>4, <3>2, Zenon DEF Meta
      <4> QED
        BY <3>2, <4>1
    <3> QED
      BY <3>1, <3>2
  <2> QED
    BY <2>2, <2>3, <2>4
<1>6. WindowExplained(a, w)
  BY <1>1, <1>2, <1>3, <1>4, <1>5 DEF WindowExplained, Reason
<1> QED
  BY <1>6 DEF w

(***************************************************************************)
(* One limit: the mean and the lowest of what is current.                  *)
(***************************************************************************)
LEMMA QuotientBetween ==
  ASSUME NEW s \in Int, NEW c \in Nat \ {0}, NEW low \in Int, NEW high \in Int,
         s >= c * low, s <= c * high
  PROVE  s \div c \in low .. high
<1>1. PICK q \in Int, r \in Int : q = s \div c /\ s = c * q + r /\ r >= 0 /\ r < c
  <2>1. s \div c \in Int /\ s % c \in 0 .. (c - 1) /\ s = c * (s \div c) + (s % c)
    BY SMT
  <2> QED
    BY <2>1
<1>2. q >= low
  <2>1. SUFFICES ASSUME q <= low - 1 PROVE FALSE
    BY <1>1
  <2>2. PICK d \in Nat : low = q + 1 + d
    <3>1. low - q - 1 \in Nat /\ low = q + 1 + (low - q - 1)
      BY <2>1, SMT
    <3> QED
      BY <3>1
  <2>3. c * low = c * q + c + c * d /\ c * d >= 0
    BY <2>2, SMT
  <2> QED
    BY <1>1, <2>3, SMT
<1>3. q <= high
  <2>1. SUFFICES ASSUME q >= high + 1 PROVE FALSE
    BY <1>1
  <2>2. PICK d \in Nat : q = high + 1 + d
    <3>1. q - high - 1 \in Nat /\ q = high + 1 + (q - high - 1)
      BY <2>1, SMT
    <3> QED
      BY <3>1
  <2>3. c * q = c * high + c + c * d /\ c * d >= 0
    BY <2>2, SMT
  <2> QED
    BY <1>1, <2>3, SMT
<1> QED
  BY <1>1, <1>2, <1>3, SMT

LEMMA MeanBetween ==
  ASSUME NEW h, IsFiniteSet(DOMAIN h), DOMAIN h # {}, NEW low \in Int, NEW high \in Int,
         \A x \in DOMAIN h : h[x] \in low .. high
  PROVE  SumFunction(h) \div Cardinality(DOMAIN h) \in low .. high
<1>1. \A x \in DOMAIN h : h[x] \in Int /\ h[x] >= low /\ h[x] <= high
  OBVIOUS
<1>2. /\ SumFunction(h) \in Int /\ Cardinality(DOMAIN h) \in Nat
      /\ SumFunction(h) >= Cardinality(DOMAIN h) * low
      /\ SumFunction(h) <= Cardinality(DOMAIN h) * high
  BY <1>1, SumBounds
<1>3. Cardinality(DOMAIN h) # 0
  BY FS_EmptySet
<1>4. Cardinality(DOMAIN h) \in Nat \ {0}
  BY <1>2, <1>3
<1> QED
  BY <1>2, <1>4, QuotientBetween

LEMMA HeldFinite ==
  ASSUME IsFiniteSet(Account), ReadingsTyped
  PROVE  IsFiniteSet(HeldWindows)
<1> DEFINE f == [id \in Account |-> {id} \X DOMAIN accounts[id].windows]
           R == {{id} \X DOMAIN accounts[id].windows : id \in Account}
<1>1. f \in Surjection(Account, R)
  BY DEF Surjection
<1>2. \A T \in R : IsFiniteSet(T)
  <2>1. ASSUME NEW id \in Account PROVE IsFiniteSet({id} \X DOMAIN accounts[id].windows)
    <3>1. IsFiniteSet(DOMAIN accounts[id].windows)
      BY DEF ReadingsTyped, AccountTyped
    <3>2. IsFiniteSet({id})
      BY FS_Singleton
    <3> QED
      BY <3>1, <3>2, FS_Product
  <2> QED
    BY <2>1
<1>3. HeldWindows = UNION R
  BY DEF HeldWindows
<1> HIDE DEF f, R
<1>4. IsFiniteSet(R)
  BY <1>1, FS_Surjection
<1> QED
  BY <1>2, <1>3, <1>4, FS_UNION

LEMMA HeldTyped ==
  ASSUME ReadingsTyped, NEW h \in HeldWindows
  PROVE  /\ h[1] \in Account /\ h[2] \in DOMAIN accounts[h[1]].windows
         /\ AccountTyped(accounts[h[1]])
BY DEF HeldWindows, ReadingsTyped

\* What the invariant says of one limit.
LimitExplained(key) ==
  /\ Overview(key) = {} <=> \A h \in HeldWindows : Window(h).key = key => ~Fresh(accounts[h[1]], Window(h))
  /\ \A o \in Overview(key) :
       /\ o.lowest <= o.mean /\ o.mean \in 0 .. Whole
       /\ \A k \in DOMAIN o.reset : o.reset[k] > 0
  /\ \A id \in Averaged(key) :
       \A p \in WindowView(accounts[id], accounts[id].windows[Min(Holds(key, id))]).projection :
         p.capacity = Capacity(key, id).value /\ p.earlier = Capacity(key, id).earlier

\* The windows a limit counts are current: their remainders lie in 0 .. Whole and
\* their resets, where given, ahead.
LEMMA CountedTold ==
  ASSUME IsFiniteSet(Account), ReadingsTyped, NEW key
  PROVE  /\ IsFiniteSet(Counted(key))
         /\ \A h \in Counted(key) :
              /\ Window(h).left \in 0 .. Whole
              /\ Window(h).reset # Null => Window(h).reset \in Int /\ Window(h).reset > 0
<1>1. IsFiniteSet(Counted(key))
  <2>1. Counted(key) \in SUBSET HeldWindows
    BY DEF Counted
  <2> QED
    BY <2>1, HeldFinite, FS_Subset
<1>2. ASSUME NEW h \in Counted(key)
      PROVE  /\ Window(h).left \in 0 .. Whole
             /\ Window(h).reset # Null => Window(h).reset \in Int /\ Window(h).reset > 0
  <2>1. Fresh(accounts[h[1]], Window(h))
    BY DEF Counted
  <2> QED
    BY <2>1 DEF Fresh, Valid, Known
<1> QED
  BY <1>1, <1>2

\* The mean of shares of a whole lies between the lowest and the whole.
LEMMA MeanOfShares ==
  ASSUME NEW share, IsFiniteSet(DOMAIN share), DOMAIN share # {},
         NEW most \in Nat, \A h \in DOMAIN share : share[h] \in 0 .. most
  PROVE  /\ Min({share[h] : h \in DOMAIN share})
              <= SumFunction(share) \div Cardinality(DOMAIN share)
         /\ SumFunction(share) \div Cardinality(DOMAIN share) \in 0 .. most
<1>1. PICK lefts : lefts = {share[h] : h \in DOMAIN share}
  OBVIOUS
<1>2. IsFiniteSet(lefts)
  <2>1. [h \in DOMAIN share |-> share[h]] \in Surjection(DOMAIN share, lefts)
    BY <1>1 DEF Surjection
  <2> QED
    BY <2>1, FS_Surjection
<1>3. lefts # {} /\ lefts \subseteq Int /\ \A h \in DOMAIN share : share[h] \in lefts
  BY <1>1
<1>4. PICK low : low = Min(lefts) /\ low \in lefts /\ \A n \in lefts : low <= n
  BY <1>2, <1>3, LeastOfFinite
<1>5. low \in 0 .. most /\ low \in Int /\ most \in Int
  BY <1>1, <1>4
<1>6. \A h \in DOMAIN share : share[h] \in low .. most
  <2>1. ASSUME NEW h \in DOMAIN share PROVE share[h] \in low .. most
    <3>1. share[h] \in 0 .. most /\ low <= share[h]
      BY <1>3, <1>4
    <3> QED
      BY <1>5, <3>1, SMT
  <2> QED
    BY <2>1
<1>7. PICK mean : mean = SumFunction(share) \div Cardinality(DOMAIN share) /\ mean \in low .. most
  BY <1>5, <1>6, MeanBetween, SMT
<1>8. low <= mean /\ mean \in 0 .. most
  BY <1>5, <1>7, SMT
<1> QED
  BY <1>1, <1>4, <1>7, <1>8, Zenon

LEMMA LeastAhead ==
  ASSUME NEW S, IsFiniteSet(S), S # {}, \A n \in S : n \in Int /\ n > 0
  PROVE  Min(S) > 0
<1>1. S \subseteq Int
  OBVIOUS
<1>2. Min(S) \in S
  BY <1>1, LeastOfFinite
<1> QED
  BY <1>2

LEMMA OverviewTold ==
  ASSUME IsFiniteSet(Account), ReadingsTyped, NEW key, NEW o \in Overview(key)
  PROVE  /\ o.lowest <= o.mean /\ o.mean \in 0 .. Whole
         /\ \A k \in DOMAIN o.reset : o.reset[k] > 0
<1> DEFINE C == Counted(key)
           known == {Window(h).reset : h \in C}
           share == [h \in C |-> Window(h).left]
<1>0. Whole \in Nat
  BY DEF Whole, Point
<1>1. C # {}
  BY DEF Overview
<1>2. o = [mean |-> SumFunction(share) \div Cardinality(C),
           lowest |-> Min({Window(h).left : h \in C}),
           severity |-> SeverityOf(Min({Window(h).left : h \in C})),
           reset |-> IF known \ {Null} = {} THEN << >> ELSE <<Min(known \ {Null})>>]
  <2>1. Overview(key) = {[mean |-> SumFunction(share) \div Cardinality(C),
           lowest |-> Min({Window(h).left : h \in C}),
           severity |-> SeverityOf(Min({Window(h).left : h \in C})),
           reset |-> IF known \ {Null} = {} THEN << >> ELSE <<Min(known \ {Null})>>]}
    BY <1>1, Zenon DEF Overview
  <2> HIDE DEF C, known, share
  <2> QED
    BY <2>1, Zenon
<1>3. IsFiniteSet(C)
  BY CountedTold
<1>4. /\ DOMAIN share = C /\ {share[h] : h \in DOMAIN share} = {Window(h).left : h \in C}
      /\ \A h \in DOMAIN share : share[h] \in 0 .. Whole
  BY CountedTold
<1>5. IsFiniteSet(known)
  <2> DEFINE at == [h \in C |-> Window(h).reset]
  <2>1. at \in Surjection(C, known)
    BY DEF Surjection
  <2> HIDE DEF at, known, C
  <2> QED
    BY <1>3, <2>1, FS_Surjection
<1>6. \A n \in known \ {Null} : n \in Int /\ n > 0
  BY CountedTold
<1> HIDE DEF known, share, C
<1>7. o.lowest <= o.mean /\ o.mean \in 0 .. Whole
  <2>1. /\ o.mean = SumFunction(share) \div Cardinality(DOMAIN share)
        /\ o.lowest = Min({share[h] : h \in DOMAIN share})
    BY <1>2, <1>4
  <2>2. /\ Min({share[h] : h \in DOMAIN share}) <= SumFunction(share) \div Cardinality(DOMAIN share)
        /\ SumFunction(share) \div Cardinality(DOMAIN share) \in 0 .. Whole
    BY <1>0, <1>1, <1>3, <1>4, MeanOfShares
  <2> QED
    BY <2>1, <2>2, Zenon
<1>8. \A k \in DOMAIN o.reset : o.reset[k] > 0
  <2>1. o.reset = IF known \ {Null} = {} THEN << >> ELSE <<Min(known \ {Null})>>
    BY <1>2
  <2>2. CASE known \ {Null} = {}
    BY <2>1, <2>2
  <2>3. CASE known \ {Null} # {}
    <3>1. IsFiniteSet(known \ {Null})
      BY <1>5, FS_Difference
    <3>2. Min(known \ {Null}) > 0
      BY <1>6, <2>3, <3>1, LeastAhead
    <3>3. o.reset = <<Min(known \ {Null})>>
      BY <2>1, <2>3
    <3>4. PICK n : n = Min(known \ {Null})
      OBVIOUS
    <3> QED
      BY <3>2, <3>3, <3>4
  <2> QED
    BY <2>2, <2>3
<1> QED
  BY <1>7, <1>8

\* The capacity a provider averages is the one its window shows.
LEMMA CapacityShown ==
  ASSUME NEW key, NEW id \in Averaged(key),
         NEW p \in WindowView(accounts[id], accounts[id].windows[Min(Holds(key, id))]).projection
  PROVE  p.capacity = Capacity(key, id).value /\ p.earlier = Capacity(key, id).earlier
<1> DEFINE a == accounts[id]
           w == a.windows[Min(Holds(key, id))]
           n == WindowAnalytics(w.analytics)
           current == Fresh(a, w) /\ Known(n.capacity)
<1>1. /\ Capacity(key, id).value = IF current THEN n.capacity
                                   ELSE IF IsRecord(n.prior) THEN n.prior.usd ELSE Null
      /\ Capacity(key, id).earlier = ~current
  BY DEF Capacity
<1>2. Known(Capacity(key, id).value)
  BY DEF Averaged
<1>3. p = Projection(IF Fresh(a, w) THEN n ELSE Stale(w), w)
  BY DEF WindowView
<1>4. Stale(w).capacity = Null /\ Stale(w).prior = n.prior
  BY DEF Stale, WindowAnalytics
<1>5. ~Known(Null) /\ ~IsRecord(Null)
  BY ValuesAssumption DEF Known, IsRecord
<1> HIDE DEF a, w, n
<1>6. CASE current
  <2>1. p = Projection(n, w)
    BY <1>3, <1>6
  <2>2. p.capacity = n.capacity /\ p.earlier = FALSE
    BY <1>5, <1>6, <2>1 DEF Projection
  <2>3. Capacity(key, id).earlier = FALSE
    BY <1>1, <1>6
  <2> QED
    BY <1>1, <1>6, <2>2, <2>3
<1>7. CASE ~current
  <2>1. PICK m : /\ p = Projection(m, w) /\ ~Known(m.capacity) /\ m.prior = n.prior
    <3>1. CASE Fresh(a, w)
      BY <1>3, <1>7, <3>1
    <3>2. CASE ~Fresh(a, w)
      BY <1>3, <1>4, <1>5, <3>2
    <3> QED
      BY <3>1, <3>2
  <2>2. IsRecord(n.prior) /\ Known(n.prior.usd) /\ Capacity(key, id).value = n.prior.usd
    BY <1>1, <1>2, <1>5, <1>7
  <2>3. p.capacity = n.prior.usd /\ p.earlier = TRUE
    BY <2>1, <2>2 DEF Projection
  <2>4. Capacity(key, id).earlier = TRUE
    BY <1>1, <1>7
  <2> QED
    BY <2>2, <2>3, <2>4
<1> QED
  BY <1>6, <1>7

LEMMA LimitsExplained ==
  ASSUME IsFiniteSet(Account), ReadingsTyped, NEW key
  PROVE  LimitExplained(key)
<1>1. Overview(key) = {} <=> Counted(key) = {}
  BY DEF Overview
<1>2. Counted(key) = {} <=>
        \A h \in HeldWindows : Window(h).key = key => ~Fresh(accounts[h[1]], Window(h))
  BY DEF Counted
<1>3. \A o \in Overview(key) :
        /\ o.lowest <= o.mean /\ o.mean \in 0 .. Whole
        /\ \A k \in DOMAIN o.reset : o.reset[k] > 0
  BY OverviewTold
<1>4. \A id \in Averaged(key) :
        \A p \in WindowView(accounts[id], accounts[id].windows[Min(Holds(key, id))]).projection :
          p.capacity = Capacity(key, id).value /\ p.earlier = Capacity(key, id).earlier
  BY CapacityShown
<1> QED
  BY <1>1, <1>2, <1>3, <1>4 DEF LimitExplained

(***************************************************************************)
(* The readings that never became a window, and the accounts.              *)
(***************************************************************************)
DirectTold(a, k, f) ==
  LET v == DirectQuota(a.direct).evidence[k].measurement[f]
      row == Direct(a).blocks.evidence[k].rows[f]
  IN  Tells(row, v) /\ (row[1] = "not given" <=> v = Null)

LEMMA DirectRows ==
  ASSUME NEW a, NEW k \in DOMAIN DirectQuota(a.direct).evidence,
         NEW f \in {"reported", "calculated", "used"}
  PROVE  DirectTold(a, k, f)
<1> DEFINE d == DirectQuota(a.direct)
           v == d.evidence[k].measurement[f]
           row == Direct(a).blocks.evidence[k].rows[f]
<1>1. row = Given(v)
  <2>1. Direct(a).blocks = DirectQuotaBlocks(d)
    BY DEF Direct
  <2>2. DirectQuotaBlocks(d).evidence[k].rows = BasisRows(d.evidence[k].measurement)
    BY DEF DirectQuotaBlocks
  <2>3. \A m : BasisRows(m)[f] = Given(m[f])
    BY DEF BasisRows
  <2> QED
    BY <2>1, <2>2, <2>3
<1>2. Tells(Given(v), v) /\ (Given(v)[1] = "not given" <=> v = Null)
  <2> HIDE DEF v
  <2>1. CASE v = Null
    BY <2>1, ValuesAssumption DEF Given, Tells, Known
  <2>2. CASE v # Null
    <3>1. Given(v) = QuotaFigure(v)
      BY <2>2 DEF Given
    <3> QED
      BY <2>2, <3>1, FigureTells
  <2> QED
    BY <2>1, <2>2
<1>3. Tells(row, v) /\ (row[1] = "not given" <=> v = Null)
  <2> HIDE DEF row, v
  <2> QED
    BY <1>1, <1>2
<1> QED
  BY <1>3, Zenon DEF DirectTold

LEMMA CalmStrip == Strip[1] = "calm" => Chips["critical"] + Chips["warning"] = 0
<1>1. SUFFICES ASSUME Strip[1] = "calm" PROVE Chips["critical"] + Chips["warning"] = 0
  OBVIOUS
<1>2. Urgent = {}
  BY <1>1 DEF Strip
<1>3. OfHealth({"critical"}) = {} /\ OfHealth({"warning"}) = {}
  BY <1>2 DEF Urgent, OfHealth
<1>4. Chips["critical"] = 0 /\ Chips["warning"] = 0
  BY <1>3, FS_EmptySet DEF Chips
<1> QED
  BY <1>4

\* However long the reader waits and whatever the server publishes meanwhile, a window
\* that no longer counts says why, only current windows are averaged, and no figure
\* stands for a value that was not given (web/src/ui/quota.ts, web/src/ui/views.ts).
THEOREM ReasonExplainsAlways == ASSUME IsFiniteSet(Account) PROVE ReadingsSpec => []ReasonExplains
<1>1. ASSUME ReadingsTyped PROVE ReasonExplains
  <2>1. \A h \in HeldWindows : WindowExplained(accounts[h[1]], Window(h))
    <3>1. ASSUME NEW h \in HeldWindows PROVE WindowExplained(accounts[h[1]], Window(h))
      <4>1. /\ AccountTyped(accounts[h[1]]) /\ h[2] \in DOMAIN accounts[h[1]].windows
            /\ Window(h) = accounts[h[1]].windows[h[2]]
        BY <1>1, HeldTyped DEF Window
      <4> QED
        BY <4>1, WindowsExplained
    <3> QED
      BY <3>1
  <2>2. \A key \in Limits : LimitExplained(key)
    BY <1>1, LimitsExplained
  <2>3. \A id \in Account : \A k \in DOMAIN DirectQuota(accounts[id].direct).evidence :
          \A f \in {"reported", "calculated", "used"} : DirectTold(accounts[id], k, f)
    BY DirectRows
  <2>4. Strip[1] = "calm" => Chips["critical"] + Chips["warning"] = 0
    BY CalmStrip
  <2> QED
    BY <2>1, <2>2, <2>3, <2>4, Zenon DEF ReasonExplains, WindowExplained, LimitExplained, DirectTold
<1>2. ReadingsTyped => ReasonExplains
  BY <1>1
<1> QED
  BY <1>2, ReadingsTypedAlways, PTL

(***************************************************************************)
(* The loop of Scheduler.backoff computes the table that the scheduler's   *)
(* model uses, for every poll, cap, failure count and floor.               *)
(***************************************************************************)
\* The wait doubled so far, by the loop's counter: sixteen polls reach the cap, so the
\* fifth value is the last.
Doubled(n) == Poll * <<1, 2, 4, 8, 16>>[n]

\* Doubled past the first, the wait has room left: what it was before was below the cap.
LoopInv ==
  /\ failures \in Nat /\ floor \in Nat /\ pc \in {"double", "done"}
  /\ pc = "double" =>
       /\ i \in 1 .. 5 /\ wait = Doubled(i)
       /\ i = 1 \/ i <= failures
       /\ wait < 2 * MaxBackoff
  /\ pc = "done" => wait = BackoffWait(failures, floor)

LEMMA DoubledValues ==
  /\ Doubled(1) = Poll /\ Doubled(2) = 2 * Poll /\ Doubled(3) = 4 * Poll
  /\ Doubled(4) = 8 * Poll /\ Doubled(5) = 16 * Poll
<1>1. Poll \in Nat
  BY PollAssumption
<1> QED
  BY <1>1, SMT DEF Doubled

LEMMA GrowthValues ==
  /\ Growth(0) = Poll
  /\ Growth(1) = Smaller(Poll, MaxBackoff) /\ Growth(2) = Smaller(2 * Poll, MaxBackoff)
  /\ Growth(3) = Smaller(4 * Poll, MaxBackoff) /\ Growth(4) = Smaller(8 * Poll, MaxBackoff)
  /\ \A n \in Nat : n >= 5 => Growth(n) = MaxBackoff
<1>1. Poll \in Nat
  BY PollAssumption
<1>2. Len(Doublings) = 4
  BY DEF Doublings
<1>3. /\ Poll * Doublings[1] = Poll /\ Poll * Doublings[2] = 2 * Poll
      /\ Poll * Doublings[3] = 4 * Poll /\ Poll * Doublings[4] = 8 * Poll
  BY <1>1, SMT DEF Doublings
<1> QED
  BY <1>2, <1>3, SMT DEF Growth

LEMMA LoopStarts == Init => LoopInv
<1> SUFFICES ASSUME Init PROVE LoopInv
  OBVIOUS
<1>1. Poll < 2 * MaxBackoff
  BY PollAssumption, MaxBackoffAssumption, SMT
<1>2. failures \in Nat /\ floor \in Nat
  BY ArgumentsAssumption DEF Init
<1> QED
  BY <1>1, <1>2, DoubledValues DEF Init, LoopInv

LEMMA DoubleKeeps == LoopInv /\ Double => LoopInv'
<1> SUFFICES ASSUME LoopInv, Double PROVE LoopInv'
  OBVIOUS
<1>1. /\ i \in 1 .. 5 /\ wait = Doubled(i) /\ i < failures /\ wait < MaxBackoff
      /\ failures \in Nat /\ wait' = 2 * wait /\ i' = i + 1 /\ pc' = "double" /\ pc = "double"
      /\ failures' = failures /\ floor' = floor /\ floor \in Nat
  BY DEF LoopInv, Double, Continues
<1>2. Poll \in Nat /\ Poll > 0 /\ MaxBackoff \in Nat /\ MaxBackoff <= 16 * Poll
  BY PollAssumption, MaxBackoffAssumption, SMT
<1>3. i # 5
  BY <1>1, <1>2, DoubledValues, SMT
<1>4. i' \in 1 .. 5 /\ i' <= failures
  BY <1>1, <1>3, SMT
<1>5. wait' = Doubled(i')
  <2>1. i = 1 \/ i = 2 \/ i = 3 \/ i = 4
    BY <1>1, <1>3, SMT
  <2> QED
    BY <2>1, <1>1, <1>2, DoubledValues, SMT
<1>6. wait \in Int
  BY <1>1, <1>2, DoubledValues, SMT
<1>7. wait' < 2 * MaxBackoff
  BY <1>1, <1>2, <1>6, SMT
<1> QED
  BY <1>1, <1>4, <1>5, <1>7 DEF LoopInv

\* The loop stops at the count or at the cap, and the table says the same of both.
LEMMA FinishKeeps == LoopInv /\ Finish => LoopInv'
<1> SUFFICES ASSUME LoopInv, Finish PROVE LoopInv'
  OBVIOUS
<1>1. /\ i \in 1 .. 5 /\ wait = Doubled(i) /\ ~(i < failures /\ wait < MaxBackoff)
      /\ i = 1 \/ i <= failures
      /\ failures \in Nat /\ wait' = Raise(Cap(wait)) /\ pc' = "done"
      /\ failures' = failures /\ floor' = floor /\ floor \in Nat
  BY DEF LoopInv, Finish, Continues
<1>2. Poll \in Nat /\ Poll > 0 /\ MaxBackoff \in Nat /\ Poll <= MaxBackoff /\ MaxBackoff <= 16 * Poll
  BY PollAssumption, MaxBackoffAssumption, SMT
<1>3. Cap(wait) = Growth(failures)
  <2>1. i = 1 \/ i = 2 \/ i = 3 \/ i = 4 \/ i = 5
    BY <1>1, SMT
  <2>2. failures = 0 \/ failures = 1 \/ failures = 2 \/ failures = 3 \/ failures = 4 \/ failures >= 5
    BY <1>1, SMT
  <2>3. Cap(wait) = Smaller(wait, MaxBackoff)
    BY DEF Cap
  <2>4. wait \in {Poll, 2 * Poll, 4 * Poll, 8 * Poll, 16 * Poll}
    BY <2>1, <1>1, DoubledValues
  <2>5. CASE failures >= 5
    BY <2>5, <2>1, <2>3, <1>1, <1>2, DoubledValues, GrowthValues, SMT DEF Smaller
  <2>6. CASE failures = 0
    BY <2>6, <2>1, <2>3, <1>1, <1>2, DoubledValues, GrowthValues, SMT DEF Smaller
  <2>7. CASE failures \in 1 .. 4
    BY <2>7, <2>1, <2>2, <2>3, <1>1, <1>2, DoubledValues, GrowthValues, SMT DEF Smaller
  <2> QED
    BY <2>2, <2>5, <2>6, <2>7, <1>1, SMT
<1>4. wait' = BackoffWait(failures, floor)
  BY <1>1, <1>3 DEF BackoffWait, Raise
<1> QED
  BY <1>1, <1>4 DEF LoopInv

\* The loop keeps its invariant: the wait is the poll doubled as often as it went round.
THEOREM LoopInvAlways == Spec => []LoopInv
<1>1. ASSUME LoopInv, UNCHANGED vars
      PROVE  LoopInv'
  BY <1>1 DEF LoopInv, vars
<1>2. LoopInv /\ [Next]_vars => LoopInv'
  BY <1>1, DoubleKeeps, FinishKeeps DEF Next
<1> QED
  BY <1>2, LoopStarts, PTL DEF Spec

\* scheduler.go, backoff: the loop leaves what the table says, and computes no wait of
\* twice the cap or more on its way, whatever the failure count.
THEOREM LoopMatchesTableAlways == Spec => []LoopMatchesTable
<1>1. LoopInv => LoopMatchesTable
  BY DEF LoopInv, LoopMatchesTable
<1> QED
  BY <1>1, LoopInvAlways, PTL
=============================================================================
