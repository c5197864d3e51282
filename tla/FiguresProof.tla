---------------------------- MODULE FiguresProof ----------------------------
(***************************************************************************)
(* What the figures of B3LB are for every input: the counters of Metrics   *)
(* under concurrent callers, the load of a node and the counts of          *)
(* available nodes of Policy, the statistics, lists, overviews and gauges  *)
(* of Statistics; and what the layers of a video show for every recording  *)
(* (Video).  Sums are the library's SumFunctionOnSet,                      *)
(* sequences of values recursive functions over the numbers: the lemmas    *)
(* about both rest on induction over a set of numbers and over the subsets *)
(* of a finite set, which follow from the well-foundedness of <.           *)
(***************************************************************************)
EXTENDS Metrics, Policy, Statistics, Video, FiniteSetTheorems, WellFoundedInduction, TLAPS

-----------------------------------------------------------------------------
(* Numbers.                                                                *)

LEMMA Division ==
    ASSUME NEW n \in Nat, NEW m \in Nat \ {0}
    PROVE  /\ n \div m \in Nat /\ n % m \in Nat /\ n % m < m
           /\ n = m * (n \div m) + (n % m)
OBVIOUS

LEMMA MinOfTwo ==
    ASSUME NEW a \in Int, NEW b \in Int
    PROVE  Min({a, b}) = IF a <= b THEN a ELSE b
<1> DEFINE least == IF a <= b THEN a ELSE b
<1>1. \A x \in {a, b} : (\A y \in {a, b} : x =< y) <=> x = least
  OBVIOUS
<1>2. least \in {a, b}
  OBVIOUS
<1> HIDE DEF least
<1>3. (CHOOSE x \in {a, b} : \A y \in {a, b} : x =< y) = least
  BY <1>1, <1>2
<1>4. QED
  BY <1>3 DEF Min, least

LEMMA MaxOfTwo ==
    ASSUME NEW a \in Int, NEW b \in Int
    PROVE  Max({a, b}) = IF a >= b THEN a ELSE b
<1> DEFINE greatest == IF a >= b THEN a ELSE b
<1>1. \A x \in {a, b} : (\A y \in {a, b} : x >= y) <=> x = greatest
  OBVIOUS
<1>2. greatest \in {a, b}
  OBVIOUS
<1> HIDE DEF greatest
<1>3. (CHOOSE x \in {a, b} : \A y \in {a, b} : x >= y) = greatest
  BY <1>1, <1>2
<1>4. QED
  BY <1>3 DEF Max, greatest

-----------------------------------------------------------------------------
(* Counters (Metrics).                                                     *)

\* The remainder is the only one there is.
LEMMA RemainderUnique ==
    ASSUME NEW m \in Nat \ {0}, NEW k \in Nat, NEW v \in Nat, v < m,
           NEW n \in Nat, n = m * k + v
    PROVE  n % m = v
<1> DEFINE q == n \div m
           r == n % m
<1>1. q \in Nat /\ r \in Nat /\ r < m /\ n = m * q + r
  BY Division
<1> HIDE DEF q, r
<1>2. m * (k - q) = r - v
  <2>1. m * (k - q) = m * k - m * q
    BY <1>1
  <2>2. m * k \in Nat /\ m * q \in Nat
    BY <1>1
  <2>3. QED
    BY <1>1, <2>1, <2>2
<1>3. ~(k - q > 0)
  <2>1. k - q > 0 => m * (k - q) >= m
    BY <1>1
  <2>2. QED
    BY <1>1, <1>2, <2>1
<1>4. ~(q - k > 0)
  <2>1. q - k > 0 => m * (q - k) >= m
    BY <1>1
  <2>2. m * (q - k) = 0 - m * (k - q)
    BY <1>1
  <2>3. QED
    BY <1>1, <1>2, <2>1, <2>2
<1>5. k = q
  BY <1>1, <1>3, <1>4
<1>6. QED
  BY <1>1, <1>2, <1>5 DEF r

\* Adding before or after taking the remainder.
LEMMA AddModulo ==
    ASSUME NEW a \in Nat, NEW b \in Nat, NEW m \in Nat \ {0}
    PROVE  ((a % m) + b) % m = (a + b) % m
<1> DEFINE q == a \div m
           s == (a % m) + b
           u == s \div m
           v == s % m
<1>1. q \in Nat /\ a = m * q + (a % m) /\ (a % m) \in Nat
  BY Division
<1>2. u \in Nat /\ v \in Nat /\ v < m /\ s = m * u + v
  <2>1. s \in Nat
    BY <1>1
  <2> HIDE DEF s
  <2>2. QED
    BY <2>1, Division
<1>3. a + b = m * q + s
  BY <1>1
<1> HIDE DEF q, u, v, s
<1>4. m * q \in Nat /\ m * u \in Nat /\ m * (q + u) = m * q + m * u
  BY <1>1, <1>2
<1>5. a + b = m * (q + u) + v
  BY <1>2, <1>3, <1>4
<1>6. (a + b) % m = v
  <2> DEFINE k == q + u
             n == a + b
  <2>1. k \in Nat /\ n \in Nat /\ n = m * k + v
    BY <1>1, <1>2, <1>5
  <2> HIDE DEF k, n
  <2>2. n % m = v
    BY <1>2, <2>1, RemainderUnique
  <2>3. QED
    BY <2>2 DEF n
<1>7. QED
  BY <1>6 DEF v, s

-----------------------------------------------------------------------------
Call == [pc : {"update", "create", "save", "done"}, key : Keys, by : Values, read : Nat]

MetricsTypeOK ==
    /\ metric \in [Keys -> Nat \cup {Missing}]
    /\ caller \in [Callers -> Call]
    /\ counted \in [Keys -> Nat]

\* The row a call is about to save is there: rows are never deleted.
SavedIsThere == \A c \in Callers : caller[c].pc = "save" => metric[caller[c].key] # Missing

MetricsInv == MetricsTypeOK /\ SavedIsThere /\ CountersExact

LEMMA MetricsInvInit == MetricsInit => MetricsInv
<1>1. SUFFICES ASSUME MetricsInit PROVE MetricsInv
  OBVIOUS
<1> USE <1>1, ModuloAssumption DEF MetricsInit, ModuloAssumption
<1>2. MetricsTypeOK
  BY DEF MetricsTypeOK, Call
<1>3. SavedIsThere
  BY DEF SavedIsThere
<1>4. CountersExact
  <2>1. 0 % Modulo = 0
    OBVIOUS
  <2>2. QED
    BY <2>1 DEF CountersExact, Keys
<1>5. QED
  BY <1>2, <1>3, <1>4 DEF MetricsInv

\* The statement that ends a call counts exactly once, on a row that is there.
LEMMA FinishKeepsInv ==
    ASSUME MetricsInv, NEW c \in Callers, metric[caller[c].key] # Missing, Finish(c)
    PROVE  MetricsInv'
<1> DEFINE k == caller[c].key
           by == caller[c].by
<1> USE ModuloAssumption DEF MetricsInv, MetricsTypeOK, ModuloAssumption
<1>1. k \in Keys /\ by \in Nat /\ metric[k] \in Nat /\ counted[k] \in Nat
  BY DEF Call
<1>2. /\ metric' = [metric EXCEPT ![k] = Stored(c)]
      /\ caller' = [caller EXCEPT ![c].pc = "done"]
      /\ counted' = [counted EXCEPT ![k] = counted[k] + by]
  BY DEF Finish
<1>3. Stored(c) \in Nat /\ (k \in Counters => Stored(c) = (metric[k] + by) % Modulo)
  BY <1>1 DEF Stored
<1> HIDE DEF k, by
<1>4. MetricsTypeOK'
  <2>1. [caller EXCEPT ![c].pc = "done"] \in [Callers -> Call]
    BY DEF Call
  <2>2. metric' \in [Keys -> Nat \cup {Missing}]
    BY <1>1, <1>2, <1>3
  <2>3. counted' \in [Keys -> Nat]
    BY <1>1, <1>2
  <2>4. QED
    BY <1>2, <2>1, <2>2, <2>3
<1>5. SavedIsThere'
  <2>1. \A d \in Callers : caller'[d].key = caller[d].key /\
                           (caller'[d].pc = "save" => caller[d].pc = "save")
    BY <1>2 DEF Call
  <2>2. \A l \in Keys : metric[l] # Missing => metric'[l] # Missing
    BY <1>1, <1>2, <1>3
  <2>3. \A d \in Callers : caller[d].key \in Keys
    BY DEF Call
  <2>4. QED
    BY <2>1, <2>2, <2>3 DEF SavedIsThere
<1>6. CountersExact'
  <2>1. ASSUME NEW l \in Counters
        PROVE  (IF metric'[l] = Missing THEN 0 ELSE metric'[l]) = counted'[l] % Modulo
    <3>1. CASE l # k
      BY <1>2, <3>1 DEF CountersExact, Keys
    <3>2. CASE l = k
      <4>1. metric'[l] = (metric[l] + by) % Modulo /\ metric'[l] \in Nat
        BY <1>1, <1>2, <1>3, <3>2
      <4>2. metric[l] = counted[l] % Modulo
        BY <1>1, <3>2 DEF CountersExact
      <4>3. counted'[l] = counted[l] + by
        BY <1>1, <1>2, <3>2
      <4>4. ((counted[l] % Modulo) + by) % Modulo = (counted[l] + by) % Modulo
        BY <1>1, <3>2, AddModulo
      <4>5. QED
        BY <4>1, <4>2, <4>3, <4>4
    <3>3. QED
      BY <3>1, <3>2
  <2>2. QED
    BY <2>1 DEF CountersExact
<1>7. QED
  BY <1>4, <1>5, <1>6

LEMMA MetricsInvStep == MetricsInv /\ [MetricsNext]_metricVars => MetricsInv'
<1>0. SUFFICES ASSUME MetricsInv, [MetricsNext]_metricVars PROVE MetricsInv'
  OBVIOUS
<1> USE <1>0, ModuloAssumption DEF MetricsInv, MetricsTypeOK, ModuloAssumption
<1>1. ASSUME NEW c \in Callers, Update(c) PROVE MetricsInv'
  <2>1. CASE metric[caller[c].key] # Missing
    BY <1>1, <2>1, FinishKeepsInv DEF Update
  <2>2. CASE metric[caller[c].key] = Missing
    <3>1. caller' = [caller EXCEPT ![c].pc = "create"] /\ UNCHANGED <<metric, counted>>
      BY <1>1, <2>2 DEF Update
    <3>2. QED
      BY <3>1 DEF Call, SavedIsThere, CountersExact
  <2>3. QED
    BY <2>1, <2>2
<1>2. ASSUME NEW c \in Callers, GetOrCreate(c) PROVE MetricsInv'
  <2> DEFINE k == caller[c].key
             value == IF metric[k] = Missing THEN 0 ELSE metric[k]
  <2>1. k \in Keys /\ value \in Nat
    BY DEF Call
  <2>2. /\ metric' = [metric EXCEPT ![k] = value]
        /\ caller' = [caller EXCEPT ![c].pc = "save", ![c].read = value]
        /\ UNCHANGED counted
    BY <1>2 DEF GetOrCreate
  <2>3. \A l \in Keys : (IF metric'[l] = Missing THEN 0 ELSE metric'[l])
                        = (IF metric[l] = Missing THEN 0 ELSE metric[l])
    BY <2>1, <2>2
  <2> HIDE DEF value
  <2>4. MetricsTypeOK'
    <3>1. metric' \in [Keys -> Nat \cup {Missing}]
      BY <2>1, <2>2
    <3>2. caller' \in [Callers -> Call]
      BY <2>1, <2>2 DEF Call
    <3>3. QED
      BY <2>2, <3>1, <3>2
  <2>5. SavedIsThere'
    <3>1. \A d \in Callers :
             /\ caller'[d].key = caller[d].key /\ caller[d].key \in Keys
             /\ d # c => caller'[d].pc = caller[d].pc
      BY <2>2 DEF Call
    <3>2. metric'[k] # Missing /\ \A l \in Keys : metric[l] # Missing => metric'[l] # Missing
      BY <2>1, <2>2
    <3>3. QED
      BY <3>1, <3>2 DEF SavedIsThere
  <2>6. CountersExact'
    BY <2>2, <2>3 DEF CountersExact, Keys
  <2>7. QED
    BY <2>4, <2>5, <2>6
<1>3. ASSUME NEW c \in Callers, Save(c) PROVE MetricsInv'
  BY <1>3, FinishKeepsInv DEF Save, SavedIsThere
<1>4. CASE UNCHANGED metricVars
  BY <1>4 DEF metricVars, SavedIsThere, CountersExact
<1>5. QED
  BY <1>0, <1>1, <1>2, <1>3, <1>4 DEF MetricsNext

(***************************************************************************)
(* Counters lose and gain nothing, whoever counts on a row at the same     *)
(* time and whoever creates it: their value is what the calls that have    *)
(* ended counted, modulo the width of the column (metrics.py:23-38).       *)
(***************************************************************************)
THEOREM NothingIsMiscounted == MetricsSpec => []CountersExact
<1>1. MetricsInv => CountersExact
  BY DEF MetricsInv
<1>2. QED
  BY <1>1, MetricsInvInit, MetricsInvStep, PTL DEF MetricsSpec

-----------------------------------------------------------------------------
(* Induction and sums.                                                     *)

\* The least member of a set of numbers, as the proofs by induction use it.
LEMMA LeastNatural ==
    ASSUME NEW T \in SUBSET Nat, T # {}
    PROVE  \E x \in T : \A y \in T : x <= y
<1>1. PICK x \in T : \A y \in T : ~(<<y, x>> \in OpToRel(<, Nat))
  BY NatLessThanWellFounded, WFMin
<1>2. ASSUME NEW y \in T PROVE x <= y
  <2>1. x \in Nat /\ y \in Nat
    OBVIOUS
  <2>2. ~(y < x)
    BY <1>1, <2>1 DEF OpToRel
  <2>3. QED
    BY <2>1, <2>2
<1>3. QED
  BY <1>2

\* Induction over the numbers, for a set of them.
LEMMA NatSetInduction ==
    ASSUME NEW S \in SUBSET Nat, 0 \in S, \A n \in S : n + 1 \in S
    PROVE  S = Nat
<1>1. SUFFICES ASSUME Nat \ S # {} PROVE FALSE
  OBVIOUS
<1>2. PICK x \in Nat \ S : \A y \in Nat \ S : x <= y
  BY <1>1, LeastNatural
<1>3. x # 0 /\ x - 1 \in Nat
  BY <1>2
<1>4. x - 1 \in S
  BY <1>2, <1>3
<1>5. (x - 1) + 1 = x
  BY <1>3
<1>6. QED
  BY <1>2, <1>4, <1>5

\* Induction over the subsets of a finite set, for a set of them.
LEMMA SubsetInduction ==
    ASSUME NEW V, IsFiniteSet(V), NEW G \in SUBSET SUBSET V, {} \in G,
           \A s \in G, x \in V : s \cup {x} \in G
    PROVE  G = SUBSET V
<1> DEFINE N == {n \in Nat : \A s \in SUBSET V : Cardinality(s) = n => s \in G}
<1>1. \A s \in SUBSET V : IsFiniteSet(s) /\ Cardinality(s) \in Nat
  BY FS_Subset, FS_CardinalityType
<1>2. 0 \in N
  BY <1>1, FS_EmptySet
<1>3. ASSUME NEW n \in N PROVE n + 1 \in N
  <2>1. SUFFICES ASSUME NEW s \in SUBSET V, Cardinality(s) = n + 1 PROVE s \in G
    OBVIOUS
  <2>2. s # {} /\ IsFiniteSet(s) /\ n \in Nat
    BY <1>1, <2>1, FS_EmptySet
  <2>3. PICK x \in s : TRUE
    BY <2>2
  <2>4. Cardinality(s \ {x}) = n /\ s \ {x} \in SUBSET V
    <3>1. Cardinality(s \ {x}) = Cardinality(s) - 1
      BY <2>2, FS_RemoveElement
    <3>2. QED
      BY <2>1, <2>2, <3>1
  <2>5. s \ {x} \in G /\ s = (s \ {x}) \cup {x} /\ x \in V
    BY <2>3, <2>4
  <2>6. QED
    BY <2>5
<1> HIDE DEF N
<1>4. N = Nat
  <2>1. N \in SUBSET Nat
    BY DEF N
  <2>2. QED
    BY <1>2, <1>3, <2>1, NatSetInduction
<1>5. QED
  BY <1>1, <1>4 DEF N

\* h gives the sum of f over every subset of V.
IsSummation(h, f, V) ==
    /\ h \in [SUBSET V -> Int]
    /\ h[{}] = 0
    /\ \A s \in SUBSET V : \A x \in s : h[s] = f[x] + h[s \ {x}]

LEMMA SummationExists ==
    ASSUME NEW V, IsFiniteSet(V), NEW f \in [V -> Int]
    PROVE  \E h : IsSummation(h, f, V)
<1> DEFINE G == {U \in SUBSET V : \E h : IsSummation(h, f, U)}
<1>1. {} \in G
  <2>1. IsSummation([s \in SUBSET {} |-> 0], f, {})
    BY DEF IsSummation
  <2>2. QED
    BY <2>1
<1>2. ASSUME NEW U \in G, NEW z \in V PROVE U \cup {z} \in G
  <2>1. CASE z \in U
    <3>1. U \cup {z} = U
      BY <2>1
    <3>2. QED
      BY <3>1
  <2>2. CASE z \notin U
    <3>1. PICK h : IsSummation(h, f, U)
      OBVIOUS
    <3> DEFINE W == U \cup {z}
               g == [s \in SUBSET W |-> IF z \in s THEN f[z] + h[s \ {z}] ELSE h[s]]
    <3>2. \A s \in SUBSET W : s \ {z} \in SUBSET U /\ (z \notin s => s \in SUBSET U)
      OBVIOUS
    <3>3. g \in [SUBSET W -> Int]
      BY <3>1, <3>2 DEF IsSummation
    <3>4. g[{}] = 0
      BY <3>1 DEF IsSummation
    <3>5. ASSUME NEW s \in SUBSET W, NEW x \in s PROVE g[s] = f[x] + g[s \ {x}]
      <4>1. s \ {x} \in SUBSET W /\ x \in V /\ f[x] \in Int /\ f[z] \in Int
        OBVIOUS
      <4>2. CASE x = z
        <5>1. g[s] = f[z] + h[s \ {z}] /\ g[s \ {x}] = h[s \ {z}]
          BY <4>1, <4>2
        <5>2. QED
          BY <4>2, <5>1
      <4>3. CASE x # z /\ z \in s
        <5>1. g[s] = f[z] + h[s \ {z}] /\ g[s \ {x}] = f[z] + h[(s \ {x}) \ {z}]
          BY <4>1, <4>3
        <5>2. s \ {z} \in SUBSET U /\ x \in s \ {z} /\ (s \ {x}) \ {z} = (s \ {z}) \ {x}
          BY <4>3
        <5>3. h[s \ {z}] = f[x] + h[(s \ {x}) \ {z}] /\ h[(s \ {x}) \ {z}] \in Int
          BY <3>1, <5>2 DEF IsSummation
        <5>4. QED
          BY <4>1, <5>1, <5>3
      <4>4. CASE x # z /\ z \notin s
        <5>1. s \in SUBSET U /\ g[s] = h[s] /\ g[s \ {x}] = h[s \ {x}]
          BY <4>1, <4>4
        <5>2. QED
          BY <3>1, <5>1 DEF IsSummation
      <4>5. QED
        BY <4>2, <4>3, <4>4
    <3> HIDE DEF g
    <3>6. IsSummation(g, f, W)
      BY <3>3, <3>4, <3>5 DEF IsSummation
    <3>7. QED
      BY <3>6
  <2>3. QED
    BY <2>1, <2>2
<1>3. G \in SUBSET SUBSET V
  OBVIOUS
<1> HIDE DEF G
<1>4. G = SUBSET V
  BY <1>1, <1>2, <1>3, SubsetInduction
<1>5. V \in G
  BY <1>4
<1>6. QED
  BY <1>5 DEF G

\* The fold of the library is this sum.
LEMMA SumIsSummation ==
    ASSUME NEW V, IsFiniteSet(V), NEW f, NEW h, IsSummation(h, f, V), NEW U \in SUBSET V
    PROVE  SumFunctionOnSet(f, U) = h[U]
<1> DEFINE pick(s) == CHOOSE x \in s : TRUE
           step(k) == [s \in SUBSET U |-> IF s = {} THEN 0 ELSE f[pick(s)] + k[s \ {pick(s)}]]
           iter == CHOOSE k : k = step(k)
           low == [s \in SUBSET U |-> h[s]]
<1>1. SumFunctionOnSet(f, U) = iter[U]
  BY DEF SumFunctionOnSet, FoldFunctionOnSet, MapThenFoldSet
<1>2. \A s : s # {} => pick(s) \in s
  OBVIOUS
<1> HIDE DEF pick
<1>3. low = step(low)
  <2>1. ASSUME NEW s \in SUBSET U
        PROVE  low[s] = IF s = {} THEN 0 ELSE f[pick(s)] + low[s \ {pick(s)}]
    <3>1. s \in SUBSET V /\ s \ {pick(s)} \in SUBSET U
      OBVIOUS
    <3>2. QED
      BY <1>2, <3>1 DEF IsSummation
  <2>2. QED
    BY <2>1
<1>4. iter = step(iter)
  BY <1>3
<1> HIDE DEF iter
<1>5. \A s \in SUBSET U : iter[s] = IF s = {} THEN 0 ELSE f[pick(s)] + iter[s \ {pick(s)}]
  BY <1>4
<1> DEFINE D == {n \in Nat : \A s \in SUBSET U : Cardinality(s) = n => iter[s] = h[s]}
<1>6. \A s \in SUBSET U : IsFiniteSet(s) /\ Cardinality(s) \in Nat
  BY FS_Subset, FS_CardinalityType
<1>7. 0 \in D
  <2>1. ASSUME NEW s \in SUBSET U, Cardinality(s) = 0 PROVE iter[s] = h[s]
    <3>1. s = {}
      BY <1>6, <2>1, FS_EmptySet
    <3>2. QED
      BY <1>5, <3>1 DEF IsSummation
  <2>2. QED
    BY <2>1
<1>8. ASSUME NEW n \in D PROVE n + 1 \in D
  <2>1. ASSUME NEW s \in SUBSET U, Cardinality(s) = n + 1 PROVE iter[s] = h[s]
    <3>1. n \in Nat /\ s # {}
      BY <2>1, FS_EmptySet
    <3>2. pick(s) \in s /\ s \ {pick(s)} \in SUBSET U /\ s \in SUBSET V
      BY <1>2, <3>1
    <3>3. Cardinality(s \ {pick(s)}) = n
      <4>1. Cardinality(s \ {pick(s)}) = Cardinality(s) - 1
        BY <1>6, <3>2, FS_RemoveElement
      <4>2. QED
        BY <2>1, <3>1, <4>1
    <3>4. iter[s \ {pick(s)}] = h[s \ {pick(s)}]
      BY <3>2, <3>3
    <3>5. QED
      BY <1>5, <3>1, <3>2, <3>4 DEF IsSummation
  <2>2. n + 1 \in Nat
    OBVIOUS
  <2>3. QED
    BY <2>1, <2>2
<1>9. D \in SUBSET Nat
  OBVIOUS
<1> HIDE DEF D
<1>10. D = Nat
  BY <1>7, <1>8, <1>9, NatSetInduction
<1>11. U \in SUBSET U /\ Cardinality(U) \in Nat
  BY <1>6
<1>12. iter[U] = h[U]
  BY <1>10, <1>11 DEF D
<1>13. QED
  BY <1>1, <1>12

\* What a sum over a set is: nothing for none, and any member counts once.
LEMMA SumFacts ==
    ASSUME NEW V, IsFiniteSet(V), NEW f \in [V -> Int]
    PROVE  /\ SumFunctionOnSet(f, {}) = 0
           /\ \A s \in SUBSET V :
                 /\ SumFunctionOnSet(f, s) \in Int
                 /\ \A x \in s : SumFunctionOnSet(f, s) = f[x] + SumFunctionOnSet(f, s \ {x})
<1>1. PICK h : IsSummation(h, f, V)
  BY SummationExists
<1>2. \A s \in SUBSET V : SumFunctionOnSet(f, s) = h[s]
  BY <1>1, SumIsSummation
<1>3. {} \in SUBSET V /\ \A s \in SUBSET V : \A x \in s : s \ {x} \in SUBSET V
  OBVIOUS
<1>4. QED
  BY <1>1, <1>2, <1>3 DEF IsSummation

\* A sum depends on the values over its set alone.
LEMMA SumSame ==
    ASSUME NEW U, IsFiniteSet(U), NEW f, NEW V, NEW W, f \in [V -> Int], NEW g \in [W -> Int],
           IsFiniteSet(V), IsFiniteSet(W), U \subseteq V, U \subseteq W,
           \A x \in U : f[x] = g[x]
    PROVE  SumFunctionOnSet(f, U) = SumFunctionOnSet(g, U)
<1> DEFINE G == {s \in SUBSET U : SumFunctionOnSet(f, s) = SumFunctionOnSet(g, s)}
<1>1. {} \in G
  BY SumFacts
<1>2. ASSUME NEW s \in G, NEW x \in U PROVE s \cup {x} \in G
  <2>1. CASE x \in s
    <3>1. s \cup {x} = s
      BY <2>1
    <3>2. QED
      BY <3>1
  <2>2. CASE x \notin s
    <3>1. (s \cup {x}) \ {x} = s /\ x \in s \cup {x} /\ s \cup {x} \in SUBSET U
      BY <2>2
    <3>2. s \cup {x} \in SUBSET V /\ s \cup {x} \in SUBSET W
      BY <3>1
    <3>3. SumFunctionOnSet(f, s \cup {x}) = f[x] + SumFunctionOnSet(f, s)
      BY <3>1, <3>2, SumFacts
    <3>4. SumFunctionOnSet(g, s \cup {x}) = g[x] + SumFunctionOnSet(g, s)
      BY <3>1, <3>2, SumFacts
    <3>5. QED
      BY <3>1, <3>3, <3>4
  <2>3. QED
    BY <2>1, <2>2
<1>3. G \in SUBSET SUBSET U
  OBVIOUS
<1> HIDE DEF G
<1>4. G = SUBSET U
  BY <1>1, <1>2, <1>3, SubsetInduction
<1>5. U \in G
  BY <1>4
<1>6. QED
  BY <1>5 DEF G

\* One member more.
LEMMA SumAdd ==
    ASSUME NEW V, IsFiniteSet(V), NEW f \in [V -> Int], NEW s \in SUBSET V, NEW x \in V, x \notin s
    PROVE  SumFunctionOnSet(f, s \cup {x}) = f[x] + SumFunctionOnSet(f, s)
<1>1. (s \cup {x}) \ {x} = s /\ x \in s \cup {x} /\ s \cup {x} \in SUBSET V
  OBVIOUS
<1>2. QED
  BY <1>1, SumFacts

\* Sums over sets without a common member add up.
LEMMA SumUnion ==
    ASSUME NEW V, IsFiniteSet(V), NEW f \in [V -> Int],
           NEW A \in SUBSET V, NEW B \in SUBSET V, A \cap B = {}
    PROVE  SumFunctionOnSet(f, A \cup B) = SumFunctionOnSet(f, A) + SumFunctionOnSet(f, B)
<1> DEFINE G == {s \in SUBSET B :
                   SumFunctionOnSet(f, A \cup s) = SumFunctionOnSet(f, A) + SumFunctionOnSet(f, s)}
<1>1. {} \in G
  <2>1. A \cup {} = A
    OBVIOUS
  <2>2. SumFunctionOnSet(f, {}) = 0 /\ SumFunctionOnSet(f, A) \in Int
    BY SumFacts
  <2>3. QED
    BY <2>1, <2>2
<1>2. ASSUME NEW s \in G, NEW x \in B PROVE s \cup {x} \in G
  <2>1. CASE x \in s
    <3>1. s \cup {x} = s
      BY <2>1
    <3>2. QED
      BY <3>1
  <2>2. CASE x \notin s
    <3>1. x \in V /\ s \in SUBSET V /\ A \cup s \in SUBSET V /\ x \notin A \cup s
      BY <2>2
    <3>2. A \cup (s \cup {x}) = (A \cup s) \cup {x}
      OBVIOUS
    <3>3. SumFunctionOnSet(f, A \cup (s \cup {x})) = f[x] + SumFunctionOnSet(f, A \cup s)
      <4> DEFINE u == A \cup s
      <4>1. u \in SUBSET V /\ x \notin u
        BY <3>1
      <4>2. A \cup (s \cup {x}) = u \cup {x}
        BY <3>2
      <4> HIDE DEF u
      <4>3. SumFunctionOnSet(f, u \cup {x}) = f[x] + SumFunctionOnSet(f, u)
        BY <3>1, <4>1, SumAdd
      <4>4. SumFunctionOnSet(f, A \cup (s \cup {x})) = f[x] + SumFunctionOnSet(f, u)
        BY ONLY <4>2, <4>3
      <4>5. QED
        BY <4>4 DEF u
    <3>4. SumFunctionOnSet(f, s \cup {x}) = f[x] + SumFunctionOnSet(f, s)
      BY <2>2, <3>1, SumAdd
    <3>5. SumFunctionOnSet(f, A) \in Int /\ SumFunctionOnSet(f, s) \in Int
      BY <3>1, SumFacts
    <3>6. QED
      BY <3>1, <3>3, <3>4, <3>5
  <2>3. QED
    BY <2>1, <2>2
<1>3. G \in SUBSET SUBSET B /\ IsFiniteSet(B)
  BY FS_Subset
<1> HIDE DEF G
<1>4. G = SUBSET B
  BY <1>1, <1>2, <1>3, SubsetInduction
<1>5. B \in G
  BY <1>4
<1>6. QED
  BY <1>5 DEF G

\* The sum over a set is that of the sums over its parts.
LEMMA SumOfParts ==
    ASSUME NEW V, IsFiniteSet(V), NEW f \in [V -> Int], NEW K, IsFiniteSet(K),
           NEW part \in [K -> SUBSET V],
           \A j, k \in K : j # k => part[j] \cap part[k] = {},
           NEW g \in [K -> Int], \A k \in K : g[k] = SumFunctionOnSet(f, part[k])
    PROVE  SumFunctionOnSet(g, K) = SumFunctionOnSet(f, UNION {part[k] : k \in K})
<1> DEFINE all(s) == UNION {part[k] : k \in s}
           G == {s \in SUBSET K : SumFunctionOnSet(g, s) = SumFunctionOnSet(f, all(s))}
<1>1. {} \in G
  <2>1. all({}) = {}
    OBVIOUS
  <2>2. SumFunctionOnSet(f, {}) = 0 /\ SumFunctionOnSet(g, {}) = 0
    BY SumFacts
  <2>3. QED
    BY <2>1, <2>2
<1>2. ASSUME NEW s \in G, NEW x \in K PROVE s \cup {x} \in G
  <2>1. CASE x \in s
    <3>1. s \cup {x} = s
      BY <2>1
    <3>2. QED
      BY <3>1
  <2>2. CASE x \notin s
    <3>1. all(s \cup {x}) = all(s) \cup part[x] /\ all(s) \in SUBSET V /\ part[x] \in SUBSET V
      OBVIOUS
    <3>2. all(s) \cap part[x] = {}
      BY <2>2
    <3> HIDE DEF all
    <3>3. SumFunctionOnSet(f, all(s \cup {x})) = SumFunctionOnSet(f, all(s)) + SumFunctionOnSet(f, part[x])
      <4>1. SumFunctionOnSet(f, all(s) \cup part[x]) = SumFunctionOnSet(f, all(s)) + SumFunctionOnSet(f, part[x])
        BY <3>1, <3>2, SumUnion
      <4>2. QED
        BY ONLY <3>1, <4>1
    <3>4. SumFunctionOnSet(g, s \cup {x}) = g[x] + SumFunctionOnSet(g, s)
      BY <2>2, SumAdd
    <3>5. SumFunctionOnSet(f, all(s)) \in Int /\ SumFunctionOnSet(f, part[x]) \in Int
      BY <3>1, SumFacts
    <3>6. QED
      BY <3>3, <3>4, <3>5
  <2>3. QED
    BY <2>1, <2>2
<1>3. G \in SUBSET SUBSET K
  OBVIOUS
<1> HIDE DEF G, all
<1>4. G = SUBSET K
  BY <1>1, <1>2, <1>3, SubsetInduction
<1>5. K \in G
  BY <1>4
<1>6. SumFunctionOnSet(g, K) = SumFunctionOnSet(f, all(K))
  BY <1>5 DEF G
<1>7. QED
  BY <1>6 DEF all

\* A sum of ones counts, and so does one of any other number.
LEMMA SumOfEqual ==
    ASSUME NEW V, IsFiniteSet(V), NEW f \in [V -> Int], NEW U \in SUBSET V,
           NEW d \in Int, \A x \in U : f[x] = d
    PROVE  SumFunctionOnSet(f, U) = d * Cardinality(U)
<1> DEFINE G == {s \in SUBSET U : SumFunctionOnSet(f, s) = d * Cardinality(s)}
<1>1. {} \in G
  BY SumFacts, FS_EmptySet
<1>2. ASSUME NEW s \in G, NEW x \in U PROVE s \cup {x} \in G
  <2>1. CASE x \in s
    <3>1. s \cup {x} = s
      BY <2>1
    <3>2. QED
      BY <3>1
  <2>2. CASE x \notin s
    <3>1. SumFunctionOnSet(f, s \cup {x}) = d + SumFunctionOnSet(f, s)
      BY <2>2, SumAdd
    <3>2. IsFiniteSet(s) /\ Cardinality(s) \in Nat
      BY FS_Subset, FS_CardinalityType
    <3>3. Cardinality(s \cup {x}) = Cardinality(s) + 1
      BY <2>2, <3>2, FS_AddElement
    <3>4. d * (Cardinality(s) + 1) = d * Cardinality(s) + d
      BY <3>2
    <3>5. SumFunctionOnSet(f, s) = d * Cardinality(s) /\ d * Cardinality(s) \in Int
      BY <3>2
    <3>6. QED
      BY <3>1, <3>3, <3>4, <3>5
  <2>3. QED
    BY <2>1, <2>2
<1>3. G \in SUBSET SUBSET U /\ IsFiniteSet(U)
  BY FS_Subset
<1> HIDE DEF G
<1>4. G = SUBSET U
  BY <1>1, <1>2, <1>3, SubsetInduction
<1>5. U \in G
  BY <1>4
<1>6. QED
  BY <1>5 DEF G

\* Where f is nowhere more than g, neither is the sum.
LEMMA SumAtMost ==
    ASSUME NEW V, IsFiniteSet(V), NEW f \in [V -> Int], NEW g \in [V -> Int],
           NEW U \in SUBSET V, \A x \in U : f[x] <= g[x]
    PROVE  SumFunctionOnSet(f, U) <= SumFunctionOnSet(g, U)
<1> DEFINE G == {s \in SUBSET U : SumFunctionOnSet(f, s) <= SumFunctionOnSet(g, s)}
<1>1. {} \in G
  BY SumFacts
<1>2. ASSUME NEW s \in G, NEW x \in U PROVE s \cup {x} \in G
  <2>1. CASE x \in s
    <3>1. s \cup {x} = s
      BY <2>1
    <3>2. QED
      BY <3>1
  <2>2. CASE x \notin s
    <3>1. SumFunctionOnSet(f, s \cup {x}) = f[x] + SumFunctionOnSet(f, s)
      BY <2>2, SumAdd
    <3>2. SumFunctionOnSet(g, s \cup {x}) = g[x] + SumFunctionOnSet(g, s)
      BY <2>2, SumAdd
    <3>3. SumFunctionOnSet(f, s) \in Int /\ SumFunctionOnSet(g, s) \in Int /\ s \in SUBSET V
      BY SumFacts
    <3>4. f[x] <= g[x] /\ f[x] \in Int /\ g[x] \in Int
      OBVIOUS
    <3>5. QED
      BY <3>1, <3>2, <3>3, <3>4
  <2>3. QED
    BY <2>1, <2>2
<1>3. G \in SUBSET SUBSET U /\ IsFiniteSet(U)
  BY FS_Subset
<1> HIDE DEF G
<1>4. G = SUBSET U
  BY <1>1, <1>2, <1>3, SubsetInduction
<1>5. U \in G
  BY <1>4
<1>6. QED
  BY <1>5 DEF G


AddsUp(h, f, g, U) == \A x \in U : h[x] = f[x] + g[x]

LEMMA SumOfSums ==
    ASSUME NEW V, IsFiniteSet(V), NEW f \in [V -> Int], NEW g \in [V -> Int], NEW h \in [V -> Int],
           NEW U \in SUBSET V, AddsUp(h, f, g, U)
    PROVE  SumFunctionOnSet(h, U) = SumFunctionOnSet(f, U) + SumFunctionOnSet(g, U)
<1> USE DEF AddsUp
<1> DEFINE G == {s \in SUBSET U : SumFunctionOnSet(h, s) = SumFunctionOnSet(f, s) + SumFunctionOnSet(g, s)}
<1>1. {} \in G
  BY SumFacts
<1>2. ASSUME NEW s \in G, NEW x \in U PROVE s \cup {x} \in G
  <2>1. CASE x \in s
    <3>1. s \cup {x} = s
      BY <2>1
    <3>2. QED
      BY <3>1
  <2>2. CASE x \notin s
    <3>1. SumFunctionOnSet(f, s \cup {x}) = f[x] + SumFunctionOnSet(f, s)
      BY <2>2, SumAdd
    <3>2. SumFunctionOnSet(g, s \cup {x}) = g[x] + SumFunctionOnSet(g, s)
      BY <2>2, SumAdd
    <3>3. SumFunctionOnSet(h, s \cup {x}) = h[x] + SumFunctionOnSet(h, s)
      BY <2>2, SumAdd
    <3>4. SumFunctionOnSet(f, s) \in Int /\ SumFunctionOnSet(g, s) \in Int
      BY SumFacts
    <3>5. h[x] = f[x] + g[x] /\ f[x] \in Int /\ g[x] \in Int
      OBVIOUS
    <3>6. QED
      BY <3>1, <3>2, <3>3, <3>4, <3>5
  <2>3. QED
    BY <2>1, <2>2
<1>3. G \in SUBSET SUBSET U /\ IsFiniteSet(U)
  BY FS_Subset
<1> HIDE DEF G
<1>4. G = SUBSET U
  BY <1>1, <1>2, <1>3, SubsetInduction
<1>5. U \in G
  BY <1>4
<1>6. QED
  BY <1>5 DEF G

\* A sum of numbers that are not negative is none either, and is 0 if and
\* only if all of them are.
LEMMA SumOfNaturals ==
    ASSUME NEW V, IsFiniteSet(V), NEW f \in [V -> Int], NEW U \in SUBSET V, \A x \in U : f[x] \in Nat
    PROVE  /\ SumFunctionOnSet(f, U) \in Nat
           /\ SumFunctionOnSet(f, U) = 0 <=> \A x \in U : f[x] = 0
<1> DEFINE zero == [x \in V |-> 0]
<1>1. zero \in [V -> Int] /\ \A x \in V : zero[x] = 0
  OBVIOUS
<1> HIDE DEF zero
<1>2. \A s \in SUBSET U : SumFunctionOnSet(f, s) \in Nat
  <2>1. ASSUME NEW s \in SUBSET U PROVE SumFunctionOnSet(f, s) \in Nat
    <3>1. s \in SUBSET V /\ IsFiniteSet(s)
      BY FS_Subset
    <3>2. SumFunctionOnSet(zero, s) = 0 * Cardinality(s) /\ Cardinality(s) \in Nat
      BY <1>1, <3>1, SumOfEqual, FS_CardinalityType
    <3>3. SumFunctionOnSet(zero, s) <= SumFunctionOnSet(f, s)
      <4>1. \A x \in s : zero[x] <= f[x]
        BY <1>1
      <4>2. QED
        BY <1>1, <3>1, <4>1, SumAtMost
    <3>4. SumFunctionOnSet(f, s) \in Int
      BY <3>1, SumFacts
    <3>5. QED
      BY <3>2, <3>3, <3>4
  <2>2. QED
    BY <2>1
<1>3. ASSUME \A x \in U : f[x] = 0 PROVE SumFunctionOnSet(f, U) = 0
  <2>1. SumFunctionOnSet(f, U) = 0 * Cardinality(U)
    BY <1>3, SumOfEqual
  <2>2. Cardinality(U) \in Nat
    BY FS_Subset, FS_CardinalityType
  <2>3. QED
    BY <2>1, <2>2
<1>4. ASSUME SumFunctionOnSet(f, U) = 0, NEW x \in U PROVE f[x] = 0
  <2>1. SumFunctionOnSet(f, U) = f[x] + SumFunctionOnSet(f, U \ {x})
    BY SumFacts
  <2>2. SumFunctionOnSet(f, U \ {x}) \in Nat /\ f[x] \in Nat
    BY <1>2
  <2>3. QED
    BY <1>4, <2>1, <2>2
<1>5. QED
  BY <1>2, <1>3, <1>4

\* The members of a union are at most as many as those of its sets together.
LEMMA UnionAtMost ==
    ASSUME NEW V, IsFiniteSet(V), NEW K, IsFiniteSet(K), NEW part \in [K -> SUBSET V],
           NEW g \in [K -> Int], \A k \in K : g[k] = Cardinality(part[k])
    PROVE  Cardinality(UNION {part[k] : k \in K}) <= SumFunctionOnSet(g, K)
<1> DEFINE of(s) == UNION {part[k] : k \in s}
           G == {s \in SUBSET K : Cardinality(of(s)) <= SumFunctionOnSet(g, s)}
<1>1. {} \in G
  <2>1. of({}) = {}
    OBVIOUS
  <2>2. SumFunctionOnSet(g, {}) = 0 /\ Cardinality({}) = 0
    BY SumFacts, FS_EmptySet
  <2> HIDE DEF of
  <2>3. QED
    BY <2>1, <2>2
<1>2. ASSUME NEW s \in G, NEW x \in K PROVE s \cup {x} \in G
  <2>1. CASE x \in s
    <3>1. s \cup {x} = s
      BY <2>1
    <3>2. QED
      BY <3>1
  <2>2. CASE x \notin s
    <3>1. of(s \cup {x}) = of(s) \cup part[x] /\ of(s) \in SUBSET V /\ part[x] \in SUBSET V
      OBVIOUS
    <3>2. SumFunctionOnSet(g, s \cup {x}) = g[x] + SumFunctionOnSet(g, s)
      BY <2>2, SumAdd
    <3>3. SumFunctionOnSet(g, s) \in Int /\ g[x] = Cardinality(part[x])
          /\ Cardinality(of(s)) <= SumFunctionOnSet(g, s)
      BY SumFacts
    <3> HIDE DEF of, G
    <3>4. IsFiniteSet(of(s)) /\ IsFiniteSet(part[x])
      BY <3>1, FS_Subset
    <3>5. /\ Cardinality(of(s) \cup part[x])
               = Cardinality(of(s)) + Cardinality(part[x]) - Cardinality(of(s) \cap part[x])
      BY <3>4, FS_Union
    <3>6. IsFiniteSet(of(s) \cap part[x])
      BY <3>4, FS_Intersection
    <3>7. Cardinality(of(s)) \in Nat /\ Cardinality(part[x]) \in Nat /\ Cardinality(of(s) \cap part[x]) \in Nat
      BY <3>4, <3>6, FS_CardinalityType
    <3>8. Cardinality(of(s \cup {x})) <= SumFunctionOnSet(g, s \cup {x})
      <4>1. Cardinality(of(s \cup {x})) = Cardinality(of(s) \cup part[x])
        BY ONLY <3>1
      <4>2. QED
        BY <4>1, <3>2, <3>3, <3>5, <3>7
    <3>9. QED
      BY <3>8 DEF G
  <2>3. QED
    BY <2>1, <2>2
<1>3. G \in SUBSET SUBSET K
  OBVIOUS
<1> HIDE DEF G, of
<1>4. G = SUBSET K
  BY <1>1, <1>2, <1>3, SubsetInduction
<1>5. K \in G
  BY <1>4
<1>6. Cardinality(of(K)) <= SumFunctionOnSet(g, K)
  BY <1>5 DEF G
<1>7. QED
  BY <1>6 DEF of

\* They are as many if no two of the sets have a common member.
LEMMA UnionOfDisjoint ==
    ASSUME NEW V, IsFiniteSet(V), NEW K, IsFiniteSet(K), NEW part \in [K -> SUBSET V],
           NEW g \in [K -> Int], \A k \in K : g[k] = Cardinality(part[k]),
           \A j, k \in K : j # k => part[j] \cap part[k] = {}
    PROVE  Cardinality(UNION {part[k] : k \in K}) = SumFunctionOnSet(g, K)
<1> DEFINE one == [x \in V |-> 1]
           of == UNION {part[k] : k \in K}
<1>1. one \in [V -> Int] /\ \A x \in V : one[x] = 1
  OBVIOUS
<1> HIDE DEF one
<1>2. \A s \in SUBSET V : SumFunctionOnSet(one, s) = Cardinality(s)
  <2>1. ASSUME NEW s \in SUBSET V PROVE SumFunctionOnSet(one, s) = Cardinality(s)
    <3>1. SumFunctionOnSet(one, s) = 1 * Cardinality(s)
      BY <1>1, SumOfEqual
    <3>2. Cardinality(s) \in Nat
      BY FS_Subset, FS_CardinalityType
    <3>3. QED
      BY <3>1, <3>2
  <2>2. QED
    BY <2>1
<1>3. \A k \in K : g[k] = SumFunctionOnSet(one, part[k])
  BY <1>2
<1>4. SumFunctionOnSet(g, K) = SumFunctionOnSet(one, of)
  BY <1>1, <1>3, SumOfParts
<1>5. of \in SUBSET V
  OBVIOUS
<1> HIDE DEF of
<1>6. Cardinality(of) = SumFunctionOnSet(g, K)
  BY <1>2, <1>4, <1>5
<1>7. QED
  BY <1>6 DEF of

-----------------------------------------------------------------------------
(* Functions over the numbers that are defined by what they are at 0 and   *)
(* how n + 1 follows from n.                                               *)

\* What is at 0, and how the next value follows from the number and the value.
IsRule(R, base, step) == base \in R /\ step \in [Nat \X R -> R]

\* g gives the first values of the function, those up to n.
FollowsTo(g, n, R, base, step) ==
    /\ g \in [0 .. n -> R]
    /\ g[0] = base
    /\ \A i \in 0 .. n - 1 : g[i + 1] = step[<<i, g[i]>>]

LEMMA FirstValuesExist ==
    ASSUME NEW R, NEW base, NEW step, IsRule(R, base, step), NEW n \in Nat
    PROVE  \E g : FollowsTo(g, n, R, base, step)
<1> USE DEF IsRule
<1> DEFINE S == {m \in Nat : \E g : FollowsTo(g, m, R, base, step)}
<1>1. 0 \in S
  <2>1. FollowsTo([i \in 0 .. 0 |-> base], 0, R, base, step)
    BY DEF FollowsTo
  <2>2. QED
    BY <2>1
<1>2. ASSUME NEW m \in S PROVE m + 1 \in S
  <2>1. PICK g : FollowsTo(g, m, R, base, step)
    OBVIOUS
  <2> DEFINE h == [i \in 0 .. m + 1 |-> IF i = m + 1 THEN step[<<m, g[m]>>] ELSE g[i]]
  <2>2. m \in Nat /\ g[m] \in R /\ step[<<m, g[m]>>] \in R
    BY <2>1 DEF FollowsTo
  <2>3. h \in [0 .. m + 1 -> R] /\ h[0] = base
    BY <2>1, <2>2 DEF FollowsTo
  <2>4. ASSUME NEW i \in 0 .. (m + 1) - 1 PROVE h[i + 1] = step[<<i, h[i]>>]
    <3>1. CASE i = m
      <4>1. m \in 0 .. m + 1 /\ m + 1 \in 0 .. m + 1 /\ m # m + 1
        BY <2>2
      <4>2. h[m + 1] = step[<<m, g[m]>>] /\ h[m] = g[m]
        BY <4>1
      <4>3. QED
        BY <3>1, <4>2
    <3>2. CASE i # m
      <4>1. i \in 0 .. m - 1 /\ i + 1 # m + 1 /\ i + 1 \in 0 .. m
        BY <2>2, <3>2
      <4>2. h[i + 1] = g[i + 1] /\ h[i] = g[i]
        BY <2>2, <3>2, <4>1
      <4>3. QED
        BY <2>1, <4>1, <4>2 DEF FollowsTo
    <3>3. QED
      BY <3>1, <3>2
  <2> HIDE DEF h
  <2>5. FollowsTo(h, m + 1, R, base, step)
    BY <2>3, <2>4 DEF FollowsTo
  <2>6. QED
    BY <2>2, <2>5
<1>3. S \in SUBSET Nat
  OBVIOUS
<1> HIDE DEF S
<1>4. S = Nat
  BY <1>1, <1>2, <1>3, NatSetInduction
<1>5. n \in S
  BY <1>4
<1>6. QED
  BY <1>5 DEF S

LEMMA FirstValuesAgree ==
    ASSUME NEW R, NEW base, NEW step, IsRule(R, base, step), NEW n \in Nat, NEW m \in Nat,
           NEW g, FollowsTo(g, n, R, base, step), NEW h, FollowsTo(h, m, R, base, step),
           NEW j \in Nat, j <= n, j <= m
    PROVE  g[j] = h[j]
<1> DEFINE S == {i \in Nat : i <= n /\ i <= m => g[i] = h[i]}
<1>1. 0 \in S
  BY DEF FollowsTo
<1>2. ASSUME NEW i \in S PROVE i + 1 \in S
  <2>1. SUFFICES ASSUME i + 1 <= n, i + 1 <= m PROVE g[i + 1] = h[i + 1]
    OBVIOUS
  <2>2. i \in Nat /\ i \in 0 .. n - 1 /\ i \in 0 .. m - 1 /\ g[i] = h[i]
    BY <2>1
  <2>3. QED
    BY <2>2 DEF FollowsTo
<1>3. S \in SUBSET Nat
  OBVIOUS
<1> HIDE DEF S
<1>4. S = Nat
  BY <1>1, <1>2, <1>3, NatSetInduction
<1>5. QED
  BY <1>4 DEF S

\* f is the function.
Follows(f, R, base, step) ==
    /\ f \in [Nat -> R]
    /\ f[0] = base
    /\ \A n \in Nat : f[n + 1] = step[<<n, f[n]>>]

\* There is such a function.
LEMMA RecursionExists ==
    ASSUME NEW R, NEW base, NEW step, IsRule(R, base, step)
    PROVE  \E f : Follows(f, R, base, step)
<1> DEFINE first(n) == CHOOSE g : FollowsTo(g, n, R, base, step)
           f == [n \in Nat |-> first(n)[n]]
<1>1. \A n \in Nat : FollowsTo(first(n), n, R, base, step)
  BY FirstValuesExist
<1> HIDE DEF first
<1>2. \A n \in Nat : first(n)[n] \in R
  BY <1>1 DEF FollowsTo
<1>3. f \in [Nat -> R] /\ f[0] = base
  BY <1>1, <1>2 DEF FollowsTo
<1>4. ASSUME NEW n \in Nat PROVE f[n + 1] = step[<<n, f[n]>>]
  <2>1. n + 1 \in Nat /\ n \in 0 .. (n + 1) - 1 /\ n <= n /\ n <= n + 1
    OBVIOUS
  <2>2. FollowsTo(first(n + 1), n + 1, R, base, step) /\ FollowsTo(first(n), n, R, base, step)
    BY <1>1, <2>1
  <2>3. first(n + 1)[n + 1] = step[<<n, first(n + 1)[n]>>]
    BY <2>1, <2>2 DEF FollowsTo
  <2>4. first(n + 1)[n] = first(n)[n]
    <3>1. ASSUME NEW u \in Nat, FollowsTo(first(u), u, R, base, step), n <= u
          PROVE  first(u)[n] = first(n)[n]
      <4>1. n <= n /\ FollowsTo(first(n), n, R, base, step)
        BY <2>2
      <4>2. QED
        BY <3>1, <4>1, FirstValuesAgree
    <3>2. QED
      BY <2>1, <2>2, <3>1
  <2>5. QED
    BY <2>1, <2>3, <2>4
<1> HIDE DEF f
<1>5. Follows(f, R, base, step)
  BY <1>3, <1>4 DEF Follows
<1>6. QED
  BY <1>5

-----------------------------------------------------------------------------
LEMMA PowerFacts ==
    /\ Power \in [Nat -> Nat \ {0}]
    /\ Power[0] = 1
    /\ \A k \in Nat : Power[k + 1] = CpuBase * Power[k]
<1> DEFINE R == Nat \ {0}
           step == [p \in Nat \X R |-> CpuBase * p[2]]
           equation(f) == [k \in Nat |-> IF k = 0 THEN 1 ELSE CpuBase * f[k - 1]]
<1>1. \A p \in Nat \X R : CpuBase * p[2] \in R
  BY CpuAssumption
<1>2. IsRule(R, 1, step)
  BY <1>1 DEF IsRule
<1>3. PICK f : Follows(f, R, 1, step)
  <2> HIDE DEF R, step
  <2>1. QED
    BY <1>2, RecursionExists
<1>4. f \in [Nat -> R] /\ f[0] = 1 /\ \A n \in Nat : f[n + 1] = CpuBase * f[n]
  BY <1>3 DEF Follows
<1>5. f = equation(f)
  <2>1. ASSUME NEW k \in Nat PROVE f[k] = IF k = 0 THEN 1 ELSE CpuBase * f[k - 1]
    <3>1. CASE k # 0
      <4>1. k - 1 \in Nat /\ (k - 1) + 1 = k
        BY <3>1
      <4>2. QED
        BY <1>4, <3>1, <4>1
    <3>2. QED
      BY <1>4, <3>1
  <2>2. QED
    BY <1>4, <2>1
<1>6. Power = equation(Power)
  <2>1. Power = CHOOSE g : g = equation(g)
    BY DEF Power
  <2>2. QED
    BY <1>5, <2>1
<1>7. Power[0] = 1 /\ \A k \in Nat : Power[k + 1] = CpuBase * Power[k]
  <2>1. \A k \in Nat : Power[k] = IF k = 0 THEN 1 ELSE CpuBase * Power[k - 1]
    BY <1>6
  <2>2. ASSUME NEW k \in Nat PROVE Power[k + 1] = CpuBase * Power[k]
    <3>1. k + 1 \in Nat /\ k + 1 # 0 /\ (k + 1) - 1 = k
      OBVIOUS
    <3>2. QED
      BY <2>1, <3>1
  <2>3. QED
    BY <2>1, <2>2
<1>8. \A k \in Nat : Power[k] \in R
  <2> DEFINE S == {k \in Nat : Power[k] \in R}
  <2>1. 0 \in S
    BY <1>7
  <2>2. \A k \in S : k + 1 \in S
    BY <1>7, CpuAssumption
  <2>3. S \in SUBSET Nat
    OBVIOUS
  <2> HIDE DEF S
  <2>4. S = Nat
    BY <2>1, <2>2, <2>3, NatSetInduction
  <2>5. QED
    BY <2>4 DEF S
<1>9. QED
  BY <1>6, <1>7, <1>8

LEMMA CpuTermsFacts ==
    ASSUME NEW cpu \in Nat
    PROVE  /\ CpuTerms(cpu, 0) = 0
           /\ \A k \in Nat : /\ CpuTerms(cpu, k) \in Nat
                             /\ CpuTerms(cpu, k + 1) = (CpuTerms(cpu, k) + Power[k]) * cpu
<1> DEFINE step == [p \in Nat \X Nat |-> (p[2] + Power[p[1]]) * cpu]
           equation(f) == [i \in Nat |-> IF i = 0 THEN 0 ELSE (f[i - 1] + Power[i - 1]) * cpu]
           terms == CHOOSE g : g = equation(g)
<1>1. IsRule(Nat, 0, step)
  <2>1. \A p \in Nat \X Nat : (p[2] + Power[p[1]]) * cpu \in Nat
    BY PowerFacts
  <2>2. QED
    BY <2>1 DEF IsRule
<1>2. PICK f : Follows(f, Nat, 0, step)
  <2> HIDE DEF step
  <2>1. QED
    BY <1>1, RecursionExists
<1>3. f \in [Nat -> Nat] /\ f[0] = 0 /\ \A n \in Nat : f[n + 1] = (f[n] + Power[n]) * cpu
  BY <1>2 DEF Follows
<1>4. f = equation(f)
  <2>1. ASSUME NEW k \in Nat PROVE f[k] = IF k = 0 THEN 0 ELSE (f[k - 1] + Power[k - 1]) * cpu
    <3>1. CASE k # 0
      <4>1. k - 1 \in Nat /\ (k - 1) + 1 = k
        BY <3>1
      <4>2. QED
        BY <1>3, <3>1, <4>1
    <3>2. QED
      BY <1>3, <3>1
  <2>2. QED
    BY <1>3, <2>1
<1>5. terms = equation(terms)
  BY <1>4
<1>6. \A k \in Nat : CpuTerms(cpu, k) = terms[k]
  BY DEF CpuTerms
<1> HIDE DEF terms
<1>7. terms[0] = 0 /\ \A k \in Nat : terms[k + 1] = (terms[k] + Power[k]) * cpu
  <2>1. \A k \in Nat : terms[k] = IF k = 0 THEN 0 ELSE (terms[k - 1] + Power[k - 1]) * cpu
    BY <1>5
  <2>2. ASSUME NEW k \in Nat PROVE terms[k + 1] = (terms[k] + Power[k]) * cpu
    <3>1. k + 1 \in Nat /\ k + 1 # 0 /\ (k + 1) - 1 = k
      OBVIOUS
    <3>2. QED
      BY <2>1, <3>1
  <2>3. QED
    BY <2>1, <2>2
<1>8. \A k \in Nat : terms[k] \in Nat
  <2> DEFINE S == {k \in Nat : terms[k] \in Nat}
  <2>1. 0 \in S
    BY <1>7
  <2>2. \A k \in S : k + 1 \in S
    BY <1>7, PowerFacts
  <2>3. S \in SUBSET Nat
    OBVIOUS
  <2> HIDE DEF S
  <2>4. S = Nat
    BY <2>1, <2>2, <2>3, NatSetInduction
  <2>5. QED
    BY <2>4 DEF S
<1>9. \A k \in Nat : k + 1 \in Nat
  OBVIOUS
<1>10. QED
  BY <1>6, <1>7, <1>8, <1>9

LEMMA Product ==
    ASSUME NEW a \in Nat, NEW b \in Nat, NEW c \in Nat, NEW d \in Nat, a <= c, b <= d
    PROVE  a * b \in Nat /\ a * b <= c * d
<1>1. a * b <= c * b
  BY SMT
<1>2. c * b <= c * d
  BY SMT
<1>3. a * b \in Nat /\ c * b \in Nat /\ c * d \in Nat
  BY SMT
<1>4. QED
  BY <1>1, <1>2, <1>3

\* More CPU, larger terms.
LEMMA CpuTermsGrow ==
    ASSUME NEW x \in Nat, NEW y \in Nat, x <= y
    PROVE  \A k \in Nat : CpuTerms(x, k) <= CpuTerms(y, k)
<1> DEFINE S == {k \in Nat : CpuTerms(x, k) <= CpuTerms(y, k)}
<1>1. 0 \in S
  BY CpuTermsFacts
<1>2. ASSUME NEW k \in S PROVE k + 1 \in S
  <2>1. /\ CpuTerms(x, k) \in Nat /\ CpuTerms(y, k) \in Nat /\ Power[k] \in Nat
        /\ CpuTerms(x, k) <= CpuTerms(y, k)
    BY CpuTermsFacts, PowerFacts
  <2> DEFINE a == CpuTerms(x, k) + Power[k]
             b == CpuTerms(y, k) + Power[k]
  <2>2. a \in Nat /\ b \in Nat /\ a <= b
    BY <2>1
  <2>3. CpuTerms(x, k + 1) = a * x /\ CpuTerms(y, k + 1) = b * y
    BY CpuTermsFacts
  <2> HIDE DEF a, b
  <2>4. a * x <= b * y
    BY <2>2, Product
  <2>5. QED
    BY <2>3, <2>4
<1>3. S \in SUBSET Nat
  OBVIOUS
<1> HIDE DEF S
<1>4. S = Nat
  BY <1>1, <1>2, <1>3, NatSetInduction
<1>5. QED
  BY <1>4 DEF S

\* The terms of a CPU under full load are all 1, those of an idle one 0.
LEMMA CpuTermsOfFull ==
    \A k \in Nat : CpuTerms(CpuBase, k) = k * Power[k] /\ CpuTerms(0, k) = 0
<1> DEFINE S == {k \in Nat : CpuTerms(CpuBase, k) = k * Power[k] /\ CpuTerms(0, k) = 0}
<1>1. 0 \in S
  BY CpuTermsFacts, PowerFacts, CpuAssumption
<1>2. ASSUME NEW k \in S PROVE k + 1 \in S
  <2> DEFINE p == Power[k]
  <2>1. p \in Nat /\ k \in Nat /\ CpuBase \in Nat
    BY PowerFacts, CpuAssumption
  <2>2. CpuTerms(CpuBase, k + 1) = (k * p + p) * CpuBase
    BY CpuTermsFacts, CpuAssumption
  <2>3. (k + 1) * Power[k + 1] = (k + 1) * (CpuBase * p)
    BY PowerFacts
  <2> HIDE DEF p
  <2>4. (k * p + p) * CpuBase = (k + 1) * (CpuBase * p)
    BY <2>1
  <2>5. CpuTerms(0, k + 1) = (CpuTerms(0, k) + p) * 0
    BY CpuTermsFacts DEF p
  <2>6. CpuTerms(0, k + 1) = 0
    BY <2>1, <2>5
  <2>7. QED
    BY <2>1, <2>2, <2>3, <2>4, <2>6
<1>3. S \in SUBSET Nat
  OBVIOUS
<1> HIDE DEF S
<1>4. S = Nat
  BY <1>1, <1>2, <1>3, NatSetInduction
<1>5. QED
  BY <1>4 DEF S

-----------------------------------------------------------------------------
\* The quotient is the only number that fits.
LEMMA QuotientIs ==
    ASSUME NEW n \in Nat, NEW m \in Nat \ {0}, NEW q \in Nat, m * q <= n, n < m * q + m
    PROVE  n \div m = q
<1> DEFINE u == n \div m
           r == n % m
<1>1. u \in Nat /\ r \in Nat /\ r < m /\ n = m * u + r
  BY Division
<1> HIDE DEF u, r
<1>2. ASSUME NEW a \in Nat, NEW b \in Nat, a < b PROVE m * a + m <= m * b
  <2>1. PICK d \in Nat : b = a + 1 + d
    <3>1. b - a - 1 \in Nat /\ b = a + 1 + (b - a - 1)
      BY <1>2
    <3>2. QED
      BY <3>1
  <2>2. m * (a + 1 + d) = m * a + m + m * d /\ m * d \in Nat /\ m * a \in Nat
    OBVIOUS
  <2>3. QED
    BY <2>1, <2>2
<1>3. m * u \in Nat /\ m * q \in Nat
  BY <1>1
<1>4. ~(u < q)
  <2>1. SUFFICES ASSUME u < q PROVE FALSE
    OBVIOUS
  <2>2. m * u + m <= m * q
    BY <1>1, <1>2, <2>1
  <2>3. QED
    BY <1>1, <1>3, <2>2
<1>5. ~(q < u)
  <2>1. SUFFICES ASSUME q < u PROVE FALSE
    OBVIOUS
  <2>2. m * q + m <= m * u
    BY <1>1, <1>2, <2>1
  <2>3. QED
    BY <1>1, <1>3, <2>2
<1>6. u = q
  BY <1>1, <1>4, <1>5
<1>7. QED
  BY <1>6 DEF u

LEMMA QuotientOfSum ==
    ASSUME NEW a \in Nat, NEW x \in Nat, NEW m \in Nat \ {0}
    PROVE  (a * m + x) \div m = a + (x \div m)
<1> DEFINE q == x \div m
           r == x % m
           n == a * m + x
<1>1. q \in Nat /\ r \in Nat /\ r < m /\ x = m * q + r
  BY Division
<1> HIDE DEF q, r
<1>2. m * (a + q) = a * m + m * q /\ m * q \in Nat /\ a * m \in Nat
  BY <1>1
<1>3. n \in Nat /\ m * (a + q) <= n /\ n < m * (a + q) + m
  BY <1>1, <1>2
<1> HIDE DEF n
<1>4. n \div m = a + q
  BY <1>1, <1>3, QuotientIs
<1>5. QED
  BY <1>4 DEF n, q

LEMMA QuotientGrows ==
    ASSUME NEW x \in Nat, NEW y \in Nat, x <= y, NEW m \in Nat \ {0}
    PROVE  x \div m <= y \div m
<1> DEFINE q == x \div m
           r == x % m
           d == y - x
           t == r + d
<1>1. q \in Nat /\ r \in Nat /\ x = m * q + r /\ d \in Nat /\ y = x + d
  BY Division
<1> HIDE DEF q, r, d
<1>2. t \in Nat
  BY <1>1
<1>3. m * q = q * m
  BY <1>1
<1>4. y = q * m + t
  BY <1>1, <1>3
<1> HIDE DEF t
<1>5. y \div m = q + (t \div m)
  <2>1. (q * m + t) \div m = q + (t \div m)
    BY <1>1, <1>2, QuotientOfSum
  <2>2. QED
    BY <1>4, <2>1
<1>6. t \div m \in Nat
  BY <1>2, Division
<1>7. QED
  BY <1>1, <1>5, <1>6 DEF q

LEMMA QuotientBound ==
    ASSUME NEW x \in Nat, NEW b \in Nat, NEW m \in Nat \ {0}, x <= b * m
    PROVE  x \div m <= b
<1> DEFINE y == b * m
<1>1. y \in Nat /\ y = b * m + 0
  OBVIOUS
<1>2. y \div m = b + (0 \div m)
  BY QuotientOfSum, <1>1
<1>3. 0 \div m = 0
  BY QuotientIs
<1> HIDE DEF y
<1>4. x <= y
  BY DEF y
<1>5. x \div m <= y \div m
  BY <1>1, <1>4, QuotientGrows
<1>6. QED
  BY <1>2, <1>3, <1>5, <1>1

\* A common factor may be left out.
LEMMA QuotientCancels ==
    ASSUME NEW a \in Nat, NEW b \in Nat \ {0}, NEW p \in Nat \ {0}
    PROVE  (a * p) \div (b * p) = a \div b
<1> DEFINE q == a \div b
           r == a % b
           n == a * p
           m == b * p
<1>1. q \in Nat /\ r \in Nat /\ r < b /\ a = b * q + r
  BY Division
<1> HIDE DEF q, r
<1>2. r * p + p <= b * p
  <2>1. PICK d \in Nat : b = r + 1 + d
    <3>1. b - r - 1 \in Nat /\ b = r + 1 + (b - r - 1)
      BY <1>1
    <3>2. QED
      BY <3>1
  <2>2. (r + 1 + d) * p = r * p + p + d * p /\ d * p \in Nat /\ r * p \in Nat
    BY <1>1
  <2>3. QED
    BY <2>1, <2>2
<1>3. n \in Nat /\ m \in Nat \ {0}
  BY SMT
<1>4. m * q = (b * q) * p
  BY <1>1
<1>5. n = (b * q) * p + r * p
  BY <1>1
<1>6. m * q <= n /\ n < m * q + m
  <2>1. r * p \in Nat /\ (b * q) * p \in Nat
    BY <1>1
  <2>2. QED
    BY <1>2, <1>4, <1>5, <2>1
<1> HIDE DEF n, m
<1>7. n \div m = q
  BY <1>1, <1>3, <1>6, QuotientIs
<1>8. QED
  BY <1>7 DEF n, m, q


-----------------------------------------------------------------------------
(* Node.load.                                                              *)

\* Rows of Node and Cluster, as far as the load is concerned.
NodeRecord == [attendees : Nat, meetings : Nat, cpu : 0 .. CpuBase, err : BOOLEAN, maint : BOOLEAN]
ClusterRecord == [a : Nat, m : Nat, iterations : Nat, max : Nat]

\* The part of the load that is due to the CPU.
Share(cpu, c) ==
    IF c.iterations = 0 THEN 0
    ELSE (CpuTerms(cpu, c.iterations - 1) * c.max) \div (c.iterations * Power[c.iterations - 1])

LEMMA ShareFacts ==
    ASSUME NEW cpu \in 0 .. CpuBase, NEW c \in ClusterRecord
    PROVE  /\ Share(cpu, c) \in 0 .. c.max
           /\ cpu = 0 => Share(cpu, c) = 0
           /\ cpu = CpuBase /\ c.iterations > 0
                => Share(cpu, c) = (c.max * (c.iterations - 1)) \div c.iterations
           /\ \A less \in 0 .. cpu : Share(less, c) <= Share(cpu, c)
<1>1. c.iterations \in Nat /\ c.max \in Nat /\ CpuBase \in Nat \ {0} /\ cpu \in Nat /\ cpu <= CpuBase
  BY CpuAssumption DEF ClusterRecord
<1>2. CASE c.iterations = 0
  BY <1>1, <1>2 DEF Share
<1>3. CASE c.iterations # 0
  <2> DEFINE k == c.iterations - 1
             p == Power[k]
             den == c.iterations * p
             full == k * p
  <2>1. k \in Nat /\ k + 1 = c.iterations
    BY <1>1, <1>3
  <2>2. p \in Nat \ {0}
    BY <2>1, PowerFacts
  <2>3. \A x \in 0 .. CpuBase :
           /\ CpuTerms(x, k) \in Nat /\ CpuTerms(x, k) <= full
           /\ \A y \in 0 .. x : CpuTerms(y, k) <= CpuTerms(x, k)
    <3>1. ASSUME NEW x \in 0 .. CpuBase
          PROVE  /\ CpuTerms(x, k) \in Nat /\ CpuTerms(x, k) <= full
                 /\ \A y \in 0 .. x : CpuTerms(y, k) <= CpuTerms(x, k)
      <4>1. x \in Nat /\ x <= CpuBase /\ CpuBase \in Nat
        BY <1>1
      <4>2. CpuTerms(x, k) \in Nat
        BY <2>1, <4>1, CpuTermsFacts
      <4>3. CpuTerms(x, k) <= CpuTerms(CpuBase, k)
        BY <2>1, <4>1, CpuTermsGrow
      <4>4. CpuTerms(CpuBase, k) = full
        BY <2>1, CpuTermsOfFull
      <4>5. ASSUME NEW y \in 0 .. x PROVE CpuTerms(y, k) <= CpuTerms(x, k)
        <5>1. y \in Nat /\ y <= x
          BY <4>1
        <5>2. QED
          BY <2>1, <4>1, <5>1, CpuTermsGrow
      <4>6. QED
        BY <4>2, <4>3, <4>4, <4>5
    <3>2. QED
      BY <3>1
  <2>4. full \in Nat /\ den \in Nat \ {0} /\ full <= den
    <3>1. (k + 1) * p = k * p + p /\ k * p \in Nat
      <4>1. \A a, b \in Nat : (a + 1) * b = a * b + b /\ a * b \in Nat
        OBVIOUS
      <4> HIDE DEF k, p
      <4>2. QED
        BY <2>1, <2>2, <4>1
    <3>2. QED
      BY <2>1, <2>2, <3>1
  <2>5. \A x : Share(x, c) = (CpuTerms(x, k) * c.max) \div den
    BY <1>3 DEF Share
  <2>6. Share(cpu, c) \in Nat /\ Share(cpu, c) <= c.max
    <3> DEFINE n == CpuTerms(cpu, k) * c.max
    <3>1. CpuTerms(cpu, k) \in Nat /\ CpuTerms(cpu, k) <= den
      BY <2>3, <2>4
    <3> HIDE DEF den
    <3>2. n \in Nat /\ n <= den * c.max
      BY <1>1, <2>4, <3>1, Product
    <3>3. den * c.max = c.max * den
      BY <1>1, <2>4
    <3> HIDE DEF n
    <3>4. n \div den \in Nat /\ n \div den <= c.max
      BY <1>1, <2>4, <3>2, <3>3, Division, QuotientBound
    <3>5. QED
      BY <2>5, <3>4 DEF n
  <2>7. ASSUME cpu = 0 PROVE Share(cpu, c) = 0
    <3>1. CpuTerms(0, k) = 0
      BY <2>1, CpuTermsOfFull
    <3> HIDE DEF den
    <3>2. 0 * c.max = 0 /\ 0 \div den = 0
      BY <1>1, <2>4, QuotientIs
    <3>3. QED
      BY <2>5, <2>7, <3>1, <3>2
  <2>8. ASSUME cpu = CpuBase PROVE Share(cpu, c) = (c.max * (c.iterations - 1)) \div c.iterations
    <3>1. CpuTerms(CpuBase, k) = k * p
      BY <2>1, CpuTermsOfFull
    <3>2. Share(cpu, c) = ((k * p) * c.max) \div (c.iterations * p)
      BY <2>5, <2>8, <3>1
    <3> HIDE DEF p, k
    <3>3. (k * p) * c.max = (c.max * k) * p /\ c.max * k \in Nat
      BY <1>1, <2>1, <2>2
    <3>4. ((c.max * k) * p) \div (c.iterations * p) = (c.max * k) \div c.iterations
      BY <1>1, <1>3, <2>2, <3>3, QuotientCancels
    <3>5. QED
      BY <3>2, <3>3, <3>4 DEF k
  <2>9. ASSUME NEW less \in 0 .. cpu PROVE Share(less, c) <= Share(cpu, c)
    <3> DEFINE x == CpuTerms(less, k) * c.max
               y == CpuTerms(cpu, k) * c.max
    <3>1. less \in 0 .. CpuBase
      BY <1>1
    <3>2. CpuTerms(less, k) \in Nat /\ CpuTerms(cpu, k) \in Nat /\ CpuTerms(less, k) <= CpuTerms(cpu, k)
      BY <2>3, <3>1
    <3>3. x \in Nat /\ y \in Nat /\ x <= y
      BY <1>1, <3>2, Product
    <3> HIDE DEF x, y, den
    <3>4. x \div den <= y \div den
      BY <2>4, <3>3, QuotientGrows
    <3>5. QED
      BY <2>5, <3>4 DEF x, y
  <2>10. QED
    BY <2>6, <2>7, <2>8, <2>9, <1>1
<1>4. QED
  BY <1>2, <1>3

\* What Node.load is: for a node that answers, its work and its share.
LEMMA LoadParts ==
    ASSUME NEW n, n.attendees \in Nat, n.meetings \in Nat, n.cpu \in 0 .. CpuBase,
           n.err \in BOOLEAN, n.maint \in BOOLEAN, NEW c \in ClusterRecord
    PROVE  /\ n.maint => Load(n, c) = -2
           /\ n.err /\ ~n.maint => Load(n, c) = -1
           /\ ~n.err /\ ~n.maint => /\ Load(n, c) = Work(n, c) + Share(n.cpu, c)
                                    /\ Load(n, c) \in Nat
           /\ Work(n, c) \in Nat
           /\ Load(n, c) \in Int
<1>1. Work(n, c) \in Nat
  <2>1. c.a \in Nat /\ c.m \in Nat
    BY DEF ClusterRecord
  <2>2. n.attendees * c.a \in Nat /\ n.meetings * c.m \in Nat
    BY <2>1
  <2>3. QED
    BY <2>2 DEF Work
<1>2. c.iterations \in Nat /\ c.max \in Nat /\ n.cpu \in Nat
  BY CpuAssumption DEF ClusterRecord
<1>3. Share(n.cpu, c) \in Nat
  BY <1>2, ShareFacts
<1>4. ASSUME ~n.err, ~n.maint PROVE Load(n, c) = Work(n, c) + Share(n.cpu, c)
  <2> DEFINE w == Work(n, c)
             k == c.iterations - 1
             den == c.iterations * Power[k]
             x == CpuTerms(n.cpu, k) * c.max
  <2>1. Load(n, c) = IF c.iterations = 0 THEN w ELSE (w * den + x) \div den
    BY <1>4 DEF Load
  <2>2. CASE c.iterations = 0
    BY <1>1, <2>1, <2>2 DEF Share
  <2>3. CASE c.iterations # 0
    <3>1. k \in Nat
      BY <1>2, <2>3
    <3>2. Power[k] \in Nat \ {0} /\ CpuTerms(n.cpu, k) \in Nat
      BY <1>2, <3>1, PowerFacts, CpuTermsFacts
    <3>3. den \in Nat \ {0} /\ x \in Nat
      BY <1>2, <2>3, <3>2
    <3>4. Share(n.cpu, c) = x \div den
      BY <2>3 DEF Share
    <3> HIDE DEF den, x, w
    <3>5. w \in Nat
      BY <1>1 DEF w
    <3>6. (w * den + x) \div den = w + (x \div den)
      BY <3>3, <3>5, QuotientOfSum
    <3>7. QED
      BY <2>1, <2>3, <3>4, <3>6 DEF w
  <2>4. QED
    BY <2>2, <2>3
<1>5. /\ n.maint => Load(n, c) = -2
      /\ n.err /\ ~n.maint => Load(n, c) = -1
  BY DEF Load
<1>6. QED
  BY <1>1, <1>3, <1>4, <1>5

(***************************************************************************)
(* Whatever the rows are, the load grows with the work and the CPU, and    *)
(* the share of the CPU keeps within its bounds (models.py:115-139).       *)
(***************************************************************************)
THEOREM LoadIsAlwaysOrdered ==
    ASSUME NEW n \in NodeRecord, NEW o \in NodeRecord, NEW c \in ClusterRecord
    PROVE  LoadIsOrdered(n, o, c)
<1> DEFINE up == [n EXCEPT !.err = FALSE, !.maint = FALSE]
<1>1. /\ up.attendees = n.attendees /\ up.meetings = n.meetings /\ up.cpu = n.cpu
      /\ up.err = FALSE /\ up.maint = FALSE
  BY DEF NodeRecord
<1>2. /\ n.attendees \in Nat /\ n.meetings \in Nat /\ n.cpu \in 0 .. CpuBase
      /\ o.attendees \in Nat /\ o.meetings \in Nat /\ o.cpu \in 0 .. CpuBase
      /\ o.err \in BOOLEAN /\ o.maint \in BOOLEAN
  BY DEF NodeRecord
<1>3. c.a \in Nat /\ c.m \in Nat /\ c.max \in Nat /\ c.iterations \in Nat
  BY DEF ClusterRecord
<1>4. LoadIsOrdered(n, o, c) <=>
        /\ (o.attendees <= n.attendees /\ o.meetings <= n.meetings /\ o.cpu <= n.cpu /\ ~o.err /\ ~o.maint)
              => Load(o, c) <= Load(up, c)
        /\ Load(up, c) - Work(up, c) \in 0 .. c.max
        /\ n.cpu = 0 => Load(up, c) - Work(up, c) = 0
  BY DEF LoadIsOrdered
<1> HIDE DEF up
<1>5. /\ Load(up, c) = Work(up, c) + Share(n.cpu, c)
      /\ Work(up, c) \in Nat
  BY <1>1, <1>2, LoadParts
<1>6. /\ Share(n.cpu, c) \in 0 .. c.max
      /\ n.cpu = 0 => Share(n.cpu, c) = 0
      /\ \A less \in 0 .. n.cpu : Share(less, c) <= Share(n.cpu, c)
  BY <1>2, ShareFacts
<1>7. Load(up, c) - Work(up, c) = Share(n.cpu, c)
  BY <1>3, <1>5, <1>6
<1>8. ASSUME o.attendees <= n.attendees, o.meetings <= n.meetings, o.cpu <= n.cpu, ~o.err, ~o.maint
      PROVE  Load(o, c) <= Load(up, c)
  <2>1. Load(o, c) = Work(o, c) + Share(o.cpu, c) /\ Work(o, c) \in Nat
    BY <1>2, <1>8, LoadParts
  <2>2. Share(o.cpu, c) <= Share(n.cpu, c) /\ Share(o.cpu, c) \in Nat
    <3>1. o.cpu \in 0 .. n.cpu
      BY <1>2, <1>8, CpuAssumption
    <3>2. Share(o.cpu, c) \in 0 .. c.max
      BY <1>2, ShareFacts
    <3>3. QED
      BY <1>3, <1>6, <3>1, <3>2
  <2>3. Work(o, c) <= Work(up, c)
    <3>1. /\ o.attendees * c.a <= n.attendees * c.a /\ o.meetings * c.m <= n.meetings * c.m
          /\ o.attendees * c.a \in Nat /\ o.meetings * c.m \in Nat
          /\ n.attendees * c.a \in Nat /\ n.meetings * c.m \in Nat
      BY <1>2, <1>3, <1>8, Product
    <3>2. QED
      BY <1>1, <3>1 DEF Work
  <2>4. QED
    BY <1>3, <1>5, <1>6, <2>1, <2>2, <2>3
<1>9. QED
  BY <1>4, <1>6, <1>7, <1>8

-----------------------------------------------------------------------------
(* Sets of nodes.                                                          *)

IsNode(n) ==
    /\ n.attendees \in Nat /\ n.meetings \in Nat /\ n.cpu \in 0 .. CpuBase
    /\ n.err \in BOOLEAN /\ n.maint \in BOOLEAN

LEMMA PickableAre ==
    ASSUME NEW nodes, \A n \in nodes : IsNode(n), NEW c \in ClusterRecord
    PROVE  Pickable(nodes, c) = Available(nodes)
<1>1. ASSUME NEW n \in nodes PROVE 0 <= Load(n, c) <=> ~n.err /\ ~n.maint
  <2>1. /\ n.err \in BOOLEAN /\ n.maint \in BOOLEAN
        /\ n.maint => Load(n, c) = -2
        /\ n.err /\ ~n.maint => Load(n, c) = -1
        /\ ~n.err /\ ~n.maint => Load(n, c) \in Nat
    BY LoadParts DEF IsNode
  <2>2. QED
    BY <2>1
<1>2. QED
  BY <1>1 DEF Pickable, Available

(***************************************************************************)
(* In every cluster the nodes the dashboard calls online are those a       *)
(* create may pick, and its chart shows their load, less one for each node *)
(* in error and two in maintenance (dashboard.py:15, 65-68, api.py:559).   *)
(***************************************************************************)
THEOREM AvailableIsAlwaysPickable ==
    ASSUME NEW nodes, IsFiniteSet(nodes), \A n \in nodes : IsNode(n), NEW c \in ClusterRecord
    PROVE  AvailableIsPickable(nodes, c)
<1> DEFINE A == Available(nodes)
           M == {n \in nodes : n.maint}
           E == {n \in nodes : NodeStatus(n) = "Error"}
           load == [n \in nodes |-> Load(n, c)]
<1>1. Pickable(nodes, c) = A
  BY PickableAre
<1>2. A = {n \in nodes : NodeStatus(n) = "Online"}
  BY DEF Available, NodeStatus, IsNode
<1>3. \A n \in nodes : /\ n \in M => Load(n, c) = -2
                       /\ n \in E => Load(n, c) = -1
                       /\ Load(n, c) \in Int
                       /\ n \in A <=> Load(n, c) >= 0
  <2>1. ASSUME NEW n \in nodes
        PROVE  /\ n \in M => Load(n, c) = -2
               /\ n \in E => Load(n, c) = -1
               /\ Load(n, c) \in Int
               /\ n \in A <=> Load(n, c) >= 0
    <3>1. /\ n.err \in BOOLEAN /\ n.maint \in BOOLEAN
          /\ n.maint => Load(n, c) = -2
          /\ n.err /\ ~n.maint => Load(n, c) = -1
          /\ ~n.err /\ ~n.maint => Load(n, c) \in Nat
          /\ Load(n, c) \in Int
      BY LoadParts DEF IsNode
    <3>2. /\ n \in M <=> n.maint
          /\ n \in E <=> ~n.maint /\ n.err
          /\ n \in A <=> ~n.err /\ ~n.maint
      BY <3>1 DEF NodeStatus, Available
    <3> HIDE DEF M, E, A
    <3>3. QED
      BY <3>1, <3>2
  <2>2. QED
    BY <2>1
<1>4. /\ A \in SUBSET nodes /\ M \in SUBSET nodes /\ E \in SUBSET nodes
      /\ A \cap M = {} /\ (A \cup M) \cap E = {} /\ (A \cup M) \cup E = nodes
  BY DEF Available, NodeStatus, IsNode
<1>5. load \in [nodes -> Int]
  BY <1>3
<1>6. {n \in nodes : LoadValues(nodes, c)[n][1] >= 0} = A
  <2>1. \A n \in nodes : LoadValues(nodes, c)[n][1] = Load(n, c)
    BY DEF LoadValues
  <2>2. A \in SUBSET nodes
    BY <1>4
  <2> HIDE DEF A
  <2>3. QED
    BY <1>3, <2>1, <2>2
<1>7. ClusterLoad(nodes, c) = SumFunctionOnSet(load, nodes)
  BY DEF ClusterLoad, SumFunction
<1>8. ClusterLoad(A, c) = SumFunctionOnSet(load, A)
  <2> DEFINE some == [n \in A |-> Load(n, c)]
  <2>1. /\ some \in [A -> Int] /\ \A n \in A : some[n] = load[n]
        /\ DOMAIN some = A
    BY <1>3, <1>4
  <2>2. ClusterLoad(A, c) = SumFunctionOnSet(some, A)
    BY <2>1 DEF ClusterLoad, SumFunction
  <2>3. IsFiniteSet(A) /\ A \subseteq A /\ A \subseteq nodes
    BY <1>4, FS_Subset
  <2> HIDE DEF A, some, load
  <2>4. SumFunctionOnSet(some, A) = SumFunctionOnSet(load, A)
    BY <1>5, <2>1, <2>3, SumSame
  <2>5. QED
    BY <2>2, <2>4
<1>9. /\ \A n \in M : load[n] = -2
      /\ \A n \in E : load[n] = -1
  BY <1>3, <1>4
<1> DEFINE AM == A \cup M
<1>10. Cardinality(M) \in Nat /\ Cardinality(E) \in Nat
  BY <1>4, FS_Subset, FS_CardinalityType
<1>11. /\ NodeCounts(nodes).active = Cardinality(A)
       /\ NodeCounts(nodes).maintenance = Cardinality(M)
  BY DEF NodeCounts
<1>12. SumFunctionOnSet(load, nodes)
         = SumFunctionOnSet(load, A) - 2 * Cardinality(M) - Cardinality(E)
  <2>1. AM \in SUBSET nodes /\ AM \cap E = {} /\ AM \cup E = nodes
    BY <1>4
  <2> HIDE DEF load, A, M, E
  <2>2. SumFunctionOnSet(load, AM) = SumFunctionOnSet(load, A) + SumFunctionOnSet(load, M)
    BY <1>4, <1>5, SumUnion
  <2> HIDE DEF AM
  <2>3. SumFunctionOnSet(load, AM \cup E) = SumFunctionOnSet(load, AM) + SumFunctionOnSet(load, E)
    BY <1>4, <1>5, <2>1, SumUnion
  <2>4. SumFunctionOnSet(load, nodes) = SumFunctionOnSet(load, AM) + SumFunctionOnSet(load, E)
    BY <2>1, <2>3
  <2>5. SumFunctionOnSet(load, M) = (-2) * Cardinality(M)
    BY <1>4, <1>5, <1>9, SumOfEqual
  <2>6. SumFunctionOnSet(load, E) = (-1) * Cardinality(E)
    BY <1>4, <1>5, <1>9, SumOfEqual
  <2>7. SumFunctionOnSet(load, A) \in Int
    BY <1>4, <1>5, SumFacts
  <2>8. QED
    BY <1>10, <2>2, <2>4, <2>5, <2>6, <2>7
<1>13. QED
  <2>1. ClusterLoad(nodes, c) = ClusterLoad(A, c) - 2 * Cardinality(M) - Cardinality(E)
    BY <1>7, <1>8, <1>12
  <2>2. Cardinality({n \in nodes : LoadValues(nodes, c)[n][1] >= 0}) = Cardinality(A)
    BY ONLY <1>6
  <2>3. AvailableIsPickable(nodes, c) <=>
          /\ A = Pickable(nodes, c)
          /\ Pickable(nodes, c) = {n \in nodes : NodeStatus(n) = "Online"}
          /\ NodeCounts(nodes).active = Cardinality({n \in nodes : LoadValues(nodes, c)[n][1] >= 0})
          /\ ClusterLoad(nodes, c) = ClusterLoad(Pickable(nodes, c), c) - 2 * NodeCounts(nodes).maintenance
                                       - Cardinality(E)
    BY DEF AvailableIsPickable
  <2> HIDE DEF A, M, E
  <2>4. ClusterLoad(nodes, c) = ClusterLoad(Pickable(nodes, c), c) - 2 * NodeCounts(nodes).maintenance
                                       - Cardinality(E)
    BY <1>1, <1>11, <2>1
  <2>5. NodeCounts(nodes).active = Cardinality({n \in nodes : LoadValues(nodes, c)[n][1] >= 0})
    BY <1>11, <2>2
  <2>6. Pickable(nodes, c) = {n \in nodes : NodeStatus(n) = "Online"}
    BY <1>1, <1>2
  <2>7. QED
    BY <1>1, <2>3, <2>4, <2>5, <2>6


\* A sequence without repetitions names as many clusters as it is long.
LEMMA EachOnce ==
    ASSUME NEW K, NEW r \in Seq(K), Cardinality(ToSet(r)) = Len(r)
    PROVE  \A i, j \in DOMAIN r : i # j => r[i] # r[j]
<1>1. DOMAIN r = 1 .. Len(r) /\ Len(r) \in Nat
  OBVIOUS
<1>2. IsFiniteSet(DOMAIN r) /\ Cardinality(DOMAIN r) = Len(r)
  <2> DEFINE n == Len(r)
  <2>1. n \in Nat /\ 1 \in Int /\ n \in Int /\ DOMAIN r = 1 .. n
    BY <1>1
  <2> HIDE DEF n
  <2>2. IsFiniteSet(1 .. n) /\ Cardinality(1 .. n) = IF 1 > n THEN 0 ELSE n - 1 + 1
    BY <2>1, FS_Interval
  <2>3. Cardinality(1 .. n) = n
    BY <2>1, <2>2
  <2>4. IsFiniteSet(DOMAIN r) /\ Cardinality(DOMAIN r) = n
    BY ONLY <2>1, <2>2, <2>3
  <2>5. QED
    BY <2>4 DEF n
<1>3. r \in Surjection(DOMAIN r, ToSet(r))
  BY DEF ToSet, Surjection
<1>4. r \in Injection(DOMAIN r, ToSet(r))
  BY <1>2, <1>3, FS_Surjection
<1>5. QED
  BY <1>4 DEF Injection, IsInjective

(***************************************************************************)
(* The line of a cluster group counts available nodes if and only if a     *)
(* create may pick one in the group, never fewer than it may pick, and as  *)
(* many where no cluster is related twice (admin.py:137-167).              *)
(***************************************************************************)
THEOREM GroupsAlwaysShowTheirNodes ==
    ASSUME NEW K, NEW relations \in Seq(K), NEW nodes, IsFiniteSet(nodes),
           \A n \in nodes : IsNode(n), NEW c \in ClusterRecord
    PROVE  GroupsShowTheirNodes(relations, nodes, c)
<1> DEFINE D == DOMAIN relations
           at(i) == OfCluster(nodes, relations[i])
           A == [i \in D |-> Available(at(i))]
           M(i) == {n \in at(i) : n.maint}
           E(i) == {n \in at(i) : n.err}
           active == [i \in D |-> Cardinality(A[i])]
           maint == [i \in D |-> Cardinality(M(i))]
           errors == [i \in D |-> Cardinality(E(i))]
           all == [i \in D |-> Cardinality(at(i))]
           line == GroupLine(relations, nodes)
           choice == UNION {Pickable(OfCluster(nodes, k), c) : k \in ToSet(relations)}
<1>1. D = 1 .. Len(relations) /\ IsFiniteSet(D)
  <2>1. D = 1 .. Len(relations) /\ Len(relations) \in Nat
    OBVIOUS
  <2>2. QED
    BY <2>1, FS_Interval
<1>2. \A i \in D : /\ at(i) \in SUBSET nodes /\ A[i] \in SUBSET nodes
                   /\ M(i) \in SUBSET nodes /\ E(i) \in SUBSET nodes
                   /\ at(i) \subseteq A[i] \cup (M(i) \cup E(i))
  BY DEF OfCluster, Available
<1>3. \A i \in D : /\ IsFiniteSet(at(i)) /\ IsFiniteSet(A[i]) /\ IsFiniteSet(M(i)) /\ IsFiniteSet(E(i))
                   /\ Cardinality(at(i)) \in Nat /\ Cardinality(A[i]) \in Nat
                   /\ Cardinality(M(i)) \in Nat /\ Cardinality(E(i)) \in Nat
  BY <1>2, FS_Subset, FS_CardinalityType
<1>4. /\ active \in [D -> Int] /\ maint \in [D -> Int] /\ errors \in [D -> Int] /\ all \in [D -> Int]
      /\ \A i \in D : active[i] \in Nat /\ maint[i] \in Nat /\ errors[i] \in Nat
      /\ \A i \in D : active[i] = Cardinality(A[i])
  <2> HIDE DEF A, M, E, at, D
  <2>1. active \in [D -> Nat] /\ \A i \in D : active[i] = Cardinality(A[i])
    BY <1>3
  <2>2. maint \in [D -> Nat]
    BY <1>3
  <2>3. errors \in [D -> Nat]
    BY <1>3
  <2>4. all \in [D -> Nat]
    BY <1>3
  <2> HIDE DEF active, maint, errors, all
  <2>5. QED
    BY <2>1, <2>2, <2>3, <2>4
<1>5. \A i \in D : all[i] <= active[i] + (maint[i] + errors[i])
  <2>1. ASSUME NEW i \in D PROVE all[i] <= active[i] + (maint[i] + errors[i])
    <3> DEFINE me == M(i) \cup E(i)
    <3>1. /\ IsFiniteSet(A[i]) /\ IsFiniteSet(M(i)) /\ IsFiniteSet(E(i)) /\ at(i) \subseteq A[i] \cup me
      BY <1>2, <1>3
    <3>2. /\ IsFiniteSet(me)
          /\ Cardinality(me) = Cardinality(M(i)) + Cardinality(E(i)) - Cardinality(M(i) \cap E(i))
      BY <3>1, FS_Union
    <3>3. IsFiniteSet(M(i) \cap E(i)) /\ Cardinality(M(i) \cap E(i)) \in Nat
      BY <3>1, FS_Intersection, FS_CardinalityType
    <3> HIDE DEF me, A, M, E
    <3>4. /\ IsFiniteSet(A[i] \cup me)
          /\ Cardinality(A[i] \cup me) = Cardinality(A[i]) + Cardinality(me) - Cardinality(A[i] \cap me)
      BY <3>1, <3>2, FS_Union
    <3>5. IsFiniteSet(A[i] \cap me) /\ Cardinality(A[i] \cap me) \in Nat
      BY <3>1, <3>2, FS_Intersection, FS_CardinalityType
    <3> HIDE DEF at
    <3>6. Cardinality(at(i)) <= Cardinality(A[i] \cup me)
      BY <3>1, <3>4, FS_Subset
    <3>7. Cardinality(at(i)) <= Cardinality(A[i]) + (Cardinality(M(i)) + Cardinality(E(i)))
      BY <1>3, <3>2, <3>3, <3>4, <3>5, <3>6
    <3>8. QED
      BY <3>7
  <2>2. QED
    BY <2>1
<1>6. /\ line.active = SumFunctionOnSet(active, D)
      /\ line.maintenance = SumFunctionOnSet(maint, D)
      /\ line.errors = SumFunctionOnSet(errors, D)
      /\ line.nodes = SumFunctionOnSet(all, D)
  <2>1. ASSUME NEW i \in D
        PROVE  /\ ClusterLine(at(i))["active"] = active[i]
               /\ ClusterLine(at(i))["maintenance"] = maint[i]
               /\ ClusterLine(at(i))["errors"] = errors[i]
               /\ ClusterLine(at(i))["nodes"] = all[i]
    BY DEF ClusterLine, NodeCounts
  <2>2. /\ [i \in D |-> ClusterLine(at(i))["active"]] = active
        /\ [i \in D |-> ClusterLine(at(i))["maintenance"]] = maint
        /\ [i \in D |-> ClusterLine(at(i))["errors"]] = errors
        /\ [i \in D |-> ClusterLine(at(i))["nodes"]] = all
    <3> HIDE DEF at
    <3>1. QED
      BY <2>1
  <2>3. \A count \in {"nodes", "active", "maintenance", "errors"} :
            line[count] = SumFunction([i \in D |-> ClusterLine(at(i))[count]])
    BY DEF GroupLine
  <2>4. /\ line.active = SumFunction(active) /\ line.maintenance = SumFunction(maint)
        /\ line.errors = SumFunction(errors) /\ line.nodes = SumFunction(all)
    <3> HIDE DEF line, active, maint, errors, all, D
    <3>1. QED
      BY <2>2, <2>3
  <2>5. DOMAIN active = D /\ DOMAIN maint = D /\ DOMAIN errors = D /\ DOMAIN all = D
    OBVIOUS
  <2> HIDE DEF line, active, maint, errors, all, D
  <2>6. QED
    BY <2>4, <2>5 DEF SumFunction
<1>7. choice = UNION {A[i] : i \in D}
  <2>1. \A i \in D : A[i] = Pickable(OfCluster(nodes, relations[i]), c)
    <3>1. ASSUME NEW i \in D PROVE Pickable(at(i), c) = Available(at(i))
      <4>1. \A n \in at(i) : IsNode(n)
        BY <1>2
      <4> HIDE DEF at
      <4>2. QED
        BY <4>1, PickableAre
    <3>2. QED
      BY <3>1
  <2>2. ToSet(relations) = {relations[i] : i \in D}
    BY DEF ToSet
  <2> HIDE DEF A
  <2>3. QED
    BY <2>1, <2>2
<1>8. Cardinality(choice) <= SumFunctionOnSet(active, D)
  <2>1. A \in [D -> SUBSET nodes]
    BY <1>2
  <2>2. IsFiniteSet(D) /\ active \in [D -> Int] /\ \A i \in D : active[i] = Cardinality(A[i])
    BY <1>1, <1>4
  <2> HIDE DEF A, active, choice, D
  <2>3. Cardinality(UNION {A[i] : i \in D}) <= SumFunctionOnSet(active, D)
    BY <2>1, <2>2, UnionAtMost
  <2>4. QED
    BY ONLY <1>7, <2>3
<1>9. ASSUME Cardinality(ToSet(relations)) = Len(relations)
      PROVE  Cardinality(choice) = SumFunctionOnSet(active, D)
  <2>1. A \in [D -> SUBSET nodes]
    BY <1>2
  <2>2. \A i, j \in D : i # j => A[i] \cap A[j] = {}
    <3>1. \A i, j \in D : i # j => relations[i] # relations[j]
      BY <1>9, EachOnce
    <3>2. QED
      BY <3>1 DEF OfCluster, Available
  <2>3. IsFiniteSet(D) /\ active \in [D -> Int] /\ \A i \in D : active[i] = Cardinality(A[i])
    BY <1>1, <1>4
  <2> HIDE DEF A, active, choice, D
  <2>4. Cardinality(UNION {A[i] : i \in D}) = SumFunctionOnSet(active, D)
    BY <2>1, <2>2, <2>3, UnionOfDisjoint
  <2>5. QED
    BY ONLY <1>7, <2>4
<1>10. SumFunctionOnSet(active, D) = 0 <=> choice = {}
  <2>1. SumFunctionOnSet(active, D) = 0 <=> \A i \in D : active[i] = 0
    <3>1. /\ IsFiniteSet(D) /\ active \in [D -> Int] /\ D \in SUBSET D
          /\ \A i \in D : active[i] \in Nat
      BY <1>1, <1>4
    <3> HIDE DEF D, active
    <3>2. QED
      BY <3>1, SumOfNaturals
  <2>2. \A i \in D : active[i] = 0 <=> A[i] = {}
    <3> HIDE DEF A
    <3>1. QED
      BY <1>3, FS_EmptySet
  <2> HIDE DEF A, active, choice
  <2>3. QED
    BY <1>7, <2>1, <2>2
<1>11. line.nodes <= line.active + line.maintenance + line.errors
  <2> DEFINE bad == [i \in D |-> maint[i] + errors[i]]
             any == [i \in D |-> active[i] + bad[i]]
  <2>1. /\ bad \in [D -> Int] /\ any \in [D -> Int]
        /\ \A i \in D : bad[i] = maint[i] + errors[i]
        /\ \A i \in D : any[i] = active[i] + bad[i]
        /\ \A i \in D : all[i] <= any[i]
        /\ D \in SUBSET D /\ IsFiniteSet(D)
        /\ active \in [D -> Int] /\ maint \in [D -> Int] /\ errors \in [D -> Int] /\ all \in [D -> Int]
    <3> HIDE DEF active, maint, errors, all, D
    <3>1. QED
      BY <1>1, <1>4, <1>5
  <2> HIDE DEF active, maint, errors, all, D, bad, any, line
  <2>2. SumFunctionOnSet(bad, D) = SumFunctionOnSet(maint, D) + SumFunctionOnSet(errors, D)
    <3>1. /\ bad \in [D -> Int] /\ maint \in [D -> Int] /\ errors \in [D -> Int]
          /\ D \in SUBSET D /\ IsFiniteSet(D) /\ AddsUp(bad, maint, errors, D)
      BY <2>1 DEF AddsUp
    <3>2. QED
      BY ONLY <3>1, SumOfSums
  <2>3. SumFunctionOnSet(any, D) = SumFunctionOnSet(active, D) + SumFunctionOnSet(bad, D)
    <3>1. /\ any \in [D -> Int] /\ active \in [D -> Int] /\ bad \in [D -> Int]
          /\ D \in SUBSET D /\ IsFiniteSet(D) /\ AddsUp(any, active, bad, D)
      BY <2>1 DEF AddsUp
    <3>2. QED
      BY ONLY <3>1, SumOfSums
  <2>4. SumFunctionOnSet(all, D) <= SumFunctionOnSet(any, D)
    BY ONLY <2>1, SumAtMost
  <2>5. /\ SumFunctionOnSet(active, D) \in Int /\ SumFunctionOnSet(maint, D) \in Int
        /\ SumFunctionOnSet(errors, D) \in Int /\ SumFunctionOnSet(all, D) \in Int
    BY <1>1, <1>4, SumFacts
  <2>6. QED
    BY <1>6, <2>2, <2>3, <2>4, <2>5
<1>12. QED
  <2>1. GroupsShowTheirNodes(relations, nodes, c) <=>
          /\ line.active >= Cardinality(choice)
          /\ line.active = 0 <=> choice = {}
          /\ Cardinality(ToSet(relations)) = Len(relations) => line.active = Cardinality(choice)
          /\ line.nodes <= line.active + line.maintenance + line.errors
    BY DEF GroupsShowTheirNodes
  <2>2. choice \in SUBSET nodes /\ Cardinality(choice) \in Nat
    <3>1. choice \in SUBSET nodes
      BY DEF OfCluster, Pickable
    <3> HIDE DEF choice
    <3>2. QED
      BY <3>1, FS_Subset, FS_CardinalityType
  <2>3. SumFunctionOnSet(active, D) \in Int
    <3> HIDE DEF active, D
    <3>1. QED
      BY <1>1, <1>4, SumFacts
  <2> HIDE DEF active, D, line, choice
  <2>4. QED
    BY <1>6, <1>8, <1>9, <1>10, <1>11, <2>1, <2>2, <2>3

-----------------------------------------------------------------------------
(* The load agent.                                                         *)

LEMMA Utilised ==
    ASSUME NEW idle \in Nat, NEW total \in Nat, 0 < total, idle <= total
    PROVE  Utilisation(idle, total) \in 0 .. CpuBase
<1> DEFINE n == CpuBase * (total - idle)
<1>1. n \in Nat /\ n <= CpuBase * total
  <2>1. \A b, t, i \in Nat : i <= t => b * (t - i) \in Nat /\ b * (t - i) <= b * t
    OBVIOUS
  <2>2. QED
    BY <2>1, CpuAssumption
<1>2. n \div total \in Nat
  <2> HIDE DEF n
  <2>1. QED
    BY <1>1, Division
<1>3. n \div total <= CpuBase
  <2> HIDE DEF n
  <2>1. QED
    BY <1>1, CpuAssumption, QuotientBound
<1>4. QED
  BY <1>2, <1>3, CpuAssumption DEF Utilisation

\* The place of the i-th sample in the lists.
Place(i) == ((i - 1) % LongTerm) + 1

LEMMA PlaceFacts ==
    ASSUME NEW i \in Nat \ {0}
    PROVE  /\ Place(i) \in 1 .. LongTerm
           /\ NextIndex(Place(i)) = Place(i + 1)
           /\ i <= LongTerm => Place(i) = i
           /\ Place(i + LongTerm) = Place(i)
           /\ \A j \in Nat : i < j /\ j < i + LongTerm => Place(j) # Place(i)
<1> DEFINE p == i - 1
           q == p \div LongTerm
           r == p % LongTerm
<1>0. LongTerm \in Nat \ {0} /\ p \in Nat /\ p + 1 = i
  BY CpuAssumption
<1> HIDE DEF p
<1>1. q \in Nat /\ r \in Nat /\ r < LongTerm /\ p = LongTerm * q + r
  BY <1>0, Division
<1>2. Place(i) = r + 1
  BY DEF Place, p
<1>3. NextIndex(Place(i)) = Place(i + 1)
  <2>1. (r + 1) % LongTerm = (p + 1) % LongTerm
    BY <1>0, AddModulo
  <2>2. (i + 1) - 1 = p + 1
    BY <1>0
  <2> HIDE DEF r
  <2>3. QED
    BY <1>2, <2>1, <2>2 DEF NextIndex, Place
<1>4. i <= LongTerm => Place(i) = i
  <2>1. ASSUME i <= LongTerm PROVE r = p
    <3>1. p < LongTerm /\ p = LongTerm * 0 + p
      BY <1>0, <2>1
    <3>2. QED
      BY <1>0, <3>1, RemainderUnique
  <2>2. QED
    BY <1>0, <1>2, <2>1
<1>5. Place(i + LongTerm) = Place(i)
  <2> DEFINE n == p + LongTerm
             w == q + 1
  <2>1. n \in Nat /\ n = LongTerm * w + r /\ w \in Nat
    BY <1>0, <1>1
  <2>2. (i + LongTerm) - 1 = n
    BY <1>0
  <2> HIDE DEF n, q, r, w
  <2>3. n % LongTerm = r
    BY <1>0, <1>1, <2>1, RemainderUnique
  <2>4. QED
    BY <1>2, <2>2, <2>3 DEF Place
<1>6. ASSUME NEW j \in Nat, i < j, j < i + LongTerm, Place(j) = Place(i) PROVE FALSE
  <2> DEFINE u == (j - 1) \div LongTerm
             n == j - 1
  <2>1. n \in Nat /\ p < n /\ n < p + LongTerm
    BY <1>0, <1>6
  <2>2. n % LongTerm = r
    BY <1>2, <1>6, <1>1, <1>0, CpuAssumption, <2>1, Division DEF Place
  <2> HIDE DEF n
  <2>3. u \in Nat /\ n = LongTerm * u + r
    BY <1>0, <2>1, <2>2, Division DEF n
  <2> HIDE DEF u, q, r
  <2>4. LongTerm * (u - q) = n - p
    <3>1. LongTerm * (u - q) = LongTerm * u - LongTerm * q
      BY <1>0, <1>1, <2>3
    <3>2. LongTerm * u \in Nat /\ LongTerm * q \in Nat
      BY <1>0, <1>1, <2>3
    <3>3. QED
      BY <1>0, <1>1, <2>1, <2>3, <3>1, <3>2
  <2>5. u - q > 0
    <3>1. \A l \in Nat, d \in Int : d <= 0 => l * d <= 0
      OBVIOUS
    <3>2. QED
      BY <1>0, <1>1, <2>1, <2>3, <2>4, <3>1
  <2>6. LongTerm * (u - q) >= LongTerm
    <3>1. \A l \in Nat, d \in Int : d > 0 => l * d >= l
      OBVIOUS
    <3>2. QED
      BY <1>0, <1>1, <2>3, <2>5, <3>1
  <2>7. QED
    BY <1>0, <2>1, <2>4, <2>6
<1>7. QED
  BY <1>0, <1>1, <1>2, <1>3, <1>4, <1>5, <1>6

\* A sum after one of its values has been replaced.
LEMMA SumReplaced ==
    ASSUME NEW V, IsFiniteSet(V), NEW f \in [V -> Int], NEW g \in [V -> Int], NEW x \in V,
           \A y \in V \ {x} : f[y] = g[y]
    PROVE  SumFunctionOnSet(g, V) = SumFunctionOnSet(f, V) - f[x] + g[x]
<1> DEFINE rest == V \ {x}
<1>1. /\ f[x] \in Int /\ g[x] \in Int /\ \A y \in rest : f[y] = g[y]
      /\ rest \in SUBSET V /\ V \in SUBSET V /\ IsFiniteSet(rest)
  BY FS_Subset
<1>2. /\ SumFunctionOnSet(f, V) = f[x] + SumFunctionOnSet(f, rest)
      /\ SumFunctionOnSet(g, V) = g[x] + SumFunctionOnSet(g, rest)
      /\ SumFunctionOnSet(f, rest) \in Int
  BY <1>1, SumFacts
<1> HIDE DEF rest
<1>3. SumFunctionOnSet(f, rest) = SumFunctionOnSet(g, rest)
  BY <1>1, SumSame
<1>4. QED
  BY <1>1, <1>2, <1>3

\* The sum of such a list is what the counter has grown by, and one for each
\* place that has no difference yet where these hold a 1.
SumsTo(sum, c, k, b) ==
    /\ k <= LongTerm /\ b = 0 => sum = c[k] - c[0]
    /\ k <= LongTerm /\ b = 1 => sum = (c[k] - c[0]) + (LongTerm - k)
    /\ k > LongTerm => sum = c[k] - c[k - LongTerm]

\* The list holds the last differences of the counter c, up to that of the
\* k-th sample, and b where there was none yet.
Holds(list, c, k, b) ==
    /\ list \in [1 .. LongTerm -> Nat]
    /\ \A i \in 1 .. k : k < i + LongTerm => list[Place(i)] = c[i] - c[i - 1]
    /\ \A j \in 1 .. LongTerm : k < j => list[j] = b
    /\ SumsTo(SumFunctionOnSet(list, 1 .. LongTerm), c, k, b)

LEMMA ListMoves ==
    ASSUME NEW c \in [Nat -> Nat], NEW k \in Nat, c[k] <= c[k + 1],
           NEW b \in {0, 1}, NEW list, Holds(list, c, k, b)
    PROVE  Holds([list EXCEPT ![Place(k + 1)] = c[k + 1] - c[k]], c, k + 1, b)
<1> DEFINE x == Place(k + 1)
           v == c[k + 1] - c[k]
           new == [list EXCEPT ![x] = v]
           V == 1 .. LongTerm
<1>1. LongTerm \in Nat \ {0} /\ k + 1 \in Nat \ {0} /\ v \in Nat /\ x \in V /\ list \in [V -> Nat]
  <2>1. LongTerm \in Nat \ {0} /\ k + 1 \in Nat \ {0} /\ v \in Nat /\ list \in [V -> Nat]
    <3>1. list \in [V -> Nat]
      BY Zenon DEF Holds
    <3>2. c[k] \in Nat /\ c[k + 1] \in Nat
      OBVIOUS
    <3>3. v \in Nat
      BY <3>2
    <3>4. LongTerm \in Nat \ {0} /\ k + 1 \in Nat \ {0}
      BY CpuAssumption
    <3> HIDE DEF V, v
    <3>5. QED
      BY <3>1, <3>3, <3>4
  <2>2. x \in V
    BY <2>1, PlaceFacts
  <2>3. QED
    BY <2>1, <2>2
<1>2. new \in [V -> Nat] /\ new[x] = v /\ \A y \in V : y # x => new[y] = list[y]
  BY <1>1
<1>3. ASSUME NEW i \in 1 .. k + 1, k + 1 < i + LongTerm PROVE new[Place(i)] = c[i] - c[i - 1]
  <2>1. CASE i = k + 1
    BY <1>2, <2>1
  <2>2. CASE i # k + 1
    <3>1. i \in 1 .. k /\ k < i + LongTerm /\ i < k + 1 /\ i \in Nat \ {0}
      BY <1>1, <1>3, <2>2
    <3>2. Place(k + 1) # Place(i) /\ Place(i) \in V
      BY <1>1, <1>3, <3>1, PlaceFacts
    <3>3. list[Place(i)] = c[i] - c[i - 1]
      BY <3>1 DEF Holds
    <3> HIDE DEF new
    <3>4. QED
      BY <1>2, <3>2, <3>3
  <2>3. QED
    BY <2>1, <2>2
<1>4. ASSUME NEW j \in V, k + 1 < j PROVE new[j] = b
  <2>1. k < j /\ k + 1 <= LongTerm
    BY <1>1, <1>4
  <2>2. x = k + 1
    BY <1>1, <2>1, PlaceFacts
  <2>3. list[j] = b
    BY <2>1 DEF Holds
  <2> HIDE DEF new, x
  <2>4. QED
    BY <1>1, <1>2, <1>4, <2>2, <2>3
<1>5. list[x] = IF k < LongTerm THEN b ELSE c[(k + 1) - LongTerm] - c[k - LongTerm]
  <2>1. CASE k < LongTerm
    <3>1. x = k + 1
      BY <1>1, <2>1, PlaceFacts
    <3>2. QED
      BY <1>1, <2>1, <3>1 DEF Holds
  <2>2. CASE ~(k < LongTerm)
    <3> DEFINE i == (k + 1) - LongTerm
    <3>1. i \in 1 .. k /\ i \in Nat \ {0} /\ k < i + LongTerm /\ i + LongTerm = k + 1 /\ i - 1 = k - LongTerm
      BY <1>1, <2>2
    <3> HIDE DEF i
    <3>2. Place(i + LongTerm) = Place(i)
      BY <3>1, PlaceFacts
    <3>3. list[Place(i)] = c[i] - c[i - 1]
      BY <3>1 DEF Holds
    <3>4. QED
      BY <2>2, <3>1, <3>2, <3>3 DEF i
  <2>3. QED
    BY <2>1, <2>2
<1>6. SumFunctionOnSet(new, V) = SumFunctionOnSet(list, V) - list[x] + v
  <2>1. IsFiniteSet(V) /\ list \in [V -> Int] /\ new \in [V -> Int] /\ x \in V
        /\ new[x] = v /\ \A y \in V \ {x} : list[y] = new[y]
    <3>1. list \in [V -> Int] /\ new \in [V -> Int] /\ IsFiniteSet(V)
      <4>1. 1 \in Int /\ LongTerm \in Int
        BY <1>1
      <4>2. IsFiniteSet(V)
        BY <4>1, FS_Interval
      <4> HIDE DEF V, new
      <4>3. QED
        BY <1>1, <1>2, <4>2
    <3> HIDE DEF V, new, x, v
    <3>2. QED
      BY <1>1, <1>2, <3>1
  <2> HIDE DEF V, x, v, new
  <2>2. SumFunctionOnSet(new, V) = SumFunctionOnSet(list, V) - list[x] + new[x]
    BY ONLY <2>1, SumReplaced
  <2>3. QED
    BY ONLY <2>1, <2>2
<1> DEFINE s == SumFunctionOnSet(list, V)
           t == SumFunctionOnSet(new, V)
           l == list[x]
<1>7. SumsTo(s, c, k, b)
  BY DEF Holds
<1>8. SumsTo(t, c, k + 1, b)
  <2>1. c[k] \in Nat /\ c[k + 1] \in Nat /\ c[0] \in Nat
    OBVIOUS
  <2>2. t = s - l + (c[k + 1] - c[k])
    BY <1>6
  <2>3. l = IF k < LongTerm THEN b ELSE c[(k + 1) - LongTerm] - c[k - LongTerm]
    BY <1>5
  <2> HIDE DEF s, t, l
  <2>4. ASSUME k < LongTerm, b = 0 PROVE t = c[k + 1] - c[0]
    BY <1>1, <1>7, <2>1, <2>2, <2>3, <2>4 DEF SumsTo
  <2>5. ASSUME k < LongTerm, b = 1 PROVE t = (c[k + 1] - c[0]) + (LongTerm - (k + 1))
    <3>1. l = 1 /\ k <= LongTerm /\ LongTerm \in Nat
      BY <1>1, <2>3, <2>5
    <3>2. s = (c[k] - c[0]) + (LongTerm - k)
      BY ONLY <1>7, <2>5, <3>1 DEF SumsTo
    <3>3. QED
      BY ONLY <2>1, <2>2, <3>1, <3>2, k \in Nat
  <2>6. ASSUME k = LongTerm PROVE t = c[k + 1] - c[1]
    <3>1. l = c[1] - c[0] /\ c[1] \in Nat
      BY <1>1, <2>3, <2>6
    <3>2. s = c[k] - c[0]
      BY <1>1, <1>7, <2>1, <2>6 DEF SumsTo
    <3>3. QED
      BY <2>1, <2>2, <3>1, <3>2
  <2>7. ASSUME k > LongTerm PROVE t = c[k + 1] - c[(k + 1) - LongTerm]
    <3> DEFINE i == k - LongTerm
    <3>1. i \in Nat /\ (k + 1) - LongTerm = i + 1
      BY <1>1, <2>7
    <3>2. s = c[k] - c[i]
      BY <1>7, <2>7 DEF SumsTo
    <3>3. l = c[i + 1] - c[i]
      BY <1>1, <2>3, <2>7, <3>1
    <3> HIDE DEF i
    <3>4. c[i] \in Nat /\ c[i + 1] \in Nat
      BY <3>1
    <3>5. t = c[k + 1] - c[i + 1]
      BY <2>1, <2>2, <3>2, <3>3, <3>4
    <3>6. QED
      BY <3>1, <3>5
  <2>8. \A m, n \in Nat :
           /\ (n + 1 <= m) <=> (n < m)
           /\ (n + 1 > m) <=> (n = m \/ n > m)
           /\ (n = m) => ((n + 1) - m = 1)
    OBVIOUS
  <2>9. k \in Nat /\ LongTerm \in Nat
    BY <1>1
  <2>10. /\ (k + 1 <= LongTerm) <=> (k < LongTerm)
         /\ (k + 1 > LongTerm) <=> (k = LongTerm \/ k > LongTerm)
         /\ (k = LongTerm) => ((k + 1) - LongTerm = 1)
    BY ONLY <2>8, <2>9
  <2>11. k + 1 > LongTerm => t = c[k + 1] - c[(k + 1) - LongTerm]
    BY ONLY <2>6, <2>7, <2>10
  <2>12. QED
    <3>1. k + 1 <= LongTerm /\ b = 0 => t = c[k + 1] - c[0]
      BY ONLY <2>4, <2>10
    <3>2. k + 1 <= LongTerm /\ b = 1 => t = (c[k + 1] - c[0]) + (LongTerm - (k + 1))
      BY ONLY <2>5, <2>10
    <3>3. QED
      BY ONLY <3>1, <3>2, <2>11 DEF SumsTo
<1> HIDE DEF new
<1>9. Holds(new, c, k + 1, b)
  <2>1. \A i \in 1 .. k + 1 : k + 1 < i + LongTerm => new[Place(i)] = c[i] - c[i - 1]
    BY <1>3
  <2>2. \A j \in 1 .. LongTerm : k + 1 < j => new[j] = b
    BY <1>4
  <2>3. new \in [1 .. LongTerm -> Nat]
    BY <1>2
  <2>4. QED
    BY <1>8, <2>1, <2>2, <2>3 DEF Holds
<1>10. QED
  BY <1>9 DEF new

\* The counters of the samples, 0 before the first.
IdleOf(samples) == [i \in Nat |-> IF i \in 1 .. Len(samples) THEN samples[i].idle ELSE 0]
TotalOf(samples) == [i \in Nat |-> IF i \in 1 .. Len(samples) THEN samples[i].total ELSE 0]

\* Samples of /proc/stat: time passes between any two of them, and the CPU is
\* idle for a part of it.
Sampling(samples) ==
    /\ samples \in Seq([idle : Nat, total : Nat])
    /\ \A i \in 1 .. Len(samples) :
          /\ IdleOf(samples)[i - 1] <= IdleOf(samples)[i]
          /\ TotalOf(samples)[i - 1] < TotalOf(samples)[i]
          /\ IdleOf(samples)[i] - IdleOf(samples)[i - 1] <= TotalOf(samples)[i] - TotalOf(samples)[i - 1]

LEMMA SamplesAre ==
    ASSUME NEW samples, Sampling(samples)
    PROVE  /\ Len(samples) \in Nat /\ IdleOf(samples) \in [Nat -> Nat] /\ TotalOf(samples) \in [Nat -> Nat]
           /\ IdleOf(samples)[0] = 0 /\ TotalOf(samples)[0] = 0
           /\ \A i \in 1 .. Len(samples) :
                 IdleOf(samples)[i] = samples[i].idle /\ TotalOf(samples)[i] = samples[i].total
<1>1. Len(samples) \in Nat /\ \A i \in 1 .. Len(samples) : samples[i] \in [idle : Nat, total : Nat]
  <2> DEFINE R == [idle : Nat, total : Nat]
  <2>1. samples \in Seq(R)
    BY Zenon DEF Sampling
  <2> HIDE DEF R
  <2>2. Len(samples) \in Nat /\ \A i \in 1 .. Len(samples) : samples[i] \in R
    BY <2>1
  <2>3. QED
    BY <2>2 DEF R
<1>2. \A i \in 1 .. Len(samples) : samples[i].idle \in Nat /\ samples[i].total \in Nat
  BY <1>1
<1>3. 0 \notin 1 .. Len(samples) /\ 0 \in Nat /\ \A i \in 1 .. Len(samples) : i \in Nat
  BY <1>1
<1>4. IdleOf(samples) \in [Nat -> Nat] /\ TotalOf(samples) \in [Nat -> Nat]
  BY <1>2 DEF IdleOf, TotalOf
<1>5. QED
  BY <1>1, <1>3, <1>4 DEF IdleOf, TotalOf

\* f is the agent after each of the first m samples.
IsRun(f, samples, m) ==
    f = [k \in 0 .. m |-> IF k = 0 THEN NoSamples ELSE Sampled(f[k - 1], samples[k])]

LEMMA RunExists ==
    ASSUME NEW samples, NEW m \in Nat
    PROVE  \E f : IsRun(f, samples, m)
<1> DEFINE S == {n \in Nat : \E f : IsRun(f, samples, n)}
<1>1. 0 \in S
  <2> DEFINE f == [k \in 0 .. 0 |-> NoSamples]
  <2>1. IsRun(f, samples, 0)
    BY DEF IsRun
  <2>2. QED
    BY <2>1
<1>2. ASSUME NEW n \in S PROVE n + 1 \in S
  <2>1. n \in Nat /\ \E f : IsRun(f, samples, n)
    OBVIOUS
  <2>2. PICK f : IsRun(f, samples, n)
    BY <2>1
  <2> DEFINE g == [k \in 0 .. n + 1 |-> IF k = n + 1 THEN Sampled(f[n], samples[n + 1]) ELSE f[k]]
             h == [k \in 0 .. n + 1 |-> IF k = 0 THEN NoSamples ELSE Sampled(g[k - 1], samples[k])]
  <2>3. /\ f[0] = NoSamples
        /\ \A k \in 1 .. n : f[k] = Sampled(f[k - 1], samples[k])
    BY <2>1, <2>2 DEF IsRun
  <2>4. \A k \in 0 .. n + 1 : g[k] = IF k = 0 THEN NoSamples ELSE Sampled(g[k - 1], samples[k])
    <3>1. \A k \in 0 .. n : g[k] = f[k]
      BY <2>1
    <3>2. g[n + 1] = Sampled(f[n], samples[n + 1])
      BY <2>1
    <3> HIDE DEF g
    <3>3. ASSUME NEW k \in 0 .. n + 1 PROVE g[k] = IF k = 0 THEN NoSamples ELSE Sampled(g[k - 1], samples[k])
      <4>1. CASE k = 0
        BY <2>1, <2>3, <3>1, <4>1
      <4>2. CASE k \in 1 .. n
        <5>1. k \in 0 .. n /\ k - 1 \in 0 .. n /\ k # 0
          BY <2>1, <4>2
        <5>2. g[k] = f[k] /\ g[k - 1] = f[k - 1]
          BY <3>1, <5>1
        <5>3. QED
          BY <2>3, <4>2, <5>1, <5>2
      <4>3. CASE k = n + 1
        <5>1. n \in 0 .. n /\ (n + 1) - 1 = n /\ n + 1 # 0
          BY <2>1
        <5>2. g[n] = f[n]
          BY <3>1, <5>1
        <5>3. QED
          BY <3>2, <4>3, <5>1, <5>2
      <4>4. k = 0 \/ k \in 1 .. n \/ k = n + 1
        BY <2>1
      <4>5. QED
        BY <4>1, <4>2, <4>3, <4>4
    <3>4. QED
      BY <3>3
  <2>5. g = h
    <3>1. DOMAIN g = 0 .. n + 1 /\ g = [k \in 0 .. n + 1 |-> g[k]]
      OBVIOUS
    <3> HIDE DEF g
    <3>2. QED
      BY <2>4, <3>1
  <2>6. IsRun(g, samples, n + 1)
    <3>1. h = [k \in 0 .. n + 1 |-> IF k = 0 THEN NoSamples ELSE Sampled(g[k - 1], samples[k])]
      OBVIOUS
    <3> HIDE DEF g, h
    <3>2. QED
      BY ONLY <2>5, <3>1 DEF IsRun
  <2>7. QED
    BY <2>1, <2>6
<1>3. S \in SUBSET Nat
  OBVIOUS
<1> HIDE DEF S
<1>4. S = Nat
  BY <1>1, <1>2, <1>3, NatSetInduction
<1>5. m \in S
  BY <1>4
<1>6. QED
  BY <1>5 DEF S

\* What the agent knows after k samples.
IsAfter(a, samples, k) ==
    /\ a.last.idle = IdleOf(samples)[k] /\ a.last.total = TotalOf(samples)[k]
    /\ a.index = Place(k + 1)
    /\ Holds(a.idle, IdleOf(samples), k, 0)
    /\ Holds(a.total, TotalOf(samples), k, 1)

LEMMA AfterNone ==
    ASSUME NEW samples, Sampling(samples)
    PROVE  IsAfter(NoSamples, samples, 0)
<1> DEFINE zeros == [i \in 1 .. LongTerm |-> 0]
           ones == [i \in 1 .. LongTerm |-> 1]
           V == 1 .. LongTerm
<1>1. LongTerm \in Nat \ {0} /\ 1 \in Int /\ LongTerm \in Int
  BY CpuAssumption
<1>2. IsFiniteSet(V) /\ Cardinality(V) = LongTerm
  <2>1. Cardinality(V) = IF 1 > LongTerm THEN 0 ELSE LongTerm - 1 + 1
    BY <1>1, FS_Interval
  <2>2. QED
    BY <1>1, <2>1, FS_Interval
<1>3. zeros \in [V -> Int] /\ ones \in [V -> Int] /\ V \in SUBSET V
      /\ (\A i \in V : zeros[i] = 0) /\ (\A i \in V : ones[i] = 1)
      /\ zeros \in [V -> Nat] /\ ones \in [V -> Nat]
  OBVIOUS
<1> HIDE DEF zeros, ones, V
<1>4. SumFunctionOnSet(zeros, V) = 0 * Cardinality(V)
  BY <1>2, <1>3, SumOfEqual
<1>5. SumFunctionOnSet(ones, V) = 1 * Cardinality(V)
  BY <1>2, <1>3, SumOfEqual
<1>6. SumFunctionOnSet(zeros, V) = 0 /\ SumFunctionOnSet(ones, V) = LongTerm
  <2>1. \A n \in Nat : 0 * n = 0 /\ 1 * n = n
    OBVIOUS
  <2>2. QED
    BY <1>1, <1>2, <1>4, <1>5, <2>1
<1>7. /\ SumsTo(SumFunctionOnSet(zeros, V), IdleOf(samples), 0, 0)
      /\ SumsTo(SumFunctionOnSet(ones, V), TotalOf(samples), 0, 1)
  <2> DEFINE i == IdleOf(samples)[0]
             t == TotalOf(samples)[0]
  <2>1. i = 0 /\ t = 0
    BY SamplesAre
  <2>2. ~(0 > LongTerm) /\ i - i = 0 /\ (t - t) + (LongTerm - 0) = LongTerm
    BY <1>1, <2>1
  <2>3. QED
    BY ONLY <1>6, <2>2 DEF SumsTo
<1>8. 1 .. 0 = {}
  OBVIOUS
<1>9. Holds(zeros, IdleOf(samples), 0, 0)
  BY <1>3, <1>7, <1>8 DEF Holds, V
<1>10. Holds(ones, TotalOf(samples), 0, 1)
  BY <1>3, <1>7, <1>8 DEF Holds, V
<1>11. Place(0 + 1) = 1
  BY <1>1, PlaceFacts
<1>12. /\ NoSamples.last.idle = 0 /\ NoSamples.last.total = 0 /\ NoSamples.index = 1
       /\ NoSamples.idle = zeros /\ NoSamples.total = ones
  BY DEF NoSamples, zeros, ones
<1>13. QED
  BY <1>9, <1>10, <1>11, <1>12, SamplesAre DEF IsAfter

\* The load it writes then, where k > 0.
IsLoad(load, a, samples, k) ==
    load = Max({Utilisation(SumFunctionOnSet(a.idle, 1 .. LongTerm), SumFunctionOnSet(a.total, 1 .. LongTerm)),
                Utilisation(IdleOf(samples)[k] - IdleOf(samples)[k - 1],
                            TotalOf(samples)[k] - TotalOf(samples)[k - 1])})

LEMMA AfterNext ==
    ASSUME NEW samples, Sampling(samples), NEW k \in Nat, k < Len(samples), NEW a, IsAfter(a, samples, k)
    PROVE  /\ IsAfter(Sampled(a, samples[k + 1]), samples, k + 1)
           /\ IsLoad(Sampled(a, samples[k + 1]).load, Sampled(a, samples[k + 1]), samples, k + 1)
<1> DEFINE I == IdleOf(samples)
           T == TotalOf(samples)
           n == k + 1
           x == Place(n)
           sample == samples[n]
           idle == [a.idle EXCEPT ![x] = I[n] - I[k]]
           total == [a.total EXCEPT ![x] = T[n] - T[k]]
           new == Sampled(a, sample)
           V == 1 .. LongTerm
<1>1. n \in 1 .. Len(samples) /\ n \in Nat \ {0} /\ n - 1 = k
  <2>1. Len(samples) \in Nat
    BY SamplesAre
  <2>2. QED
    BY <2>1
<1> HIDE DEF n
<1>2. /\ I[n] = sample.idle /\ T[n] = sample.total
      /\ I \in [Nat -> Nat] /\ T \in [Nat -> Nat] /\ I[k] <= I[n] /\ T[k] < T[n]
  BY <1>1, SamplesAre DEF Sampling
<1> HIDE DEF I, T, sample
<1>3. a.last.idle = I[k] /\ a.last.total = T[k] /\ a.index = x
  BY DEF IsAfter, I, T, n
<1>4. Holds(idle, I, n, 0) /\ Holds(total, T, n, 1)
  <2>1. Holds(a.idle, I, k, 0) /\ Holds(a.total, T, k, 1)
    BY DEF IsAfter, I, T
  <2>2. T[k] \in Nat /\ T[n] \in Nat
    BY <1>1, <1>2
  <2>3. I[k] <= I[k + 1] /\ T[k] <= T[k + 1]
    <3>1. I[k] <= I[n] /\ T[k] <= T[n]
      <4>1. \A y, z \in Nat : y < z => y <= z
        OBVIOUS
      <4>2. QED
        BY ONLY <1>2, <2>2, <4>1
    <3>2. QED
      BY ONLY <3>1 DEF n
  <2>4. Holds([a.idle EXCEPT ![Place(k + 1)] = I[k + 1] - I[k]], I, k + 1, 0)
    BY <1>2, <2>1, <2>3, ListMoves
  <2>5. Holds([a.total EXCEPT ![Place(k + 1)] = T[k + 1] - T[k]], T, k + 1, 1)
    BY <1>2, <2>1, <2>3, ListMoves
  <2>6. QED
    BY <2>4, <2>5 DEF n
<1>5. x \in V /\ a.idle \in [V -> Nat] /\ a.total \in [V -> Nat]
  <2>1. x \in V
    BY <1>1, PlaceFacts
  <2>2. QED
    BY <2>1 DEF IsAfter, Holds
<1>6. idle[x] = I[n] - I[k] /\ total[x] = T[n] - T[k] /\ DOMAIN idle = V /\ DOMAIN total = V
  BY <1>5
<1>7. /\ new.last = sample /\ new.idle = idle /\ new.total = total
      /\ new.index = NextIndex(x)
      /\ new.load = Max({Utilisation(SumFunction(idle), SumFunction(total)),
                         Utilisation(idle[x], total[x])})
  BY <1>2, <1>3 DEF Sampled
<1> HIDE DEF new, idle, total, x
<1>8. SumFunction(idle) = SumFunctionOnSet(idle, V) /\ SumFunction(total) = SumFunctionOnSet(total, V)
  BY <1>6 DEF SumFunction
<1>9. NextIndex(x) = Place(n + 1)
  BY <1>1, PlaceFacts DEF x
<1>10. IsAfter(new, samples, n)
  BY <1>2, <1>4, <1>7, <1>9 DEF IsAfter, I, T
<1>11. IsLoad(new.load, new, samples, n)
  BY <1>1, <1>6, <1>7, <1>8 DEF IsLoad, I, T
<1>12. QED
  BY <1>10, <1>11 DEF new, n, sample

LEMMA CountersGrow ==
    ASSUME NEW samples, Sampling(samples)
    PROVE  \A j \in 0 .. Len(samples) : \A i \in 0 .. j :
              LET idle == IdleOf(samples)[j] - IdleOf(samples)[i]
                  total == TotalOf(samples)[j] - TotalOf(samples)[i]
              IN  0 <= idle /\ idle <= total /\ (i < j => 0 < total)
<1> DEFINE I == IdleOf(samples)
           T == TotalOf(samples)
           n == Len(samples)
           Grown(i, j) == 0 <= I[j] - I[i] /\ I[j] - I[i] <= T[j] - T[i] /\ (i < j => 0 < T[j] - T[i])
           S == {j \in Nat : j <= n => \A i \in 0 .. j : Grown(i, j)}
<1>1. n \in Nat /\ I \in [Nat -> Nat] /\ T \in [Nat -> Nat]
  BY SamplesAre
<1>2. \A j \in 1 .. n : I[j - 1] <= I[j] /\ T[j - 1] < T[j] /\ I[j] - I[j - 1] <= T[j] - T[j - 1]
  BY DEF Sampling
<1> HIDE DEF I, T, n
<1>3. 0 \in S
  BY <1>1
<1>4. ASSUME NEW j \in S PROVE j + 1 \in S
  <2>1. j \in Nat /\ (j <= n => \A i \in 0 .. j : Grown(i, j))
    OBVIOUS
  <2> HIDE DEF S
  <2>2. ASSUME j + 1 <= n, NEW i \in 0 .. j + 1 PROVE Grown(i, j + 1)
    <3>1. j + 1 \in 1 .. n /\ (j + 1) - 1 = j /\ j <= n /\ i \in Nat
      BY <1>1, <2>1, <2>2
    <3>2. I[j] <= I[j + 1] /\ T[j] < T[j + 1] /\ I[j + 1] - I[j] <= T[j + 1] - T[j]
      BY <1>2, <3>1
    <3>3. I[i] \in Nat /\ I[j] \in Nat /\ I[j + 1] \in Nat /\ T[i] \in Nat /\ T[j] \in Nat /\ T[j + 1] \in Nat
      BY <1>1, <2>1, <3>1
    <3>4. CASE i = j + 1
      BY <3>3, <3>4
    <3>5. CASE i # j + 1
      <4>1. i \in 0 .. j
        BY <2>1, <3>5
      <4>2. Grown(i, j)
        BY <2>1, <3>1, <4>1
      <4>3. QED
        BY <3>2, <3>3, <4>2
    <3>6. QED
      BY <3>4, <3>5
  <2>3. QED
    BY <2>1, <2>2 DEF S
<1>5. S \in SUBSET Nat
  OBVIOUS
<1> HIDE DEF S
<1>6. S = Nat
  BY <1>3, <1>4, <1>5, NatSetInduction
<1>7. ASSUME NEW j \in 0 .. n, NEW i \in 0 .. j PROVE Grown(i, j)
  <2>1. j \in S /\ j <= n
    BY <1>1, <1>6
  <2>2. QED
    BY <2>1 DEF S
<1>8. QED
  BY <1>7 DEF I, T, n

LEMMA EveryRun ==
    ASSUME NEW samples, Sampling(samples), NEW f, IsRun(f, samples, Len(samples))
    PROVE  /\ f[0] = NoSamples
           /\ \A k \in 0 .. Len(samples) : IsAfter(f[k], samples, k)
           /\ \A k \in 1 .. Len(samples) : IsLoad(f[k].load, f[k], samples, k)
<1> DEFINE n == Len(samples)
           S == {k \in Nat : k <= n => IsAfter(f[k], samples, k)}
<1>1. n \in Nat
  BY SamplesAre
<1>2. /\ f[0] = NoSamples
      /\ \A k \in 1 .. n : f[k] = Sampled(f[k - 1], samples[k])
  BY <1>1 DEF IsRun
<1> HIDE DEF n
<1>3. \A k \in Nat : k < n => f[k + 1] = Sampled(f[k], samples[k + 1])
  <2>1. \A k \in Nat : k < n => k + 1 \in 1 .. n /\ (k + 1) - 1 = k
    BY <1>1
  <2>2. QED
    BY <1>2, <2>1
<1>4. 0 \in S
  BY <1>2, AfterNone
<1>5. ASSUME NEW k \in S PROVE k + 1 \in S
  <2>1. k \in Nat /\ k + 1 \in Nat /\ (k + 1 <= n => k < n /\ k <= n)
    BY <1>1
  <2>2. ASSUME k + 1 <= n PROVE IsAfter(f[k + 1], samples, k + 1)
    <3>1. IsAfter(f[k], samples, k) /\ k < Len(samples)
      BY <2>1, <2>2 DEF n
    <3> HIDE DEF S
    <3>2. IsAfter(Sampled(f[k], samples[k + 1]), samples, k + 1)
      BY <2>1, <3>1, AfterNext
    <3>3. QED
      BY <1>3, <2>1, <2>2, <3>2
  <2>3. QED
    BY <2>1, <2>2
<1>6. S \in SUBSET Nat
  OBVIOUS
<1> HIDE DEF S
<1>7. S = Nat
  BY <1>4, <1>5, <1>6, NatSetInduction
<1>8. \A k \in 0 .. n : IsAfter(f[k], samples, k)
  BY <1>1, <1>7 DEF S
<1>9. ASSUME NEW k \in 1 .. n PROVE IsLoad(f[k].load, f[k], samples, k)
  <2> DEFINE j == k - 1
  <2>1. j \in Nat /\ j < Len(samples) /\ j \in 0 .. n /\ j + 1 = k
    BY <1>1 DEF n
  <2> HIDE DEF j
  <2>2. IsAfter(f[j], samples, j)
    BY <1>8, <2>1
  <2>3. IsLoad(Sampled(f[j], samples[j + 1]).load, Sampled(f[j], samples[j + 1]), samples, j + 1)
    BY <2>1, <2>2, AfterNext
  <2>4. f[j + 1] = Sampled(f[j], samples[j + 1])
    BY <1>3, <2>1 DEF n
  <2>5. QED
    BY <2>1, <2>3, <2>4
<1>10. QED
  BY <1>2, <1>8, <1>9 DEF n

(***************************************************************************)
(* After any number of samples the agent reports a load between idle and   *)
(* full, at least the use since the last sample and, once LongTerm of them *)
(* have passed, the greater one of this and the use over the last LongTerm *)
(* intervals, whatever was before (b3lb-load:27-53).                       *)
(***************************************************************************)
THEOREM LoadIsAlwaysMeasured ==
    ASSUME NEW samples, Sampling(samples)
    PROVE  LoadIsMeasured(samples)
<1> DEFINE n == Len(samples)
           I == IdleOf(samples)
           T == TotalOf(samples)
           equation(f) == [k \in 0 .. n |-> IF k = 0 THEN NoSamples ELSE Sampled(f[k - 1], samples[k])]
           after == CHOOSE f : f = equation(f)
           load == AgentLoad(samples)
<1>1. /\ n \in Nat /\ I \in [Nat -> Nat] /\ T \in [Nat -> Nat] /\ I[0] = 0 /\ T[0] = 0
      /\ \A i \in 1 .. n : I[i] = samples[i].idle /\ T[i] = samples[i].total
  BY SamplesAre
<1>2. IsRun(after, samples, n)
  <2>1. \E f : f = equation(f)
    BY <1>1, RunExists DEF IsRun
  <2>2. after = equation(after)
    BY <2>1
  <2> HIDE DEF after
  <2>3. QED
    BY <2>2 DEF IsRun
<1>3. load = after[n].load
  BY DEF AgentLoad
<1> HIDE DEF after
<1>4. /\ after[0] = NoSamples
      /\ n > 0 => IsAfter(after[n], samples, n) /\ IsLoad(after[n].load, after[n], samples, n)
  <2>1. n \in 0 .. n /\ (n > 0 => n \in 1 .. n)
    BY <1>1
  <2>2. QED
    BY <1>2, <2>1, EveryRun
<1> HIDE DEF n, I, T, load
<1>5. CASE n = 0
  <2>1. load = 0
    BY <1>3, <1>4, <1>5 DEF NoSamples
  <2>2. ~(n > 1) /\ ~(n > LongTerm) /\ 0 \in 0 .. CpuBase
    BY <1>5, CpuAssumption
  <2>3. QED
    BY <2>1, <2>2 DEF LoadIsMeasured, n, load
<1>6. CASE n > 0
  <2> DEFINE sumI == SumFunctionOnSet(after[n].idle, 1 .. LongTerm)
             sumT == SumFunctionOnSet(after[n].total, 1 .. LongTerm)
             p == n - 1
             short == Utilisation(I[n] - I[p], T[n] - T[p])
             long == Utilisation(sumI, sumT)
  <2>1. p \in Nat /\ p \in 0 .. n /\ p < n /\ n \in 0 .. n /\ 0 \in 0 .. n /\ LongTerm \in Nat \ {0}
    BY <1>1, <1>6, CpuAssumption
  <2>2. load = Max({long, short})
    BY <1>3, <1>4, <1>6 DEF IsLoad, I, T
  <2>3. SumsTo(sumI, I, n, 0) /\ SumsTo(sumT, T, n, 1)
    BY <1>4, <1>6 DEF IsAfter, Holds, I, T
  <2>4. \A i \in 0 .. n :
           /\ 0 <= I[n] - I[i] /\ I[n] - I[i] <= T[n] - T[i] /\ (i < n => 0 < T[n] - T[i])
           /\ I[i] \in Nat /\ T[i] \in Nat
    <3>1. \A j \in 0 .. n : \A i \in 0 .. j :
             0 <= I[j] - I[i] /\ I[j] - I[i] <= T[j] - T[i] /\ (i < j => 0 < T[j] - T[i])
      BY CountersGrow DEF I, T, n
    <3>2. \A i \in 0 .. n : I[i] \in Nat /\ T[i] \in Nat
      BY <1>1
    <3>3. QED
      BY <2>1, <3>1, <3>2
  <2> HIDE DEF sumI, sumT, p
  <2>5. short \in 0 .. CpuBase
    <3>1. I[n] - I[p] \in Nat /\ T[n] - T[p] \in Nat /\ 0 < T[n] - T[p] /\ I[n] - I[p] <= T[n] - T[p]
      BY <2>1, <2>4
    <3>2. QED
      BY <3>1, Utilised
  <2>6. sumI \in Nat /\ sumT \in Nat /\ 0 < sumT /\ sumI <= sumT
    <3>1. CASE n <= LongTerm
      <4>1. sumI = I[n] - I[0] /\ sumT = (T[n] - T[0]) + (LongTerm - n)
        BY ONLY <2>3, <3>1 DEF SumsTo
      <4>2. LongTerm - n \in Nat
        BY <1>1, <2>1, <3>1
      <4>3. 0 <= I[n] - I[0] /\ I[n] - I[0] <= T[n] - T[0] /\ 0 < T[n] - T[0]
            /\ I[n] - I[0] \in Int /\ T[n] - T[0] \in Int
        BY <1>6, <2>1, <2>4
      <4>4. QED
        BY <4>1, <4>2, <4>3
    <3>2. CASE n > LongTerm
      <4> DEFINE i == n - LongTerm
      <4>1. sumI = I[n] - I[i] /\ sumT = T[n] - T[i]
        BY ONLY <2>3, <3>2 DEF SumsTo
      <4>2. i \in 0 .. n /\ i < n
        BY <1>1, <2>1, <3>2
      <4> HIDE DEF i
      <4>3. QED
        BY <2>1, <2>4, <4>1, <4>2
    <3>3. QED
      BY <1>1, <2>1, <3>1, <3>2
  <2>7. long \in 0 .. CpuBase
    BY <2>6, Utilised
  <2> HIDE DEF long, short
  <2>8. load = IF long >= short THEN long ELSE short
    <3>1. long \in Int /\ short \in Int
      BY <2>5, <2>7
    <3>2. QED
      BY <2>2, <3>1, MaxOfTwo
  <2>9. load \in 0 .. CpuBase /\ short <= load
    BY <2>5, <2>7, <2>8
  <2>10. n > 1 => Utilisation(samples[n].idle - samples[n - 1].idle, samples[n].total - samples[n - 1].total) = short
    <3>1. ASSUME n > 1 PROVE n - 1 \in 1 .. n /\ n \in 1 .. n
      BY <1>1, <3>1
    <3>2. QED
      BY <1>1, <3>1 DEF short, p
  <2>11. n > LongTerm =>
           /\ Utilisation(samples[n].idle - samples[n - LongTerm].idle, samples[n].total - samples[n - LongTerm].total) = long
           /\ n > 1
    <3>1. SUFFICES ASSUME n > LongTerm
                   PROVE  /\ Utilisation(samples[n].idle - samples[n - LongTerm].idle,
                                         samples[n].total - samples[n - LongTerm].total) = long
                          /\ n > 1
      OBVIOUS
    <3>2. n - LongTerm \in 1 .. n /\ n \in 1 .. n /\ n > 1
      BY <1>1, <2>1, <3>1
    <3>3. sumI = I[n] - I[n - LongTerm] /\ sumT = T[n] - T[n - LongTerm]
      BY ONLY <2>3, <3>1 DEF SumsTo
    <3>4. QED
      BY <1>1, <3>2, <3>3 DEF long
  <2>12. {long, short} = {short, long}
    OBVIOUS
  <2>13. QED
    BY <2>2, <2>9, <2>10, <2>11, <2>12 DEF LoadIsMeasured, n, load
<1>7. QED
  BY <1>1, <1>5, <1>6

-----------------------------------------------------------------------------
(* Lists of metrics (Statistics).                                           *)

-----------------------------------------------------------------------------
(* Statistics.                                                             *)

\* The sum of the values of a function that agrees with g.
LEMMA SumWithin ==
    ASSUME NEW V, IsFiniteSet(V), NEW g \in [V -> Int], NEW A \in SUBSET V,
           NEW h \in [A -> Int], \A x \in A : h[x] = g[x]
    PROVE  SumFunction(h) = SumFunctionOnSet(g, A)
<1>1. IsFiniteSet(A)
  BY FS_Subset
<1>2. SumFunctionOnSet(h, A) = SumFunctionOnSet(g, A)
  BY <1>1, SumSame
<1>3. SumFunction(h) = SumFunctionOnSet(h, DOMAIN h) /\ DOMAIN h = A
  BY DEF SumFunction
<1>4. QED
  BY <1>2, <1>3

\* The rows of Metric belong to secrets there are.
MetricsOf(secrets, metrics) ==
    /\ IsFiniteSet(secrets) /\ IsFiniteSet(metrics)
    /\ \A r \in metrics : r.secret \in secrets /\ r.value \in Int

\* What the lists of a tenant's own secret count.
LEMMA CountedForTenant ==
    ASSUME NEW metrics, NEW x, x.sub = 0
    PROVE  CountedFor(metrics, x) = {r \in metrics : r.secret.tenant = x.tenant}
  BY DEF CountedFor

LEMMA ListIs ==
    ASSUME NEW secrets, NEW metrics, NEW total, NEW s,
           NEW l \in DOMAIN MetricsList(secrets, metrics, total, s)
    PROVE  /\ l[2] \in Listed(secrets, total, s)
           /\ MetricsList(secrets, metrics, total, s)[l]
                = ValueOf({r \in CountedFor(metrics, l[2]) : r.name = l[1]})
<1> DEFINE names(x) == {r.name : r \in CountedFor(metrics, x)}
           pairs(x) == {<<name, x>> : name \in names(x)}
           lines == UNION {pairs(x) : x \in Listed(secrets, total, s)}
           list == [k \in lines |-> ValueOf({r \in CountedFor(metrics, k[2]) : r.name = k[1]})]
<1>1. MetricsList(secrets, metrics, total, s) = list
  BY Zenon DEF MetricsList
<1>2. l \in lines
  BY <1>1
<1>3. PICK x \in Listed(secrets, total, s) : l \in pairs(x)
  BY <1>2
<1>4. l[2] = x
  BY <1>3
<1>5. list[l] = ValueOf({r \in CountedFor(metrics, l[2]) : r.name = l[1]})
  BY <1>2
<1>6. QED
  BY <1>1, <1>3, <1>4, <1>5

(***************************************************************************)
(* Whatever rows Metric has, in every list a tenant's figure is the sum of *)
(* what its secrets have counted, and nothing of another tenant's          *)
(* (statistics.py:25-97).                                                  *)
(***************************************************************************)
THEOREM TenantsAreAlwaysSummed ==
    ASSUME NEW secrets, NEW metrics, MetricsOf(secrets, metrics), NEW total \in BOOLEAN, NEW s
    PROVE  TenantsAreSummed(secrets, metrics, total, s)
<1> DEFINE list == MetricsList(secrets, metrics, total, s)
           rows(x, name) == {r \in metrics : r.secret = x /\ r.name = name}
           own(x, name) == ValueOf(rows(x, name))
           of(t) == {y \in secrets : y.tenant = t}
<1>1. ASSUME NEW l \in DOMAIN list, l[2].sub = 0
      PROVE  list[l] = SumFunction([x \in of(l[2].tenant) |-> own(x, l[1])])
  <2> DEFINE K == of(l[2].tenant)
             V == {r \in CountedFor(metrics, l[2]) : r.name = l[1]}
             f == [r \in V |-> r.value]
             part == [x \in K |-> rows(x, l[1])]
             g == [x \in K |-> SumFunctionOnSet(f, part[x])]
             h == [x \in K |-> own(x, l[1])]
  <2>1. V = {r \in metrics : r.secret.tenant = l[2].tenant /\ r.name = l[1]}
    BY <1>1, CountedForTenant
  <2>2. IsFiniteSet(V) /\ IsFiniteSet(K)
    BY <2>1, FS_Subset DEF MetricsOf
  <2>3. f \in [V -> Int]
    BY <2>1 DEF MetricsOf
  <2>4. part \in [K -> SUBSET V]
    BY <2>1
  <2>5. \A j, k \in K : j # k => part[j] \cap part[k] = {}
    OBVIOUS
  <2>6. V = UNION {part[x] : x \in K}
    BY <2>1 DEF MetricsOf
  <2>7. \A x \in K : part[x] = rows(x, l[1]) /\ part[x] \in SUBSET V
    BY <2>4
  <2>8. list[l] = SumFunctionOnSet(f, V)
    <3>1. list[l] = ValueOf(V)
      BY ListIs
    <3>2. ValueOf(V) = SumFunction(f)
      BY Zenon DEF ValueOf
    <3>3. DOMAIN f = V
      OBVIOUS
    <3>4. SumFunction(f) = SumFunctionOnSet(f, V)
      BY <3>3, Zenon DEF SumFunction
    <3>5. QED
      BY ONLY <3>1, <3>2, <3>4
  <2>9. \A x \in K : h[x] = SumFunctionOnSet(f, part[x])
    <3>1. ASSUME NEW x \in K PROVE h[x] = SumFunctionOnSet(f, part[x])
      <4> DEFINE e == [r \in rows(x, l[1]) |-> r.value]
      <4>1. rows(x, l[1]) \in SUBSET V
        BY <2>7
      <4>2. e \in [rows(x, l[1]) -> Int] /\ \A r \in rows(x, l[1]) : e[r] = f[r]
        BY <4>1 DEF MetricsOf
      <4>3. h[x] = SumFunction(e)
        BY Zenon DEF ValueOf
      <4> HIDE DEF e, V, f, h, rows, K
      <4>4. SumFunction(e) = SumFunctionOnSet(f, rows(x, l[1]))
        BY <4>1, <4>2, <2>2, <2>3, SumWithin
      <4>5. QED
        BY <4>3, <4>4, <2>7
    <3>2. QED
      BY <3>1
  <2> HIDE DEF V, f, part, K, h
  <2>10. \A x \in K : SumFunctionOnSet(f, part[x]) \in Int
    BY <2>2, <2>3, <2>7, SumFacts
  <2>11. h \in [K -> Int]
    BY <2>9, <2>10 DEF h
  <2>12. SumFunctionOnSet(h, K) = SumFunctionOnSet(f, V)
    <3>1. SumFunctionOnSet(h, K) = SumFunctionOnSet(f, UNION {part[x] : x \in K})
      BY <2>2, <2>3, <2>4, <2>5, <2>9, <2>11, SumOfParts
    <3>2. QED
      BY ONLY <3>1, <2>6
  <2>13. SumFunction(h) = SumFunctionOnSet(h, K)
    BY <2>11 DEF SumFunction
  <2>14. QED
    BY <2>8, <2>12, <2>13 DEF h, K
<1>2. total \/ \A l \in DOMAIN list : l[2].tenant = s.tenant
  <2>1. ASSUME NEW l \in DOMAIN list, ~total PROVE l[2].tenant = s.tenant
    <3>1. l[2] \in Listed(secrets, total, s)
      BY ListIs
    <3>2. l[2] = s \/ l[2].tenant = s.tenant
      BY <2>1, <3>1 DEF Listed
    <3>3. QED
      BY <3>2
  <2>2. QED
    BY <2>1
<1>3. QED
  BY <1>1, <1>2, Zenon DEF TenantsAreSummed

-----------------------------------------------------------------------------
(* The dashboard and its command (Statistics).                              *)

LEMMA UpTo ==
    ASSUME NEW n \in Nat
    PROVE  IsFiniteSet(1 .. n) /\ Cardinality(1 .. n) = n
<1>1. IsFiniteSet(1 .. n) /\ Cardinality(1 .. n) = IF 1 > n THEN 0 ELSE n - 1 + 1
  BY FS_Interval
<1>2. QED
  BY <1>1

\* A list without repetitions of a set's members has all of them.
LEMMA OrdersHaveAll ==
    ASSUME NEW A, IsFiniteSet(A), NEW q \in SetToSeqs(A)
    PROVE  /\ Cardinality(A) \in Nat /\ q \in [1 .. Cardinality(A) -> A]
           /\ \A i, j \in 1 .. Cardinality(A) : i # j => q[i] # q[j]
           /\ \A a \in A : \E i \in 1 .. Cardinality(A) : q[i] = a
<1> DEFINE n == Cardinality(A)
<1>1. n \in Nat
  BY FS_CardinalityType
<1>2. q \in [1 .. n -> A] /\ \A i, j \in 1 .. n : i # j => q[i] # q[j]
  BY Zenon DEF SetToSeqs
<1>3. q \in Injection(1 .. n, A)
  BY <1>2 DEF Injection, IsInjective
<1>4. Cardinality(1 .. n) = Cardinality(A)
  BY <1>1, UpTo
<1>5. q \in Surjection(1 .. n, A)
  BY <1>3, <1>4, FS_Injection
<1>6. \A a \in A : \E i \in 1 .. n : q[i] = a
  BY <1>5 DEF Surjection
<1>7. QED
  BY <1>1, <1>2, <1>6

\* The finite sets have a list by key, the greatest first.
Sorted(q, n, key) == \A i, j \in 1 .. n : i < j => key[q[j]] <= key[q[i]]

LEMMA OrderExists ==
    ASSUME NEW A, IsFiniteSet(A), NEW key \in [A -> Nat]
    PROVE  \E q \in SetToSeqs(A) : Sorted(q, Cardinality(A), key)
<1> DEFINE IsOrder(q, s, n) ==
               /\ q \in [1 .. n -> s] /\ \A i, j \in 1 .. n : i # j => q[i] # q[j]
               /\ Sorted(q, n, key)
           S == {n \in Nat : \A s \in SUBSET A : Cardinality(s) = n => \E q : IsOrder(q, s, n)}
<1>1. \A s \in SUBSET A : IsFiniteSet(s) /\ Cardinality(s) \in Nat
  BY FS_Subset, FS_CardinalityType
<1>2. 0 \in S
  <2>1. ASSUME NEW s \in SUBSET A, Cardinality(s) = 0 PROVE \E q : IsOrder(q, s, 0)
    <3>1. IsOrder([i \in 1 .. 0 |-> 0], s, 0)
      BY DEF Sorted
    <3>2. QED
      BY <3>1
  <2>2. QED
    BY <2>1
<1>3. ASSUME NEW n \in S PROVE n + 1 \in S
  <2>1. SUFFICES ASSUME NEW s \in SUBSET A, Cardinality(s) = n + 1 PROVE \E q : IsOrder(q, s, n + 1)
    OBVIOUS
  <2>2. n \in Nat /\ s # {} /\ IsFiniteSet(s)
    BY <1>1, <2>1, FS_EmptySet
  <2>3. PICK a \in s : \A b \in s : key[a] <= key[b]
    <3> DEFINE T == {key[b] : b \in s}
    <3>1. T \in SUBSET Nat /\ T # {}
      BY <2>2
    <3>2. PICK x \in T : \A y \in T : x <= y
      BY <3>1, LeastNatural
    <3>3. QED
      BY <3>2
  <2>4. Cardinality(s \ {a}) = n /\ s \ {a} \in SUBSET A
    <3>1. Cardinality(s \ {a}) = Cardinality(s) - 1
      BY <2>2, FS_RemoveElement
    <3>2. QED
      BY <2>1, <2>2, <3>1
  <2>5. PICK q : IsOrder(q, s \ {a}, n)
    BY <2>4
  <2> DEFINE p == [i \in 1 .. n + 1 |-> IF i = n + 1 THEN a ELSE q[i]]
  <2>6. p[n + 1] = a /\ \A i \in 1 .. n : p[i] = q[i] /\ q[i] \in s \ {a}
    BY <2>2, <2>5
  <2>7. \A i \in 1 .. n + 1 : i \in 1 .. n \/ i = n + 1
    BY <2>2
  <2>8. p \in [1 .. n + 1 -> s]
    <3>1. \A i \in 1 .. n + 1 : p[i] \in s
      BY ONLY <2>6, <2>7, a \in s
    <3>2. p = [i \in 1 .. n + 1 |-> p[i]]
      OBVIOUS
    <3> HIDE DEF p
    <3>3. QED
      BY <3>1, <3>2
  <2> HIDE DEF p
  <2>9. \A i, j \in 1 .. n + 1 : i # j => p[i] # p[j]
    BY <2>5, <2>6, <2>7
  <2>10. Sorted(p, n + 1, key)
    <3>1. SUFFICES ASSUME NEW i \in 1 .. n + 1, NEW j \in 1 .. n + 1, i < j PROVE key[p[j]] <= key[p[i]]
      BY DEF Sorted
    <3>2. i \in 1 .. n
      BY <2>2, <3>1
    <3>3. CASE j = n + 1
      BY <2>3, <2>6, <3>2, <3>3
    <3>4. CASE j \in 1 .. n
      BY <2>5, <2>6, <3>1, <3>2, <3>4 DEF Sorted
    <3>5. QED
      BY <2>7, <3>3, <3>4
  <2>11. IsOrder(p, s, n + 1)
    BY <2>8, <2>9, <2>10
  <2>12. QED
    BY <2>11
<1> HIDE DEF S
<1>4. S = Nat
  <2>1. S \in SUBSET Nat
    BY DEF S
  <2>2. QED
    BY <1>2, <1>3, <2>1, NatSetInduction
<1>5. \E q : IsOrder(q, A, Cardinality(A))
  <2>1. Cardinality(A) \in S
    BY <1>1, <1>4
  <2>2. QED
    BY <2>1 DEF S
<1>6. QED
  BY <1>5, Zenon DEF SetToSeqs

\* The meetings are those of tenants there are.
MeetingsOf(tenants, meetings) ==
    /\ IsFiniteSet(tenants) /\ IsFiniteSet(meetings)
    /\ \A m \in meetings : m.secret.tenant \in tenants /\ m.attendees \in Nat

\* What the dashboard shows of a tenant.
LEMMA TenantsFigures ==
    ASSUME NEW tenants, NEW meetings, MeetingsOf(tenants, meetings), NEW s \in SUBSET meetings
    PROVE  LET f == [m \in meetings |-> m.attendees]
           IN  /\ AllMeetings(s).meetings = Cardinality(s) /\ Cardinality(s) \in Nat
               /\ Cardinality(s) > 0 <=> s # {}
               /\ AllMeetings(s).attendees = SumFunctionOnSet(f, s)
               /\ SumFunctionOnSet(f, s) \in Nat
               /\ s = {} => SumFunctionOnSet(f, s) = 0
<1> DEFINE f == [m \in meetings |-> m.attendees]
           h == [m \in s |-> m.attendees]
<1>1. IsFiniteSet(meetings) /\ f \in [meetings -> Int] /\ \A m \in meetings : f[m] \in Nat
  BY DEF MeetingsOf
<1>2. h \in [s -> Int] /\ \A m \in s : h[m] = f[m]
  BY DEF MeetingsOf
<1>3. AllMeetings(s).meetings = Cardinality(s) /\ AllMeetings(s).attendees = SumFunction(h)
  BY DEF AllMeetings, Attendees
<1> HIDE DEF f, h
<1>4. SumFunction(h) = SumFunctionOnSet(f, s)
  BY <1>1, <1>2, SumWithin
<1>5. IsFiniteSet(s) /\ Cardinality(s) \in Nat /\ (Cardinality(s) = 0 <=> s = {})
  BY <1>1, FS_Subset, FS_CardinalityType, FS_EmptySet
<1>6. SumFunctionOnSet(f, s) \in Nat
  BY <1>1, SumOfNaturals
<1>7. SumFunctionOnSet(f, {}) = 0
  BY <1>1, SumFacts
<1>8. s = {} => SumFunctionOnSet(f, s) = 0
  BY ONLY <1>7
<1>9. QED
  BY <1>3, <1>4, <1>5, <1>6, <1>8 DEF f

LEMMA TotalsAgree ==
    ASSUME NEW tenants, NEW meetings, MeetingsOf(tenants, meetings)
    PROVE  LET by == MeetingStats(tenants, meetings)
           IN  AllMeetings(meetings) = [meetings |-> SumFunction([t \in tenants |-> by[t].meetings]),
                                        attendees |-> SumFunction([t \in tenants |-> by[t].attendees])]
<1> DEFINE by == MeetingStats(tenants, meetings)
           f == [m \in meetings |-> m.attendees]
           part == [t \in tenants |-> OfTenant(meetings, t)]
           count == [t \in tenants |-> by[t].meetings]
           attending == [t \in tenants |-> by[t].attendees]
<1>1. \A t \in tenants : part[t] \in SUBSET meetings /\ by[t] = AllMeetings(part[t])
  BY DEF OfTenant, MeetingStats
<1>2. \A j, k \in tenants : j # k => part[j] \cap part[k] = {}
  BY DEF OfTenant
<1>3. UNION {part[t] : t \in tenants} = meetings
  BY DEF OfTenant, MeetingsOf
<1>4. /\ part \in [tenants -> SUBSET meetings] /\ f \in [meetings -> Int]
      /\ IsFiniteSet(tenants) /\ IsFiniteSet(meetings)
  BY <1>1 DEF MeetingsOf
<1>5. \A s \in SUBSET meetings : /\ AllMeetings(s).meetings = Cardinality(s) /\ Cardinality(s) \in Int
                                 /\ AllMeetings(s).attendees = SumFunctionOnSet(f, s)
                                 /\ SumFunctionOnSet(f, s) \in Int
  BY TenantsFigures
<1> HIDE DEF by, f, part
<1>6. /\ count \in [tenants -> Int] /\ \A t \in tenants : count[t] = Cardinality(part[t])
      /\ attending \in [tenants -> Int]
      /\ \A t \in tenants : attending[t] = SumFunctionOnSet(f, part[t])
  BY <1>1, <1>5
<1>7. /\ SumFunction(count) = SumFunctionOnSet(count, tenants)
      /\ SumFunction(attending) = SumFunctionOnSet(attending, tenants)
  <2>1. DOMAIN count = tenants /\ DOMAIN attending = tenants
    OBVIOUS
  <2> HIDE DEF count, attending
  <2>2. QED
    BY <2>1, Zenon DEF SumFunction
<1> HIDE DEF count, attending
<1>8. Cardinality(meetings) = SumFunctionOnSet(count, tenants)
  <2>1. Cardinality(UNION {part[t] : t \in tenants}) = SumFunctionOnSet(count, tenants)
    BY <1>2, <1>4, <1>6, UnionOfDisjoint
  <2>2. QED
    BY ONLY <2>1, <1>3
<1>9. SumFunctionOnSet(f, meetings) = SumFunctionOnSet(attending, tenants)
  <2>1. SumFunctionOnSet(attending, tenants) = SumFunctionOnSet(f, UNION {part[t] : t \in tenants})
    BY <1>2, <1>4, <1>6, SumOfParts
  <2>2. QED
    BY ONLY <2>1, <1>3
<1>10. AllMeetings(meetings) = [meetings |-> SumFunction(count), attendees |-> SumFunction(attending)]
  <2>1. /\ AllMeetings(meetings).meetings = SumFunction(count)
        /\ AllMeetings(meetings).attendees = SumFunction(attending)
    BY <1>5, <1>7, <1>8, <1>9
  <2>2. AllMeetings(meetings) = [meetings |-> AllMeetings(meetings).meetings,
                                 attendees |-> AllMeetings(meetings).attendees]
    BY DEF AllMeetings
  <2>3. QED
    BY ONLY <2>1, <2>2
<1>11. QED
  BY <1>10 DEF count, attending, by

(***************************************************************************)
(* Whatever meetings there are, the totals of dashboard and command are    *)
(* those over the tenants, and the dashboard's table has the tenants with  *)
(* the most attendees (dashboard.py:19-103, meetingstats.py).              *)
(***************************************************************************)
THEOREM OverviewsAlwaysAgree ==
    ASSUME NEW tenants, NEW meetings, MeetingsOf(tenants, meetings)
    PROVE  OverviewsAgree(tenants, meetings)
<1> DEFINE by == MeetingStats(tenants, meetings)
           active == {t \in tenants : OfTenant(meetings, t) # {}}
           n == Cardinality(active)
           k == Min({TopTenants, n})
           key == [t \in active |-> by[t].attendees]
           q == CHOOSE p \in SetToSeqs(active) : Sorted(p, n, key)
           shown == ToSet(ActiveTenants(tenants, meetings))
<1>1. \A t \in tenants : /\ by[t].meetings \in Nat /\ by[t].attendees \in Nat
                         /\ by[t].meetings > 0 <=> t \in active
                         /\ t \notin active => by[t].attendees = 0
  <2>1. ASSUME NEW t \in tenants
        PROVE  /\ by[t].meetings \in Nat /\ by[t].attendees \in Nat
               /\ by[t].meetings > 0 <=> t \in active
               /\ t \notin active => by[t].attendees = 0
    <3> DEFINE s == OfTenant(meetings, t)
               f == [m \in meetings |-> m.attendees]
    <3>1. s \in SUBSET meetings /\ by[t] = AllMeetings(s)
      BY DEF OfTenant, MeetingStats
    <3>2. t \in active <=> s # {}
      OBVIOUS
    <3> HIDE DEF by, active, s
    <3>3. /\ AllMeetings(s).meetings = Cardinality(s) /\ Cardinality(s) \in Nat
          /\ Cardinality(s) > 0 <=> s # {}
          /\ AllMeetings(s).attendees = SumFunctionOnSet(f, s)
          /\ SumFunctionOnSet(f, s) \in Nat
          /\ s = {} => SumFunctionOnSet(f, s) = 0
      BY <3>1, TenantsFigures
    <3> HIDE DEF f
    <3>4. QED
      BY ONLY <3>1, <3>2, <3>3
  <2>2. QED
    BY ONLY <2>1
<1>2. IsFiniteSet(active) /\ n \in Nat
  BY FS_Subset, FS_CardinalityType DEF MeetingsOf
<1>3. key \in [active -> Nat] /\ \A t \in active : key[t] = by[t].attendees
  BY <1>1
<1>4. k \in Nat /\ k <= n /\ k <= TopTenants /\ (k = TopTenants \/ k = n)
  <2> HIDE DEF n
  <2>1. QED
    BY <1>2, TopTenantsAssumption, MinOfTwo
<1>5. q \in SetToSeqs(active) /\ Sorted(q, n, key)
  <2> HIDE DEF active, key
  <2>1. \E p \in SetToSeqs(active) : Sorted(p, n, key)
    BY <1>2, <1>3, OrderExists
  <2>2. QED
    BY <2>1
<1>6. ActiveTenants(tenants, meetings) = SubSeq(q, 1, Min({TopTenants, Len(q)}))
  <2> DEFINE attendees(t) == AllMeetings(OfTenant(meetings, t)).attendees
             ByAttendees(p) == \A i, j \in DOMAIN p : i < j => attendees(p[j]) <= attendees(p[i])
             s == CHOOSE p \in SetToSeqs(active) : ByAttendees(p)
  <2>1. \A t \in active : attendees(t) = key[t]
    BY DEF MeetingStats
  <2>2. \A p \in SetToSeqs(active) : Sorted(p, n, key) <=> ByAttendees(p)
    <3>1. SUFFICES ASSUME NEW p \in SetToSeqs(active) PROVE Sorted(p, n, key) <=> ByAttendees(p)
      OBVIOUS
    <3>2. p \in [1 .. n -> active]
      <4> HIDE DEF active
      <4>1. QED
        BY <1>2, OrdersHaveAll
    <3> HIDE DEF active, attendees, key, n
    <3>3. DOMAIN p = 1 .. n /\ \A i \in 1 .. n : p[i] \in active
      BY <3>2
    <3>4. QED
      BY <2>1, <3>3 DEF Sorted
  <2>3. s = q
    <3> HIDE DEF active, key, n, ByAttendees
    <3>1. QED
      BY <2>2
  <2>4. ActiveTenants(tenants, meetings) = SubSeq(s, 1, Min({TopTenants, Len(s)}))
    BY Zenon DEF ActiveTenants
  <2>5. QED
    BY ONLY <2>3, <2>4
<1>7. /\ q \in [1 .. n -> active]
      /\ \A i, j \in 1 .. n : i # j => q[i] # q[j]
      /\ \A t \in active : \E i \in 1 .. n : q[i] = t
  <2> HIDE DEF q, active
  <2>1. QED
    BY <1>2, <1>5, OrdersHaveAll
<1>8. active = {t \in tenants : by[t].meetings > 0}
  BY <1>1
<1> HIDE DEF q, n, active
<1>9. shown = {q[i] : i \in 1 .. k}
  <2>1. Len(q) = n /\ q \in Seq(active)
    BY <1>2, <1>7
  <2>2. ActiveTenants(tenants, meetings) = SubSeq(q, 1, k)
    BY <1>6, <2>1
  <2> HIDE DEF k
  <2>3. DOMAIN SubSeq(q, 1, k) = 1 .. k /\ \A i \in 1 .. k : SubSeq(q, 1, k)[i] = q[i]
    BY <1>2, <1>4, <2>1
  <2>4. {SubSeq(q, 1, k)[i] : i \in DOMAIN SubSeq(q, 1, k)} = {q[i] : i \in 1 .. k}
    BY <2>3
  <2>5. QED
    BY <2>2, <2>4 DEF ToSet
<1> HIDE DEF k, key, shown
<1>10. \A i \in 1 .. k : i \in 1 .. n /\ q[i] \in active /\ q[i] \in shown
  BY <1>2, <1>4, <1>7, <1>9
<1>11. Cardinality(shown) = k
  <2> DEFINE p == [i \in 1 .. k |-> q[i]]
  <2>1. p \in Surjection(1 .. k, shown)
    BY <1>9, <1>10 DEF Surjection
  <2>2. p \in Injection(1 .. k, shown)
    BY <1>7, <1>10 DEF Injection, IsInjective
  <2> HIDE DEF p
  <2>3. QED
    BY <1>4, <2>1, <2>2, UpTo, FS_Surjection
<1>12. ASSUME NEW t \in shown
       PROVE  by[t].meetings > 0 /\ \A u \in tenants \ shown : by[u].attendees <= by[t].attendees
  <2>1. PICK i \in 1 .. k : q[i] = t
    BY <1>9
  <2>2. t \in active /\ t \in tenants /\ i \in 1 .. n
    BY <1>8, <1>10, <2>1
  <2>3. ASSUME NEW u \in tenants \ shown PROVE by[u].attendees <= by[t].attendees
    <3>1. CASE u \notin active
      BY <1>1, <2>2, <3>1
    <3>2. CASE u \in active
      <4>1. PICK j \in 1 .. n : q[j] = u
        BY <1>7, <3>2
      <4>2. j \notin 1 .. k
        BY <1>10, <4>1
      <4>3. i < j
        BY <1>2, <1>4, <2>1, <4>1, <4>2
      <4>4. key[q[j]] <= key[q[i]]
        BY <1>5, <2>2, <4>1, <4>3 DEF Sorted
      <4>5. QED
        BY <1>3, <2>1, <2>2, <3>2, <4>1, <4>4
    <3>3. QED
      BY <3>1, <3>2
  <2>4. by[t].meetings > 0
    BY <1>1, <2>2
  <2>5. QED
    BY <2>3, <2>4
<1>13. Cardinality(shown) = Min({TopTenants, Cardinality({t \in tenants : by[t].meetings > 0})})
  BY ONLY <1>8, <1>11 DEF k, n
<1>14. AllMeetings(meetings) = [meetings |-> SumFunction([t \in tenants |-> by[t].meetings]),
                                attendees |-> SumFunction([t \in tenants |-> by[t].attendees])]
  BY TotalsAgree
<1>15. QED
  BY <1>12, <1>13, <1>14, Zenon DEF OverviewsAgree, shown, by

-----------------------------------------------------------------------------
(* Statistics by origin (Statistics).                                       *)

\* f is the recursive function over the numbers up to n.
IsRecursive(f, n, base, step) ==
    f = [k \in 0 .. n |-> IF k = 0 THEN base ELSE step[<<k, f[k - 1]>>]]

LEMMA RecursionUpTo ==
    ASSUME NEW n \in Nat, NEW R, NEW base \in R, NEW step \in [(1 .. n) \X R -> R]
    PROVE  \E f \in [0 .. n -> R] : IsRecursive(f, n, base, step)
<1> DEFINE rule == [p \in Nat \X R |-> IF p[1] + 1 \in 1 .. n THEN step[<<p[1] + 1, p[2]>>] ELSE base]
<1>1. \A i \in Nat, x \in R : /\ i + 1 \in 1 .. n => rule[<<i, x>>] = step[<<i + 1, x>>]
                              /\ rule[<<i, x>>] \in R
  BY DEF rule
<1>2. rule \in [Nat \X R -> R]
  <2>1. \A p \in Nat \X R : rule[p] \in R
    <3>1. \A p \in Nat \X R : p = <<p[1], p[2]>> /\ p[1] \in Nat /\ p[2] \in R
      OBVIOUS
    <3> HIDE DEF rule
    <3>2. QED
      BY <1>1, <3>1
  <2>2. rule = [p \in Nat \X R |-> rule[p]]
    OBVIOUS
  <2> HIDE DEF rule
  <2>3. QED
    BY <2>1, <2>2
<1> HIDE DEF rule
<1>3. IsRule(R, base, rule)
  BY <1>2 DEF IsRule
<1>4. PICK g : FollowsTo(g, n, R, base, rule)
  BY <1>3, FirstValuesExist
<1>5. g \in [0 .. n -> R] /\ g[0] = base /\ \A i \in 0 .. n - 1 : g[i + 1] = rule[<<i, g[i]>>]
  BY <1>4 DEF FollowsTo
<1> DEFINE h == [k \in 0 .. n |-> IF k = 0 THEN base ELSE step[<<k, g[k - 1]>>]]
<1>6. \A k \in 0 .. n : g[k] = h[k]
  <2>1. ASSUME NEW k \in 0 .. n PROVE g[k] = h[k]
    <3>1. CASE k = 0
      BY <1>5, <3>1
    <3>2. CASE k # 0
      <4>1. k - 1 \in 0 .. n - 1 /\ (k - 1) + 1 = k /\ k - 1 \in Nat /\ k \in 1 .. n /\ k - 1 \in 0 .. n
        BY <3>2
      <4>2. g[(k - 1) + 1] = rule[<<k - 1, g[k - 1]>>] /\ g[k - 1] \in R
        BY <1>5, <4>1
      <4>3. rule[<<k - 1, g[k - 1]>>] = step[<<(k - 1) + 1, g[k - 1]>>]
        BY <1>1, <4>1, <4>2
      <4>4. h[k] = step[<<k, g[k - 1]>>]
        BY <3>2
      <4>5. QED
        BY ONLY <4>1, <4>2, <4>3, <4>4
    <3>3. QED
      BY <3>1, <3>2
  <2>2. QED
    BY <2>1
<1>7. g = [k \in 0 .. n |-> g[k]] /\ h = [k \in 0 .. n |-> h[k]]
  BY <1>5
<1>8. g = h
  <2> HIDE DEF h
  <2>1. QED
    BY <1>6, <1>7
<1>9. IsRecursive(g, n, base, step)
  BY <1>8, Zenon DEF IsRecursive
<1>10. QED
  BY <1>5, <1>9

-----------------------------------------------------------------------------
\* One row of Stats for each origin.
StatsRecord(texts) ==
    [origin : texts, server : texts, figures : [meetings : Nat, attendees : Nat, voice : Nat]]

StatsOf(rows, texts) ==
    /\ rows \in Seq(StatsRecord(texts))
    /\ \A i, j \in DOMAIN rows : i # j => Origin(rows[i]) # Origin(rows[j])

\* Meetings that share their id with one of another secret.
Twins(meetings) == {m \in meetings : \E o \in meetings : o # m /\ o.id = m.id}

\* The figures are the sums over these meetings.
AreSums(figures, of) ==
    /\ figures.meetings = Cardinality({m \in of : m.healthy})
    /\ figures.attendees = Attendees({m \in of : m.healthy})

\* The row x has the sums of its origin, but for twins.
IsSummed(x, o, meetings) ==
    /\ Origin(x) = o
    /\ \E lost \in SUBSET Twins(meetings) : AreSums(x.figures, OfOrigin(meetings, o) \ lost)

\* What UpdateRow makes of one of the rows.
LEMMA UpdatedRow ==
    ASSUME NEW texts, NEW row \in StatsRecord(texts), NEW meetings, NEW left \in SUBSET meetings,
           \A m \in meetings \ left : Origin(m) = Origin(row) => m \in Twins(meetings)
    PROVE  IsSummed(UpdateValues(row, Figures(OfOrigin(left, Origin(row)))), Origin(row), meetings)
<1> DEFINE own == OfOrigin(left, Origin(row))
           f == Figures(own)
           x == UpdateValues(row, f)
           lost == OfOrigin(meetings, Origin(row)) \ left
<1>1. x.origin = row.origin /\ x.server = row.server /\ x.figures = [f EXCEPT !.voice = row.figures.voice]
  <2> HIDE DEF f
  <2>1. QED
    BY DEF UpdateValues, StatsRecord
<1>2. x.figures.meetings = f.meetings /\ x.figures.attendees = f.attendees
  <2>1. f = [meetings |-> f.meetings, attendees |-> f.attendees, voice |-> f.voice]
    BY DEF Figures
  <2> HIDE DEF f, x
  <2>2. QED
    BY <1>1, <2>1
<1>3. own = OfOrigin(meetings, Origin(row)) \ lost
  BY DEF OfOrigin
<1>4. lost \in SUBSET Twins(meetings)
  BY DEF OfOrigin
<1>5. f.meetings = Cardinality({m \in own : m.healthy}) /\ f.attendees = Attendees({m \in own : m.healthy})
  <2> HIDE DEF own
  <2>1. QED
    BY DEF Figures
<1> HIDE DEF own, f, x, lost
<1>6. AreSums(x.figures, OfOrigin(meetings, Origin(row)) \ lost)
  BY <1>2, <1>3, <1>5 DEF AreSums
<1>7. Origin(x) = Origin(row)
  BY <1>1 DEF Origin
<1>8. QED
  BY <1>4, <1>6, <1>7 DEF IsSummed, x, f, own

\* The rows of Stats that the first loop can make.
Updates(rows, meetings) ==
    {UpdateValues(rows[i], Figures(s)) : i \in DOMAIN rows, s \in SUBSET meetings}

Accumulated(rows, meetings) == [left : SUBSET meetings, rows : Seq(Updates(rows, meetings))]

\* The loop after k rows.
IsUpdated(a, rows, meetings, k) ==
    /\ a \in Accumulated(rows, meetings)
    /\ \A x \in ToSet(a.rows) : \E i \in 1 .. k : IsSummed(x, Origin(rows[i]), meetings)
    /\ \A i \in 1 .. k : \E x \in ToSet(a.rows) : IsSummed(x, Origin(rows[i]), meetings)
    /\ \A m \in meetings \ a.left : \E i \in 1 .. k : \E o \in OfOrigin(meetings, Origin(rows[i])) : o.id = m.id

LEMMA UpdateRowAccumulates ==
    ASSUME NEW rows, NEW meetings, NEW a \in Accumulated(rows, meetings), NEW i \in DOMAIN rows
    PROVE  /\ UpdateRow(a, rows[i]) \in Accumulated(rows, meetings)
           /\ ToSet(UpdateRow(a, rows[i]).rows)
                = ToSet(a.rows) \cup {UpdateValues(rows[i], Figures(OfOrigin(a.left, Origin(rows[i]))))}
<1> DEFINE U == Updates(rows, meetings)
           own == OfOrigin(a.left, Origin(rows[i]))
           x == UpdateValues(rows[i], Figures(own))
           left == {m \in a.left : \A o \in own : o.id # m.id}
<1>1. a.left \in SUBSET meetings /\ a.rows \in Seq(U)
  BY DEF Accumulated
<1>2. own \in SUBSET meetings /\ left \in SUBSET meetings
  BY <1>1 DEF OfOrigin
<1>3. x \in U
  <2> HIDE DEF own
  <2>1. QED
    BY <1>2 DEF Updates
<1>4. UpdateRow(a, rows[i]) = [left |-> left, rows |-> Append(a.rows, x)]
  BY DEF UpdateRow
<1> HIDE DEF U, own, x, left
<1>5. Append(a.rows, x) \in Seq(U)
  BY <1>1, <1>3
<1>6. ToSet(Append(a.rows, x)) = ToSet(a.rows) \cup {x}
  <2> DEFINE s == a.rows
             t == Append(s, x)
             n == Len(s)
  <2>1. /\ n \in Nat /\ DOMAIN s = 1 .. n /\ DOMAIN t = 1 .. n + 1
        /\ t[n + 1] = x /\ \A j \in 1 .. n : t[j] = s[j]
    BY <1>1, <1>3
  <2> HIDE DEF s, t, n
  <2>2. {t[j] : j \in 1 .. n + 1} = {s[j] : j \in 1 .. n} \cup {x}
    <3>1. n + 1 \in 1 .. n + 1 /\ \A j \in 1 .. n : j \in 1 .. n + 1
      BY <2>1
    <3>2. \A j \in 1 .. n + 1 : j = n + 1 \/ j \in 1 .. n
      BY <2>1
    <3>3. QED
      BY ONLY <2>1, <3>1, <3>2
  <2>3. QED
    BY <2>1, <2>2 DEF ToSet, s, t
<1>7. QED
  BY <1>2, <1>4, <1>5, <1>6 DEF Accumulated, U, x, own

LEMMA UpdatedNext ==
    ASSUME NEW texts, NEW rows, StatsOf(rows, texts), NEW meetings, NEW k \in Nat, k + 1 \in DOMAIN rows,
           NEW a, IsUpdated(a, rows, meetings, k)
    PROVE  IsUpdated(UpdateRow(a, rows[k + 1]), rows, meetings, k + 1)
<1> DEFINE row == rows[k + 1]
           o == Origin(row)
           own == OfOrigin(a.left, o)
           x == UpdateValues(row, Figures(own))
           b == UpdateRow(a, row)
<1>1. DOMAIN rows = 1 .. Len(rows) /\ Len(rows) \in Nat /\ row \in StatsRecord(texts)
  <2> DEFINE R == StatsRecord(texts)
  <2>1. rows \in Seq(R)
    BY DEF StatsOf
  <2> HIDE DEF R
  <2>2. DOMAIN rows = 1 .. Len(rows) /\ Len(rows) \in Nat /\ row \in R
    BY <2>1
  <2>3. QED
    BY <2>2 DEF R
<1>2. a \in Accumulated(rows, meetings) /\ a.left \in SUBSET meetings
  BY DEF IsUpdated, Accumulated
<1>3. b \in Accumulated(rows, meetings) /\ ToSet(b.rows) = ToSet(a.rows) \cup {x}
  BY <1>2, UpdateRowAccumulates
<1>4. b.left = {m \in a.left : \A e \in own : e.id # m.id}
  BY DEF UpdateRow
<1>5. ASSUME NEW m \in meetings \ a.left, Origin(m) = o PROVE m \in Twins(meetings)
  <2>1. PICK i \in 1 .. k : \E e \in OfOrigin(meetings, Origin(rows[i])) : e.id = m.id
    BY DEF IsUpdated
  <2>2. PICK e \in OfOrigin(meetings, Origin(rows[i])) : e.id = m.id
    BY <2>1
  <2>3. i # k + 1 /\ i \in DOMAIN rows
    BY <1>1
  <2>4. Origin(rows[i]) # o
    BY <2>3 DEF StatsOf
  <2>5. e \in meetings /\ Origin(e) = Origin(rows[i])
    BY DEF OfOrigin
  <2>6. e # m
    BY <1>5, <2>4, <2>5
  <2>7. QED
    BY <2>2, <2>5, <2>6 DEF Twins
<1>6. IsSummed(x, o, meetings)
  <2> HIDE DEF row
  <2>1. QED
    BY <1>1, <1>2, <1>5, UpdatedRow
<1>7. \A i \in 1 .. k + 1 : i \in 1 .. k \/ i = k + 1
  OBVIOUS
<1>8. k + 1 \in 1 .. k + 1 /\ \A i \in 1 .. k : i \in 1 .. k + 1
  OBVIOUS
<1>9. \A y \in ToSet(b.rows) : \E i \in 1 .. k + 1 : IsSummed(y, Origin(rows[i]), meetings)
  <2>1. ASSUME NEW y \in ToSet(b.rows) PROVE \E i \in 1 .. k + 1 : IsSummed(y, Origin(rows[i]), meetings)
    <3>1. CASE y = x
      BY <1>6, <1>8, <3>1
    <3>2. CASE y \in ToSet(a.rows)
      <4>1. PICK i \in 1 .. k : IsSummed(y, Origin(rows[i]), meetings)
        BY <3>2 DEF IsUpdated
      <4>2. QED
        BY <1>8, <4>1
    <3>3. QED
      BY <1>3, <3>1, <3>2
  <2>2. QED
    BY <2>1
<1>10. \A i \in 1 .. k + 1 : \E y \in ToSet(b.rows) : IsSummed(y, Origin(rows[i]), meetings)
  <2>1. ASSUME NEW i \in 1 .. k + 1 PROVE \E y \in ToSet(b.rows) : IsSummed(y, Origin(rows[i]), meetings)
    <3>1. CASE i = k + 1
      BY <1>3, <1>6, <3>1
    <3>2. CASE i \in 1 .. k
      <4>1. PICK y \in ToSet(a.rows) : IsSummed(y, Origin(rows[i]), meetings)
        BY <3>2 DEF IsUpdated
      <4>2. QED
        BY <1>3, <4>1
    <3>3. QED
      BY <1>7, <3>1, <3>2
  <2>2. QED
    BY <2>1
<1>11. \A m \in meetings \ b.left : \E i \in 1 .. k + 1 : \E e \in OfOrigin(meetings, Origin(rows[i])) : e.id = m.id
  <2>1. ASSUME NEW m \in meetings \ b.left
        PROVE  \E i \in 1 .. k + 1 : \E e \in OfOrigin(meetings, Origin(rows[i])) : e.id = m.id
    <3>1. CASE m \in a.left
      <4>1. PICK e \in own : e.id = m.id
        BY <1>4, <3>1
      <4>2. e \in OfOrigin(meetings, Origin(rows[k + 1]))
        BY <1>2 DEF OfOrigin
      <4>3. QED
        BY <1>8, <4>1, <4>2
    <3>2. CASE m \notin a.left
      <4>1. PICK i \in 1 .. k : \E e \in OfOrigin(meetings, Origin(rows[i])) : e.id = m.id
        BY <3>2 DEF IsUpdated
      <4>2. QED
        BY <1>8, <4>1
    <3>3. QED
      BY <3>1, <3>2
  <2>2. QED
    BY <2>1
<1> HIDE DEF b, x, own, o
<1>12. IsUpdated(b, rows, meetings, k + 1)
  BY <1>3, <1>9, <1>10, <1>11 DEF IsUpdated
<1>13. QED
  BY <1>12 DEF b, row

\* f is the loop after each of the n rows.
IsLoop(f, rows, meetings, n) ==
    f = [k \in 0 .. n |-> IF k = 0 THEN [left |-> meetings, rows |-> <<>>] ELSE UpdateRow(f[k - 1], rows[k])]

LEMMA LoopExists ==
    ASSUME NEW texts, NEW rows, StatsOf(rows, texts), NEW meetings
    PROVE  \E f : IsLoop(f, rows, meetings, Len(rows))
<1> DEFINE n == Len(rows)
           R == Accumulated(rows, meetings)
           base == [left |-> meetings, rows |-> <<>>]
           step == [p \in (1 .. n) \X R |-> UpdateRow(p[2], rows[p[1]])]
<1>1. n \in Nat /\ DOMAIN rows = 1 .. n
  BY DEF StatsOf
<1>2. base \in R
  BY DEF Accumulated
<1>3. step \in [(1 .. n) \X R -> R]
  <2>1. ASSUME NEW p \in (1 .. n) \X R PROVE UpdateRow(p[2], rows[p[1]]) \in R
    <3>1. p[1] \in DOMAIN rows /\ p[2] \in R
      BY <1>1
    <3> HIDE DEF n
    <3>2. QED
      BY <3>1, UpdateRowAccumulates
  <2>2. QED
    BY <2>1
<1>4. \A k \in 1 .. n, a \in R : step[<<k, a>>] = UpdateRow(a, rows[k])
  OBVIOUS
<1> HIDE DEF n, R, base, step
<1>5. PICK f \in [0 .. n -> R] : IsRecursive(f, n, base, step)
  BY <1>1, <1>2, <1>3, RecursionUpTo
<1> DEFINE g == [k \in 0 .. n |-> IF k = 0 THEN base ELSE step[<<k, f[k - 1]>>]]
           h == [k \in 0 .. n |-> IF k = 0 THEN base ELSE UpdateRow(f[k - 1], rows[k])]
<1>6. \A k \in 0 .. n : k # 0 => step[<<k, f[k - 1]>>] = UpdateRow(f[k - 1], rows[k])
  <2>1. \A k \in 0 .. n : k # 0 => k \in 1 .. n /\ k - 1 \in 0 .. n
    BY <1>1
  <2>2. QED
    BY <1>4, <1>5, <2>1
<1>7. g = h
  BY <1>6
<1>8. f = h
  <2>1. f = g
    BY <1>5, Zenon DEF IsRecursive
  <2>2. QED
    BY ONLY <1>7, <2>1
<1>9. QED
  BY <1>8, Zenon DEF IsLoop, base, n

LEMMA LoopUpdates ==
    ASSUME NEW texts, NEW rows, StatsOf(rows, texts), NEW meetings,
           NEW f, IsLoop(f, rows, meetings, Len(rows)), NEW k \in 0 .. Len(rows)
    PROVE  IsUpdated(f[k], rows, meetings, k)
<1> DEFINE n == Len(rows)
           base == [left |-> meetings, rows |-> <<>>]
           S == {j \in Nat : j <= n => IsUpdated(f[j], rows, meetings, j)}
<1>1. n \in Nat /\ DOMAIN rows = 1 .. n
  BY DEF StatsOf
<1>2. f[0] = base /\ \A j \in Nat : j + 1 <= n => f[j + 1] = UpdateRow(f[j], rows[j + 1])
  <2> DEFINE h == [j \in 0 .. n |-> IF j = 0 THEN base ELSE UpdateRow(f[j - 1], rows[j])]
  <2>1. f = h
    BY Zenon DEF IsLoop
  <2>2. h[0] = base
    BY <1>1
  <2>3. ASSUME NEW j \in Nat, j + 1 <= n PROVE h[j + 1] = UpdateRow(f[j], rows[j + 1])
    <3>1. j + 1 \in 0 .. n /\ j + 1 # 0 /\ (j + 1) - 1 = j
      BY <1>1, <2>3
    <3> HIDE DEF n, base
    <3>2. h[j + 1] = UpdateRow(f[(j + 1) - 1], rows[j + 1])
      BY <3>1
    <3> HIDE DEF h
    <3>3. QED
      BY ONLY <3>1, <3>2
  <2> HIDE DEF h
  <2>4. QED
    BY <2>1, <2>2, <2>3
<1>3. 0 \in S
  <2>1. base \in Accumulated(rows, meetings) /\ ToSet(base.rows) = {} /\ base.left = meetings
    BY DEF Accumulated, ToSet
  <2> HIDE DEF base
  <2>2. IsUpdated(base, rows, meetings, 0)
    BY <2>1 DEF IsUpdated
  <2>3. QED
    BY <1>2, <2>2
<1>4. ASSUME NEW j \in S PROVE j + 1 \in S
  <2>1. SUFFICES ASSUME j + 1 <= n PROVE IsUpdated(f[j + 1], rows, meetings, j + 1)
    OBVIOUS
  <2>2. j \in Nat /\ IsUpdated(f[j], rows, meetings, j) /\ j + 1 \in DOMAIN rows
    BY <1>1, <2>1
  <2>3. IsUpdated(UpdateRow(f[j], rows[j + 1]), rows, meetings, j + 1)
    BY <2>2, UpdatedNext
  <2>4. f[j + 1] = UpdateRow(f[j], rows[j + 1])
    BY <1>2, <2>1, <2>2
  <2>5. QED
    BY <2>3, <2>4
<1>5. S \in SUBSET Nat
  OBVIOUS
<1> HIDE DEF S
<1>6. S = Nat
  BY <1>3, <1>4, <1>5, NatSetInduction
<1>7. k \in S /\ k <= n
  BY <1>1, <1>6
<1>8. QED
  BY <1>7 DEF S

\* The meetings of which update_tenant_statistics knows the origin.
IsKnown(m) == m.healthy /\ m.origin # Unknown /\ m.server # Unknown

\* A row it adds.
NewRow(o, meetings) ==
    UpdateValues([origin |-> o[1], server |-> o[2], figures |-> NoFigures], Figures(OfOrigin(meetings, o)))

LEMMA StatisticsAre ==
    ASSUME NEW texts, NEW rows, StatsOf(rows, texts), NEW meetings
    PROVE  \E a : /\ IsUpdated(a, rows, meetings, Len(rows))
                  /\ UpdateTenantStatistics(rows, meetings)
                       = ToSet(a.rows) \cup
                         {NewRow(o, a.left) : o \in {Origin(m) : m \in {m \in a.left : IsKnown(m)}}
                                                    \ {Origin(row) : row \in ToSet(rows)}}
<1> DEFINE n == Len(rows)
           after == CHOOSE f : IsLoop(f, rows, meetings, n)
           a == after[n]
<1>1. IsLoop(after, rows, meetings, n)
  BY LoopExists
<1>2. n \in 0 .. n
  BY DEF StatsOf
<1> HIDE DEF after
<1>3. IsUpdated(a, rows, meetings, n)
  BY <1>1, <1>2, LoopUpdates
<1>4. UpdateTenantStatistics(rows, meetings)
        = ToSet(a.rows) \cup
          {NewRow(o, a.left) : o \in {Origin(m) : m \in {m \in a.left : IsKnown(m)}}
                                     \ {Origin(row) : row \in ToSet(rows)}}
  BY Zenon DEF UpdateTenantStatistics, after, IsLoop, NewRow, IsKnown
<1>5. QED
  BY <1>3, <1>4

LEMMA NewRowIsSummed ==
    ASSUME NEW meetings, NEW left \in SUBSET meetings, NEW e \in left,
           \A m \in meetings \ left : Origin(m) = Origin(e) => m \in Twins(meetings)
    PROVE  IsSummed(NewRow(Origin(e), left), Origin(e), meetings)
<1> DEFINE texts == {e.origin, e.server}
           row == [origin |-> e.origin, server |-> e.server, figures |-> NoFigures]
<1>1. row \in StatsRecord(texts) /\ Origin(row) = Origin(e)
  BY DEF StatsRecord, NoFigures, Origin
<1>2. NewRow(Origin(e), left) = UpdateValues(row, Figures(OfOrigin(left, Origin(e))))
  <2>1. Origin(e)[1] = e.origin /\ Origin(e)[2] = e.server
    BY DEF Origin
  <2>2. QED
    BY <2>1 DEF NewRow
<1> HIDE DEF row, texts
<1>3. \A m \in meetings \ left : Origin(m) = Origin(row) => m \in Twins(meetings)
  BY <1>1
<1>4. IsSummed(UpdateValues(row, Figures(OfOrigin(left, Origin(row)))), Origin(row), meetings)
  BY <1>1, <1>3, UpdatedRow
<1>5. QED
  BY ONLY <1>1, <1>2, <1>4

LEMMA StatisticsShow ==
    ASSUME NEW texts, NEW rows, StatsOf(rows, texts), NEW meetings
    PROVE  /\ \A x \in UpdateTenantStatistics(rows, meetings) : IsSummed(x, Origin(x), meetings)
           /\ \A m \in meetings \ Twins(meetings) :
                 IsKnown(m) => \E x \in UpdateTenantStatistics(rows, meetings) : Origin(x) = Origin(m)
<1> DEFINE n == Len(rows)
           old == {Origin(row) : row \in ToSet(rows)}
           all == UpdateTenantStatistics(rows, meetings)
<1>1. PICK a : /\ IsUpdated(a, rows, meetings, n)
               /\ all = ToSet(a.rows) \cup
                        {NewRow(o, a.left) : o \in {Origin(m) : m \in {m \in a.left : IsKnown(m)}} \ old}
  BY StatisticsAre
<1> HIDE DEF all
<1>2. old = {Origin(rows[i]) : i \in 1 .. n}
  <2>1. DOMAIN rows = 1 .. n
    BY DEF StatsOf
  <2>2. QED
    BY <2>1 DEF ToSet
<1>3. a.left \in SUBSET meetings
  BY <1>1 DEF IsUpdated, Accumulated
<1>4. ASSUME NEW m \in meetings \ a.left, m \notin Twins(meetings)
      PROVE  \E i \in 1 .. n : Origin(m) = Origin(rows[i])
  <2>1. PICK i \in 1 .. n : \E e \in OfOrigin(meetings, Origin(rows[i])) : e.id = m.id
    BY <1>1 DEF IsUpdated
  <2>2. PICK e \in OfOrigin(meetings, Origin(rows[i])) : e.id = m.id
    BY <2>1
  <2>3. e \in meetings /\ Origin(e) = Origin(rows[i])
    BY DEF OfOrigin
  <2>4. e = m
    BY <1>4, <2>2, <2>3 DEF Twins
  <2>5. QED
    BY <2>3, <2>4
<1>5. ASSUME NEW e \in a.left, Origin(e) \notin old
      PROVE  IsSummed(NewRow(Origin(e), a.left), Origin(e), meetings)
  <2>1. \A m \in meetings \ a.left : Origin(m) = Origin(e) => m \in Twins(meetings)
    BY <1>2, <1>4, <1>5
  <2>2. QED
    BY <1>3, <2>1, NewRowIsSummed
<1>6. ASSUME NEW x \in all PROVE IsSummed(x, Origin(x), meetings)
  <2>1. CASE x \in ToSet(a.rows)
    <3>1. PICK i \in 1 .. n : IsSummed(x, Origin(rows[i]), meetings)
      BY <1>1, <2>1 DEF IsUpdated
    <3>2. Origin(x) = Origin(rows[i])
      BY <3>1 DEF IsSummed
    <3>3. QED
      BY <3>1, <3>2
  <2>2. CASE x \notin ToSet(a.rows)
    <3>1. PICK e \in a.left : Origin(e) \notin old /\ x = NewRow(Origin(e), a.left)
      BY <1>1, <2>2
    <3>2. IsSummed(x, Origin(e), meetings)
      BY <1>5, <3>1
    <3>3. Origin(x) = Origin(e)
      BY <3>2 DEF IsSummed
    <3>4. QED
      BY <3>2, <3>3
  <2>3. QED
    BY <2>1, <2>2
<1>7. ASSUME NEW m \in meetings \ Twins(meetings), IsKnown(m)
      PROVE  \E x \in all : Origin(x) = Origin(m)
  <2>1. CASE Origin(m) \in old
    <3>1. PICK i \in 1 .. n : Origin(m) = Origin(rows[i])
      BY <1>2, <2>1
    <3>2. PICK x \in ToSet(a.rows) : IsSummed(x, Origin(rows[i]), meetings)
      BY <1>1 DEF IsUpdated
    <3>3. x \in all /\ Origin(x) = Origin(m)
      BY <1>1, <3>1, <3>2 DEF IsSummed
    <3>4. QED
      BY <3>3
  <2>2. CASE Origin(m) \notin old
    <3>1. m \in a.left
      BY <1>2, <1>4, <2>2
    <3>2. NewRow(Origin(m), a.left) \in all
      BY <1>1, <1>7, <2>2, <3>1
    <3>3. Origin(NewRow(Origin(m), a.left)) = Origin(m)
      BY <1>5, <2>2, <3>1 DEF IsSummed
    <3>4. QED
      BY <3>2, <3>3
  <2>3. QED
    BY <2>1, <2>2
<1>8. QED
  BY <1>6, <1>7 DEF all

(***************************************************************************)
(* Whatever meetings a tenant has, the statistics by origin are the sums   *)
(* over the running meetings of each origin, but for meetings that share   *)
(* their id, and no other running meeting is left out                      *)
(* (statistics.py:99-160).                                                 *)
(***************************************************************************)
THEOREM OriginsAreAlwaysSummed ==
    ASSUME NEW texts, NEW rows, StatsOf(rows, texts), NEW meetings
    PROVE  OriginsAreSummed(rows, meetings)
<1> DEFINE all == UpdateTenantStatistics(rows, meetings)
           shown == TenantStatistic(all)
           origins(server) == {row.origin : row \in {x \in all : x.server = server}}
           of(origin, server) == CHOOSE row \in all : Origin(row) = <<origin, server>>
<1>1. /\ \A x \in all : IsSummed(x, Origin(x), meetings)
      /\ \A m \in meetings \ Twins(meetings) : IsKnown(m) => \E x \in all : Origin(x) = Origin(m)
  BY StatisticsShow
<1> HIDE DEF all
<1>2. /\ DOMAIN shown = {row.server : row \in all}
      /\ \A server \in DOMAIN shown :
            /\ DOMAIN shown[server] = origins(server)
            /\ \A origin \in origins(server) : shown[server][origin] = of(origin, server).figures
  BY DEF TenantStatistic
<1> HIDE DEF shown, of
<1>3. ASSUME NEW server \in DOMAIN shown, NEW origin \in DOMAIN shown[server]
      PROVE  \E lost \in SUBSET Twins(meetings) :
                 AreSums(shown[server][origin], OfOrigin(meetings, <<origin, server>>) \ lost)
  <2>1. PICK x \in all : x.server = server /\ x.origin = origin
    BY <1>2
  <2>2. Origin(x) = <<origin, server>>
    BY <2>1 DEF Origin
  <2>3. of(origin, server) \in all /\ Origin(of(origin, server)) = <<origin, server>>
    BY <2>2 DEF of
  <2>4. IsSummed(of(origin, server), <<origin, server>>, meetings)
    BY <1>1, <2>3
  <2>5. shown[server][origin] = of(origin, server).figures
    BY <1>2
  <2>6. QED
    BY <2>4, <2>5 DEF IsSummed
<1>4. ASSUME NEW m \in meetings \ Twins(meetings), IsKnown(m)
      PROVE  m.server \in DOMAIN shown /\ m.origin \in DOMAIN shown[m.server]
  <2>1. PICK x \in all : Origin(x) = Origin(m)
    BY <1>1, <1>4
  <2>2. x.server = m.server /\ x.origin = m.origin
    BY <2>1 DEF Origin
  <2>3. m.server \in DOMAIN shown /\ m.origin \in origins(m.server)
    BY <1>2, <2>1, <2>2
  <2>4. QED
    BY <1>2, <2>3
<1> HIDE DEF origins
<1>5. QED
  BY <1>3, <1>4, Zenon DEF OriginsAreSummed, shown, all, IsKnown, Twins, AreSums

-----------------------------------------------------------------------------
(* Gauges (Statistics).                                                     *)

-----------------------------------------------------------------------------
\* The rows of Meeting and of Metric belong to secrets there are, and the
\* answers of the nodes say how many attend a meeting.
GaugesOf(metrics, secrets, rows, reports) ==
    /\ MetricsOf(secrets, metrics)
    /\ IsFiniteSet(rows) /\ \A m \in rows : m.secret \in secrets
    /\ IsFiniteSet(DOMAIN reports)
    /\ \A n \in DOMAIN reports : \A i \in DOMAIN reports[n] : reports[n][i] \in Int

\* The rows that checks of these nodes leave as they are, and those they set.
LeftAlone(metrics, secrets, nodes) ==
    {r \in metrics : r.node \notin nodes \/ r.secret \notin secrets \/ r.name \notin GaugeNames}

Put(secrets, rows, reports, nodes) ==
    {Gauge(name, s, n, rows, reports[n]) : name \in GaugeNames, s \in secrets, n \in nodes}

\* The rows of Metric after a check of each of these nodes.
Checked(metrics, secrets, rows, reports, nodes) ==
    LeftAlone(metrics, secrets, nodes) \cup Put(secrets, rows, reports, nodes)

LEMMA OneMoreChecked ==
    ASSUME NEW metrics, NEW secrets, NEW rows, NEW reports, NEW nodes, NEW n
    PROVE  GaugesSet(Checked(metrics, secrets, rows, reports, nodes), n, secrets, rows, reports[n])
             = Checked(metrics, secrets, rows, reports, nodes \cup {n})
<1> DEFINE K == LeftAlone(metrics, secrets, nodes)
           P == Put(secrets, rows, reports, nodes)
           new == {Gauge(name, s, n, rows, reports[n]) : name \in GaugeNames, s \in secrets}
           stays(r) == r.node # n \/ r.secret \notin secrets \/ r.name \notin GaugeNames
<1>1. GaugesSet(K \cup P, n, secrets, rows, reports[n]) = {r \in K \cup P : stays(r)} \cup new
  <2> HIDE DEF K, P
  <2>1. QED
    BY DEF GaugesSet
<1>2. {r \in K : stays(r)} = LeftAlone(metrics, secrets, nodes \cup {n})
  BY DEF LeftAlone
<1>3. \A name \in GaugeNames, s \in secrets : \A e :
         LET r == Gauge(name, s, e, rows, reports[e])
         IN  r.node = e /\ r.secret \in secrets /\ r.name \in GaugeNames
  BY DEF Gauge
<1>4. {r \in P : stays(r)} \cup new = Put(secrets, rows, reports, nodes \cup {n})
  <2>1. ASSUME NEW r \in P, stays(r) PROVE r \in Put(secrets, rows, reports, nodes \cup {n})
    BY <2>1 DEF Put
  <2>2. new \subseteq Put(secrets, rows, reports, nodes \cup {n})
    BY DEF Put
  <2>3. ASSUME NEW r \in Put(secrets, rows, reports, nodes \cup {n})
        PROVE  r \in new \/ (r \in P /\ stays(r))
    <3>1. PICK name \in GaugeNames, s \in secrets, e \in nodes \cup {n} : r = Gauge(name, s, e, rows, reports[e])
      BY DEF Put
    <3>2. CASE e = n
      BY <3>1, <3>2
    <3>3. CASE e # n
      <4>1. r \in P
        BY <3>1, <3>3 DEF Put
      <4>2. r.node = e
        BY <1>3, <3>1
      <4>3. QED
        BY <3>3, <4>1, <4>2
    <3>4. QED
      BY <3>2, <3>3
  <2> HIDE DEF P, new, stays
  <2>4. QED
    BY ONLY <2>1, <2>2, <2>3
<1> HIDE DEF K, P, new, stays
<1>5. {r \in K \cup P : stays(r)} \cup new
        = {r \in K : stays(r)} \cup ({r \in P : stays(r)} \cup new)
  OBVIOUS
<1>6. QED
  BY <1>1, <1>2, <1>4, <1>5, Zenon DEF Checked, K, P

LEMMA NoneChecked ==
    ASSUME NEW metrics, NEW secrets, NEW rows, NEW reports
    PROVE  Checked(metrics, secrets, rows, reports, {}) = metrics
  BY DEF Checked, LeftAlone, Put

\* f is the rows of Metric after each check of the nodes in order.
IsChecking(f, metrics, secrets, rows, reports, order) ==
    f = [k \in 0 .. Len(order) |->
            IF k = 0 THEN metrics ELSE GaugesSet(f[k - 1], order[k], secrets, rows, reports[order[k]])]

\* The first nodes of the order.
FirstOf(order, k) == {order[i] : i \in 1 .. k}

LEMMA CheckingExists ==
    ASSUME NEW metrics, NEW secrets, NEW rows, NEW reports, NEW D, NEW order \in Seq(D)
    PROVE  \E f : IsChecking(f, metrics, secrets, rows, reports, order)
<1>0. \A nodes, e : GaugesSet(Checked(metrics, secrets, rows, reports, nodes), e, secrets, rows, reports[e])
                       = Checked(metrics, secrets, rows, reports, nodes \cup {e})
  <2>1. ASSUME NEW nodes, NEW e
        PROVE  GaugesSet(Checked(metrics, secrets, rows, reports, nodes), e, secrets, rows, reports[e])
                 = Checked(metrics, secrets, rows, reports, nodes \cup {e})
    BY ONLY OneMoreChecked
  <2>2. QED
    BY ONLY <2>1
<1> DEFINE n == Len(order)
           f == [k \in 0 .. n |-> Checked(metrics, secrets, rows, reports, FirstOf(order, k))]
           next(k) == GaugesSet(f[k - 1], order[k], secrets, rows, reports[order[k]])
           g == [k \in 0 .. n |-> IF k = 0 THEN metrics ELSE next(k)]
<1>1. n \in Nat
  OBVIOUS
<1>2. f[0] = metrics
  <2>1. FirstOf(order, 0) = {}
    BY DEF FirstOf
  <2>2. Checked(metrics, secrets, rows, reports, FirstOf(order, 0)) = metrics
    BY <2>1, NoneChecked
  <2>3. QED
    BY <1>1, <2>2
<1>3. ASSUME NEW k \in 0 .. n, k # 0 PROVE f[k] = next(k)
  <2>1. FirstOf(order, k) = FirstOf(order, k - 1) \cup {order[k]}
    <3>1. \A i \in 1 .. k : i = k \/ i \in 1 .. k - 1
      BY <1>1
    <3>2. k \in 1 .. k /\ \A i \in 1 .. k - 1 : i \in 1 .. k
      BY <1>1, <1>3
    <3>3. QED
      BY <3>1, <3>2 DEF FirstOf
  <2>2. GaugesSet(Checked(metrics, secrets, rows, reports, FirstOf(order, k - 1)), order[k], secrets, rows,
                  reports[order[k]])
          = Checked(metrics, secrets, rows, reports, FirstOf(order, k - 1) \cup {order[k]})
    BY ONLY <1>0
  <2>3. k - 1 \in 0 .. n
    BY <1>1, <1>3
  <2>4. f[k - 1] = Checked(metrics, secrets, rows, reports, FirstOf(order, k - 1))
    BY <2>3
  <2>5. f[k] = Checked(metrics, secrets, rows, reports, FirstOf(order, k))
    OBVIOUS
  <2>6. QED
    BY ONLY <2>1, <2>2, <2>4, <2>5
<1>4. f = g
  <2>1. \A k \in 0 .. n : f[k] = g[k]
    <3> HIDE DEF f, next
    <3>1. QED
      BY <1>2, <1>3
  <2>2. f = [k \in 0 .. n |-> f[k]] /\ g = [k \in 0 .. n |-> g[k]]
    OBVIOUS
  <2> HIDE DEF f, g
  <2>3. QED
    BY <2>1, <2>2
<1> HIDE DEF f
<1>5. IsChecking(f, metrics, secrets, rows, reports, order)
  BY <1>4, Zenon DEF IsChecking, n
<1>6. QED
  BY <1>5

LEMMA CheckingChecks ==
    ASSUME NEW metrics, NEW secrets, NEW rows, NEW reports, NEW D, NEW order \in Seq(D),
           NEW f, IsChecking(f, metrics, secrets, rows, reports, order)
    PROVE  f[Len(order)] = Checked(metrics, secrets, rows, reports, FirstOf(order, Len(order)))
<1>0. \A nodes, e : GaugesSet(Checked(metrics, secrets, rows, reports, nodes), e, secrets, rows, reports[e])
                       = Checked(metrics, secrets, rows, reports, nodes \cup {e})
  <2>1. ASSUME NEW nodes, NEW e
        PROVE  GaugesSet(Checked(metrics, secrets, rows, reports, nodes), e, secrets, rows, reports[e])
                 = Checked(metrics, secrets, rows, reports, nodes \cup {e})
    BY ONLY OneMoreChecked
  <2>2. QED
    BY ONLY <2>1
<1> DEFINE n == Len(order)
           after(k) == Checked(metrics, secrets, rows, reports, FirstOf(order, k))
           S == {k \in Nat : k <= n => f[k] = after(k)}
           g == [k \in 0 .. n |->
                   IF k = 0 THEN metrics ELSE GaugesSet(f[k - 1], order[k], secrets, rows, reports[order[k]])]
<1>1. n \in Nat /\ f = g
  <2>1. n \in Nat
    OBVIOUS
  <2>2. f = g
    BY Zenon DEF IsChecking
  <2>3. QED
    BY <2>1, <2>2
<1>2. 0 \in S
  <2>1. FirstOf(order, 0) = {}
    BY DEF FirstOf
  <2>2. after(0) = metrics
    BY <2>1, NoneChecked
  <2> HIDE DEF after
  <2>3. g[0] = metrics
    BY <1>1
  <2>4. QED
    BY <1>1, <2>2, <2>3
<1>3. ASSUME NEW k \in S PROVE k + 1 \in S
  <2>1. SUFFICES ASSUME k + 1 <= n PROVE f[k + 1] = after(k + 1)
    OBVIOUS
  <2>2. k \in Nat /\ f[k] = after(k) /\ k + 1 \in 0 .. n /\ k + 1 # 0 /\ (k + 1) - 1 = k
    BY <1>1, <2>1
  <2>3. FirstOf(order, k + 1) = FirstOf(order, k) \cup {order[k + 1]}
    <3>1. \A i \in 1 .. k + 1 : i = k + 1 \/ i \in 1 .. k
      BY <2>2
    <3>2. k + 1 \in 1 .. k + 1 /\ \A i \in 1 .. k : i \in 1 .. k + 1
      BY <2>2
    <3>3. QED
      BY <3>1, <3>2 DEF FirstOf
  <2>4. g[k + 1] = GaugesSet(f[k], order[k + 1], secrets, rows, reports[order[k + 1]])
    <3>1. g[k + 1] = GaugesSet(f[(k + 1) - 1], order[k + 1], secrets, rows, reports[order[k + 1]])
      BY <2>2
    <3> HIDE DEF g
    <3>2. QED
      BY ONLY <2>2, <3>1
  <2>5. GaugesSet(after(k), order[k + 1], secrets, rows, reports[order[k + 1]])
          = Checked(metrics, secrets, rows, reports, FirstOf(order, k) \cup {order[k + 1]})
    BY ONLY <1>0
  <2>6. f[k + 1] = g[k + 1]
    BY ONLY <1>1
  <2>7. QED
    BY ONLY <2>2, <2>3, <2>4, <2>5, <2>6
<1>4. S \in SUBSET Nat
  OBVIOUS
<1> HIDE DEF S
<1>5. S = Nat
  BY <1>2, <1>3, <1>4, NatSetInduction
<1>6. n \in S /\ n <= n
  BY <1>1, <1>5
<1>7. QED
  BY <1>6 DEF S

\* The rows after a check of every node that answers.
LEMMA AllAreChecked ==
    ASSUME NEW metrics, NEW secrets, NEW rows, NEW reports, IsFiniteSet(DOMAIN reports)
    PROVE  NodesChecked(metrics, secrets, rows, reports)
             = Checked(metrics, secrets, rows, reports, DOMAIN reports)
<1> DEFINE D == DOMAIN reports
           order == SetToSeq(D)
           n == Cardinality(D)
           after == CHOOSE f : IsChecking(f, metrics, secrets, rows, reports, order)
<1>1. order \in [1 .. n -> D] /\ IsInjective(order) /\ n \in Nat
  <2>1. n \in Nat /\ ExistsBijection(1 .. n, D)
    BY FS_CardinalityType
  <2>2. \E f \in [1 .. n -> D] : IsInjective(f)
    BY <2>1 DEF ExistsBijection, Bijection, Injection
  <2>3. QED
    BY <2>1, <2>2, Zenon DEF SetToSeq
<1> HIDE DEF order
<1>2. FirstOf(order, n) = D
  <2>1. order \in Injection(1 .. n, D)
    BY <1>1 DEF Injection
  <2>2. Cardinality(1 .. n) = Cardinality(D)
    BY <1>1, UpTo
  <2>3. order \in Surjection(1 .. n, D)
    BY <2>1, <2>2, FS_Injection
  <2>4. QED
    BY <1>1, <2>3 DEF FirstOf, Surjection
<1>3. order \in Seq(D) /\ Len(order) = n
  <2> HIDE DEF n, D
  <2>1. QED
    BY <1>1
<1>4. IsChecking(after, metrics, secrets, rows, reports, order)
  BY <1>3, CheckingExists
<1> HIDE DEF after
<1>5. after[Len(order)] = Checked(metrics, secrets, rows, reports, FirstOf(order, Len(order)))
  BY <1>3, <1>4, CheckingChecks
<1>6. NodesChecked(metrics, secrets, rows, reports) = after[Len(order)]
  BY Zenon DEF NodesChecked, after, order, IsChecking
<1>7. QED
  BY <1>2, <1>3, <1>5, <1>6

LEMMA SumOfOne ==
    ASSUME NEW V, IsFiniteSet(V), NEW f \in [V -> Int], NEW x \in V
    PROVE  SumFunctionOnSet(f, {x}) = f[x]
<1>1. SumFunctionOnSet(f, {x}) = f[x] + SumFunctionOnSet(f, {x} \ {x}) /\ SumFunctionOnSet(f, {}) = 0
  BY SumFacts
<1>2. {x} \ {x} = {}
  OBVIOUS
<1>3. SumFunctionOnSet(f, {x} \ {x}) = 0
  BY ONLY <1>1, <1>2
<1>4. QED
  BY <1>1, <1>3

LEMMA ValueWithin ==
    ASSUME NEW V, IsFiniteSet(V), \A r \in V : r.value \in Int, NEW A \in SUBSET V
    PROVE  ValueOf(A) = SumFunctionOnSet([r \in V |-> r.value], A)
<1> DEFINE f == [r \in V |-> r.value]
           h == [r \in A |-> r.value]
<1>1. f \in [V -> Int] /\ h \in [A -> Int] /\ \A r \in A : h[r] = f[r]
  OBVIOUS
<1>2. ValueOf(A) = SumFunction(h)
  BY Zenon DEF ValueOf
<1> HIDE DEF f, h
<1>3. SumFunction(h) = SumFunctionOnSet(f, A)
  BY <1>1, SumWithin
<1>4. QED
  BY <1>2, <1>3 DEF f

LEMMA ValueOfUnion ==
    ASSUME NEW A, NEW B, IsFiniteSet(A), IsFiniteSet(B), A \cap B = {},
           \A r \in A \cup B : r.value \in Int
    PROVE  ValueOf(A \cup B) = ValueOf(A) + ValueOf(B)
<1> DEFINE V == A \cup B
           f == [r \in V |-> r.value]
<1>1. IsFiniteSet(V) /\ f \in [V -> Int] /\ A \in SUBSET V /\ B \in SUBSET V /\ V \in SUBSET V
  BY FS_Union
<1>2. SumFunctionOnSet(f, A \cup B) = SumFunctionOnSet(f, A) + SumFunctionOnSet(f, B)
  <2> HIDE DEF f
  <2>1. QED
    BY <1>1, SumUnion
<1>3. \A s \in SUBSET V : ValueOf(s) = SumFunctionOnSet(f, s)
  BY <1>1, ValueWithin
<1> HIDE DEF f
<1>4. ValueOf(V) = SumFunctionOnSet(f, V) /\ ValueOf(A) = SumFunctionOnSet(f, A) /\ ValueOf(B) = SumFunctionOnSet(f, B)
  BY <1>1, <1>3
<1>5. QED
  BY <1>2, <1>4

\* A gauge as a function of the secret and the node.
GaugeAt(name, p, rows, reports) == Gauge(name, p[1], p[2], rows, reports[p[2]])

LEMMA ValueOfGauges ==
    ASSUME NEW name, NEW K, IsFiniteSet(K), NEW rows, NEW reports,
           \A p \in K : p = <<p[1], p[2]>> /\ GaugeAt(name, p, rows, reports).value \in Int
    PROVE  LET P == {GaugeAt(name, p, rows, reports) : p \in K}
           IN  /\ IsFiniteSet(P) /\ \A r \in P : r.value \in Int
               /\ ValueOf(P) = SumFunctionOnSet([p \in K |-> GaugeAt(name, p, rows, reports).value], K)
<1> DEFINE at(p) == GaugeAt(name, p, rows, reports)
           P == {at(p) : p \in K}
           f == [r \in P |-> r.value]
           e == [p \in K |-> at(p)]
           part == [p \in K |-> {at(p)}]
           g == [p \in K |-> at(p).value]
<1>1. IsFiniteSet(P)
  <2>1. e \in Surjection(K, P)
    BY DEF Surjection
  <2> HIDE DEF e, P
  <2>2. QED
    BY <2>1, FS_Surjection
<1>2. f \in [P -> Int] /\ g \in [K -> Int] /\ part \in [K -> SUBSET P] /\ \A r \in P : r.value \in Int
  OBVIOUS
<1>3. \A p \in K : at(p).secret = p[1] /\ at(p).node = p[2]
  BY DEF GaugeAt, Gauge
<1>4. \A j, k \in K : j # k => part[j] \cap part[k] = {}
  <2>1. \A j, k \in K : j # k => at(j) # at(k)
    <3> HIDE DEF at
    <3>1. QED
      BY <1>3
  <2> HIDE DEF at
  <2>2. QED
    BY <2>1
<1>5. \A p \in K : at(p) \in P /\ f[at(p)] = at(p).value /\ g[p] = at(p).value /\ part[p] = {at(p)}
  OBVIOUS
<1>6. UNION {part[p] : p \in K} = P
  <2> HIDE DEF at
  <2>1. QED
    OBVIOUS
<1> HIDE DEF P, f, part, g, at
<1>7. \A p \in K : g[p] = SumFunctionOnSet(f, part[p])
  <2>1. ASSUME NEW p \in K PROVE g[p] = SumFunctionOnSet(f, part[p])
    <3>1. SumFunctionOnSet(f, {at(p)}) = f[at(p)]
      BY <1>1, <1>2, <1>5, SumOfOne
    <3>2. SumFunctionOnSet(f, part[p]) = f[at(p)]
      BY ONLY <1>5, <3>1
    <3>3. QED
      BY <1>5, <3>2
  <2>2. QED
    BY <2>1
<1>8. SumFunctionOnSet(g, K) = SumFunctionOnSet(f, P)
  <2>1. SumFunctionOnSet(g, K) = SumFunctionOnSet(f, UNION {part[p] : p \in K})
    BY ONLY IsFiniteSet(K), <1>1, <1>2, <1>4, <1>7, SumOfParts
  <2>2. QED
    BY ONLY <1>6, <2>1
<1>9. ValueOf(P) = SumFunctionOnSet(f, P)
  BY <1>1, <1>2, ValueWithin DEF f
<1>10. QED
  BY <1>1, <1>2, <1>8, <1>9 DEF P, g, at

\* What a list shows of a secret under a name.
ShownOf(secrets, metrics, s, name, x) ==
    LET list == MetricsList(secrets, metrics, TRUE, s)
    IN  IF <<name, x>> \in DOMAIN list THEN list[<<name, x>>] ELSE 0

LEMMA ShownOfIs ==
    ASSUME NEW secrets, NEW metrics, NEW s, NEW x \in secrets, NEW name
    PROVE  ShownOf(secrets, metrics, s, name, x) = ValueOf({r \in CountedFor(metrics, x) : r.name = name})
<1> DEFINE names(y) == {r.name : r \in CountedFor(metrics, y)}
           pairs(y) == {<<e, y>> : e \in names(y)}
           lines == UNION {pairs(y) : y \in Listed(secrets, TRUE, s)}
           list == MetricsList(secrets, metrics, TRUE, s)
           l == <<name, x>>
           of == {r \in CountedFor(metrics, x) : r.name = name}
<1>1. list = [k \in lines |-> ValueOf({r \in CountedFor(metrics, k[2]) : r.name = k[1]})]
  BY Zenon DEF MetricsList
<1>2. l[1] = name /\ l[2] = x
  OBVIOUS
<1>3. ASSUME l \in lines PROVE l \in DOMAIN list /\ list[l] = ValueOf(of)
  <2>1. l \in DOMAIN list
    BY <1>1, <1>3
  <2>2. list[l] = ValueOf({r \in CountedFor(metrics, l[2]) : r.name = l[1]})
    <3> HIDE DEF l, lines, list
    <3>1. QED
      BY <1>1, <1>3
  <2>3. list[l] = ValueOf(of)
    BY ONLY <1>2, <2>2
  <2>4. QED
    BY ONLY <2>1, <2>3
<1>4. ASSUME l \notin lines PROVE l \notin DOMAIN list /\ ValueOf(of) = 0
  <2>1. x \in Listed(secrets, TRUE, s)
    BY DEF Listed
  <2>2. name \notin names(x)
    <3>1. name \in names(x) => l \in pairs(x)
      OBVIOUS
    <3> HIDE DEF names, pairs, l
    <3>2. QED
      BY <1>4, <2>1, <3>1
  <2>3. of = {}
    BY <2>2
  <2>4. ValueOf({}) = 0
    <3> DEFINE h == [r \in {} |-> r.value]
    <3>1. h \in [{} -> Int] /\ DOMAIN h = {}
      OBVIOUS
    <3>2. ValueOf({}) = SumFunctionOnSet(h, DOMAIN h)
      BY Zenon DEF ValueOf, SumFunction
    <3> HIDE DEF h
    <3>3. IsFiniteSet({})
      BY FS_EmptySet
    <3>4. SumFunctionOnSet(h, {}) = 0
      BY <3>1, <3>3, SumFacts
    <3>5. QED
      BY ONLY <3>1, <3>2, <3>4
  <2>5. l \notin DOMAIN list
    BY <1>1, <1>4
  <2>6. ValueOf(of) = 0
    BY ONLY <2>3, <2>4
  <2>7. QED
    BY ONLY <2>5, <2>6
<1>5. ShownOf(secrets, metrics, s, name, x) = IF l \in DOMAIN list THEN list[l] ELSE 0
  BY Zenon DEF ShownOf
<1>6. ShownOf(secrets, metrics, s, name, x) = ValueOf(of)
  <2> HIDE DEF list, l, of, lines
  <2>1. CASE l \in lines
    BY ONLY <2>1, <1>3, <1>5
  <2>2. CASE l \notin lines
    BY ONLY <2>2, <1>4, <1>5
  <2>3. QED
    BY ONLY <2>1, <2>2
<1>7. QED
  BY ONLY <1>6 DEF of

\* What there is of a name and a tenant after the checks: what is left, and the new gauges.
TenantsPairs(x, secrets, reports) == {s \in secrets : s.tenant = x.tenant} \X DOMAIN reports

LEMMA TenantsRows ==
    ASSUME NEW metrics, NEW secrets, NEW rows, NEW reports, GaugesOf(metrics, secrets, rows, reports),
           NEW x \in secrets, x.sub = 0, NEW name \in GaugeNames
    PROVE  LET D == DOMAIN reports
               K == TenantsPairs(x, secrets, reports)
           IN  {r \in CountedFor(Checked(metrics, secrets, rows, reports, D), x) : r.name = name}
                 = {r \in metrics : r.name = name /\ r.secret.tenant = x.tenant /\ r.node \notin D}
                   \cup {GaugeAt(name, p, rows, reports) : p \in K}
<1> DEFINE D == DOMAIN reports
           T == {s \in secrets : s.tenant = x.tenant}
           K == T \X D
           N == Checked(metrics, secrets, rows, reports, D)
           named == {r \in CountedFor(N, x) : r.name = name}
           old == {r \in metrics : r.name = name /\ r.secret.tenant = x.tenant /\ r.node \notin D}
           new == {GaugeAt(name, p, rows, reports) : p \in K}
<1>1. named = {r \in N : r.secret.tenant = x.tenant /\ r.name = name}
  <2>1. CountedFor(N, x) = {r \in N : r.secret.tenant = x.tenant}
    BY CountedForTenant
  <2> HIDE DEF N
  <2>2. QED
    BY <2>1
<1>2. \A r \in metrics : r.secret \in secrets
  BY DEF GaugesOf, MetricsOf
<1>3. ASSUME NEW r \in named PROVE r \in old \cup new
  <2>1. r \in N /\ r.secret.tenant = x.tenant /\ r.name = name
    BY <1>1
  <2>2. CASE r \in LeftAlone(metrics, secrets, D)
    BY <1>2, <2>1, <2>2 DEF LeftAlone
  <2>3. CASE r \in Put(secrets, rows, reports, D)
    <3>1. PICK e \in GaugeNames, s \in secrets, n \in D : r = Gauge(e, s, n, rows, reports[n])
      BY <2>3 DEF Put
    <3>2. e = name /\ s \in T
      BY <2>1, <3>1 DEF Gauge
    <3>3. <<s, n>> \in K /\ <<s, n>>[1] = s /\ <<s, n>>[2] = n
      BY <3>2
    <3>4. r = GaugeAt(name, <<s, n>>, rows, reports)
      BY <3>1, <3>2, <3>3 DEF GaugeAt
    <3> HIDE DEF K
    <3>5. QED
      BY <3>3, <3>4
  <2>4. QED
    BY <2>1, <2>2, <2>3 DEF Checked
<1>4. old \subseteq named
  <2>1. old \subseteq N
    BY DEF Checked, LeftAlone
  <2> HIDE DEF named, N
  <2>2. QED
    BY <1>1, <2>1
<1>5. ASSUME NEW p \in K PROVE GaugeAt(name, p, rows, reports) \in named
  <2>1. p[1] \in secrets /\ p[1].tenant = x.tenant /\ p[2] \in D
    OBVIOUS
  <2>2. GaugeAt(name, p, rows, reports) = Gauge(name, p[1], p[2], rows, reports[p[2]])
    BY DEF GaugeAt
  <2>3. Gauge(name, p[1], p[2], rows, reports[p[2]]) \in N
    BY <2>1 DEF Checked, Put
  <2>4. /\ Gauge(name, p[1], p[2], rows, reports[p[2]]).name = name
        /\ Gauge(name, p[1], p[2], rows, reports[p[2]]).secret = p[1]
    BY DEF Gauge
  <2> HIDE DEF named, N, K
  <2>5. QED
    BY <1>1, <2>1, <2>2, <2>3, <2>4
<1> HIDE DEF named, old
<1>7. K = TenantsPairs(x, secrets, reports)
  BY DEF TenantsPairs
<1> HIDE DEF K
<1>6. named = old \cup new
  BY <1>3, <1>4, <1>5
<1>8. QED
  BY <1>6, <1>7 DEF named, old

\* The meetings of a tenant that the nodes have reported.
Reported(x, rows, reports) ==
    {m \in rows : /\ m.secret.tenant = x.tenant /\ m.node \in DOMAIN reports
                  /\ m.id \in DOMAIN reports[m.node]}

\* What the gauges of a tenant are set to, added up.
GaugesTotal(name, x, secrets, rows, reports) ==
    SumFunctionOnSet([p \in TenantsPairs(x, secrets, reports) |-> GaugeAt(name, p, rows, reports).value],
                     TenantsPairs(x, secrets, reports))

LEMMA GaugesSumUp ==
    ASSUME NEW metrics, NEW secrets, NEW rows, NEW reports, GaugesOf(metrics, secrets, rows, reports), NEW x
    PROVE  /\ IsFiniteSet(TenantsPairs(x, secrets, reports))
           /\ \A name : \A p \in TenantsPairs(x, secrets, reports) : GaugeAt(name, p, rows, reports).value \in Int
           /\ GaugesTotal("meetings", x, secrets, rows, reports) = Cardinality(Reported(x, rows, reports))
           /\ GaugesTotal("attendees", x, secrets, rows, reports)
                = SumFunction([m \in Reported(x, rows, reports) |-> reports[m.node][m.id]])
<1> DEFINE T == {s \in secrets : s.tenant = x.tenant}
           D == DOMAIN reports
           K == T \X D
           seen == Reported(x, rows, reports)
           part == [p \in K |-> SeenOn(p[1], p[2], rows, reports[p[2]])]
           f == [m \in seen |-> reports[m.node][m.id]]
           meetings == [p \in K |-> GaugeAt("meetings", p, rows, reports).value]
           attendees == [p \in K |-> GaugeAt("attendees", p, rows, reports).value]
<1>1. IsFiniteSet(K)
  <2>1. IsFiniteSet(T) /\ IsFiniteSet(D)
    BY FS_Subset DEF GaugesOf, MetricsOf
  <2> HIDE DEF T, D
  <2>2. QED
    BY <2>1, FS_Product
<1>2. IsFiniteSet(seen)
  <2>1. seen \in SUBSET rows
    BY DEF Reported
  <2>2. QED
    BY <2>1, FS_Subset DEF GaugesOf
<1>3. f \in [seen -> Int]
  BY DEF Reported, GaugesOf
<1>4. \A p \in K : /\ p[1] \in T /\ p[2] \in D /\ p = <<p[1], p[2]>>
                   /\ part[p] = SeenOn(p[1], p[2], rows, reports[p[2]])
  OBVIOUS
<1>5. \A p \in K : part[p] \in SUBSET seen /\ \A m \in part[p] : m.secret = p[1] /\ m.node = p[2]
  <2> HIDE DEF K, part
  <2>1. QED
    BY <1>4 DEF SeenOn, Reported
<1>6. UNION {part[p] : p \in K} = seen
  <2>1. ASSUME NEW m \in seen PROVE \E p \in K : m \in part[p]
    <3>1. m \in rows /\ m.secret \in T /\ m.node \in D /\ m.id \in DOMAIN reports[m.node]
      BY DEF Reported, GaugesOf
    <3> DEFINE p == <<m.secret, m.node>>
    <3>2. p \in K /\ p[1] = m.secret /\ p[2] = m.node
      BY <3>1
    <3> HIDE DEF p, K, part
    <3>3. m \in part[p]
      BY <1>4, <3>1, <3>2 DEF SeenOn
    <3>4. QED
      BY <3>2, <3>3
  <2> HIDE DEF K, part, seen
  <2>2. QED
    BY <1>5, <2>1
<1>7. \A j, k \in K : j # k => part[j] \cap part[k] = {}
  <2> HIDE DEF K, part
  <2>1. QED
    BY <1>4, <1>5
<1>8. part \in [K -> SUBSET seen]
  <2>1. part = [p \in K |-> part[p]]
    OBVIOUS
  <2> HIDE DEF part, K, seen
  <2>2. QED
    BY <1>5, <2>1
<1>9. ASSUME NEW p \in K
      PROVE  /\ GaugeAt("meetings", p, rows, reports).value = Cardinality(part[p])
             /\ Cardinality(part[p]) \in Int
  <2>1. GaugeAt("meetings", p, rows, reports).value = Cardinality(SeenOn(p[1], p[2], rows, reports[p[2]]))
    BY DEF GaugeAt, Gauge, GaugeValue
  <2>2. Cardinality(part[p]) \in Int
    <3> HIDE DEF K, part, seen
    <3>1. IsFiniteSet(part[p])
      BY <1>2, <1>5, FS_Subset
    <3>2. QED
      BY <3>1, FS_CardinalityType
  <2> HIDE DEF K, part
  <2>3. QED
    BY <1>4, <2>1, <2>2
<1>10. ASSUME NEW p \in K, NEW name, name # "meetings"
       PROVE  /\ GaugeAt(name, p, rows, reports).value = SumFunctionOnSet(f, part[p])
              /\ SumFunctionOnSet(f, part[p]) \in Int
  <2> DEFINE S == SeenOn(p[1], p[2], rows, reports[p[2]])
             h == [m \in S |-> reports[p[2]][m.id]]
  <2>1. GaugeAt(name, p, rows, reports).value = SumFunction(h)
    BY <1>10 DEF GaugeAt, Gauge, GaugeValue
  <2>2. S \in SUBSET seen /\ S = part[p] /\ \A m \in S : m.node = p[2]
    <3> HIDE DEF K, part, seen, S
    <3>1. QED
      BY <1>4, <1>5 DEF S
  <2>3. \A m \in S : h[m] = f[m] /\ h[m] \in Int
    <3>1. \A m \in S : f[m] = reports[m.node][m.id] /\ f[m] \in Int
      <4> HIDE DEF S
      <4>1. QED
        BY <1>3, <2>2
    <3>2. \A m \in S : h[m] = reports[p[2]][m.id]
      OBVIOUS
    <3> HIDE DEF S, h, f
    <3>3. QED
      BY <2>2, <3>1, <3>2
  <2>4. h \in [S -> Int]
    <3>1. h = [m \in S |-> h[m]]
      OBVIOUS
    <3> HIDE DEF S, h
    <3>2. QED
      BY <2>3, <3>1
  <2> HIDE DEF S, h, f, seen, part, K
  <2>5. SumFunction(h) = SumFunctionOnSet(f, S)
    BY <1>2, <1>3, <2>2, <2>3, <2>4, SumWithin
  <2>6. SumFunctionOnSet(f, S) \in Int
    BY <1>2, <1>3, <2>2, SumFacts
  <2>7. QED
    BY <2>1, <2>2, <2>5, <2>6
<1>11. /\ meetings \in [K -> Int] /\ \A p \in K : meetings[p] = Cardinality(part[p])
       /\ attendees \in [K -> Int] /\ \A p \in K : attendees[p] = SumFunctionOnSet(f, part[p])
  <2> HIDE DEF K, part, f
  <2>1. QED
    BY <1>9, <1>10
<1>12. \A name : \A p \in K : GaugeAt(name, p, rows, reports).value \in Int
  <2> HIDE DEF K, part, f
  <2>1. QED
    BY <1>9, <1>10
<1> HIDE DEF meetings, attendees, f, part, K, seen
<1>13. SumFunctionOnSet(meetings, K) = Cardinality(seen)
  <2>1. Cardinality(UNION {part[p] : p \in K}) = SumFunctionOnSet(meetings, K)
    BY <1>1, <1>2, <1>7, <1>8, <1>11, UnionOfDisjoint
  <2>2. QED
    BY ONLY <1>6, <2>1
<1>14. SumFunctionOnSet(attendees, K) = SumFunction(f)
  <2>1. SumFunctionOnSet(attendees, K) = SumFunctionOnSet(f, UNION {part[p] : p \in K})
    BY <1>1, <1>2, <1>3, <1>7, <1>8, <1>11, SumOfParts
  <2>2. SumFunctionOnSet(attendees, K) = SumFunctionOnSet(f, seen)
    BY ONLY <1>6, <2>1
  <2>3. DOMAIN f = seen
    BY <1>3
  <2>4. SumFunction(f) = SumFunctionOnSet(f, DOMAIN f)
    BY Zenon DEF SumFunction
  <2>5. QED
    BY ONLY <2>2, <2>3, <2>4
<1>15. K = TenantsPairs(x, secrets, reports)
  BY DEF TenantsPairs, K
<1>16. /\ GaugesTotal("meetings", x, secrets, rows, reports) = SumFunctionOnSet(meetings, K)
       /\ GaugesTotal("attendees", x, secrets, rows, reports) = SumFunctionOnSet(attendees, K)
  BY <1>15, Zenon DEF GaugesTotal, meetings, attendees
<1>17. QED
  BY <1>1, <1>12, <1>13, <1>14, <1>15, <1>16, Zenon DEF f, seen

(***************************************************************************)
(* Whatever Metric and Meeting hold and the nodes report: after a check of *)
(* every node that answers, a tenant's gauges are those of its meetings    *)
(* that run there and what the other nodes had last (core.py:111-165).     *)
(***************************************************************************)
THEOREM GaugesAlwaysFollowTheNodes ==
    ASSUME NEW metrics, NEW secrets, NEW rows, NEW reports, GaugesOf(metrics, secrets, rows, reports)
    PROVE  GaugesFollowTheNodes(metrics, secrets, rows, reports)
<1> DEFINE D == DOMAIN reports
           N == NodesChecked(metrics, secrets, rows, reports)
           any == CHOOSE s \in secrets : TRUE
           shown(name, x) == ShownOf(secrets, N, any, name, x)
           old(name, x) == {r \in metrics : r.name = name /\ r.secret.tenant = x.tenant /\ r.node \notin D}
           total(name, x) == GaugesTotal(name, x, secrets, rows, reports)
           seen(x) == Reported(x, rows, reports)
<1>1. N = Checked(metrics, secrets, rows, reports, D)
  BY AllAreChecked DEF GaugesOf
<1>2. ASSUME NEW x \in secrets, x.sub = 0, NEW name \in GaugeNames
      PROVE  shown(name, x) = total(name, x) + ValueOf(old(name, x))
  <2> DEFINE K == TenantsPairs(x, secrets, reports)
             new == {GaugeAt(name, p, rows, reports) : p \in K}
             of == {r \in CountedFor(N, x) : r.name = name}
  <2>1. shown(name, x) = ValueOf(of)
    <3> HIDE DEF N, any
    <3>1. QED
      BY ShownOfIs
  <2>2. of = old(name, x) \cup new
    <3>1. {r \in CountedFor(Checked(metrics, secrets, rows, reports, D), x) : r.name = name} = old(name, x) \cup new
      BY <1>2, TenantsRows
    <3>2. QED
      BY ONLY <1>1, <3>1
  <2>3. IsFiniteSet(K) /\ \A p \in K : GaugeAt(name, p, rows, reports).value \in Int
    BY GaugesSumUp
  <2>4. \A p \in K : p = <<p[1], p[2]>> /\ p[2] \in D
    BY DEF TenantsPairs
  <2>5. /\ IsFiniteSet(new) /\ \A r \in new : r.value \in Int
        /\ ValueOf(new) = total(name, x)
    <3>1. total(name, x) = SumFunctionOnSet([p \in K |-> GaugeAt(name, p, rows, reports).value], K)
      BY Zenon DEF GaugesTotal
    <3> HIDE DEF K, total
    <3>2. QED
      BY <2>3, <2>4, <3>1, ValueOfGauges
  <2>6. IsFiniteSet(old(name, x)) /\ \A r \in old(name, x) : r.value \in Int
    <3>1. old(name, x) \in SUBSET metrics
      OBVIOUS
    <3>2. QED
      BY <3>1, FS_Subset DEF GaugesOf, MetricsOf
  <2>7. old(name, x) \cap new = {}
    <3>1. \A r \in new : r.node \in D
      <4> HIDE DEF K
      <4>1. QED
        BY <2>4 DEF GaugeAt, Gauge
    <3> HIDE DEF new
    <3>2. QED
      BY <3>1
  <2> HIDE DEF new, old, of, total, K, shown
  <2>8. ValueOf(old(name, x) \cup new) = ValueOf(old(name, x)) + ValueOf(new)
    BY <2>5, <2>6, <2>7, ValueOfUnion
  <2>9. ValueOf(old(name, x)) \in Int /\ ValueOf(new) \in Int
    <3>1. ASSUME NEW s, IsFiniteSet(s), \A r \in s : r.value \in Int PROVE ValueOf(s) \in Int
      <4> DEFINE f == [r \in s |-> r.value]
      <4>1. f \in [s -> Int]
        BY <3>1
      <4> HIDE DEF f
      <4>2. SumFunctionOnSet(f, s) \in Int
        BY <3>1, <4>1, SumFacts
      <4>3. ValueOf(s) = SumFunctionOnSet(f, s)
        BY <3>1, ValueWithin DEF f
      <4>4. QED
        BY <4>2, <4>3
    <3>2. QED
      BY <2>5, <2>6, <3>1
  <2>10. ValueOf(of) = ValueOf(old(name, x)) + ValueOf(new)
    BY ONLY <2>2, <2>8
  <2>11. QED
    BY <2>1, <2>5, <2>9, <2>10
<1>3. "meetings" \in GaugeNames /\ "attendees" \in GaugeNames
  BY DEF GaugeNames
<1>4. ASSUME NEW x \in secrets
      PROVE  /\ total("meetings", x) = Cardinality(seen(x))
             /\ total("attendees", x)
                  = SumFunction([m \in seen(x) |-> reports[m.node][m.id]])
  BY GaugesSumUp
<1> HIDE DEF total, shown, old, seen
<1>5. ASSUME NEW x \in secrets, x.sub = 0
      PROVE  /\ shown("attendees", x) = SumFunction([m \in seen(x) |-> reports[m.node][m.id]])
                                         + ValueOf(old("attendees", x))
             /\ shown("meetings", x) = Cardinality(seen(x)) + ValueOf(old("meetings", x))
  <2>1. /\ shown("attendees", x) = total("attendees", x) + ValueOf(old("attendees", x))
        /\ shown("meetings", x) = total("meetings", x) + ValueOf(old("meetings", x))
    BY <1>2, <1>3, <1>5
  <2>2. QED
    BY ONLY <1>4, <2>1
<1>6. QED
  BY <1>5, Zenon DEF GaugesFollowTheNodes, shown, ShownOf, old, seen, Reported

-----------------------------------------------------------------------------
(* The layers of a video (Video).                                          *)

\* The least and the largest of finitely many numbers.
LEMMA ExtremesOf ==
    ASSUME NEW S, IsFiniteSet(S), S # {}, S \subseteq Int
    PROVE  /\ Min(S) \in S /\ \A y \in S : Min(S) <= y
           /\ Max(S) \in S /\ \A y \in S : y <= Max(S)
<1> DEFINE G == {s \in SUBSET S : s # {} => /\ \E x \in s : \A y \in s : x <= y
                                           /\ \E x \in s : \A y \in s : y <= x}
<1>1. {} \in G
  OBVIOUS
<1>2. ASSUME NEW s \in G, NEW x \in S PROVE s \cup {x} \in G
  <2>1. CASE s = {}
    BY <2>1
  <2>2. CASE s # {}
    <3>1. PICK a \in s : \A y \in s : a <= y
      BY <2>2
    <3>2. PICK b \in s : \A y \in s : y <= b
      BY <2>2
    <3>3. \E z \in s \cup {x} : \A y \in s \cup {x} : z <= y
      <4>1. CASE a <= x
        BY <3>1, <4>1
      <4>2. CASE x < a
        BY <3>1, <4>2
      <4>3. QED
        BY <4>1, <4>2
    <3>4. \E z \in s \cup {x} : \A y \in s \cup {x} : y <= z
      <4>1. CASE x <= b
        BY <3>2, <4>1
      <4>2. CASE b < x
        BY <3>2, <4>2
      <4>3. QED
        BY <4>1, <4>2
    <3>5. QED
      BY <3>3, <3>4
  <2>3. QED
    BY <2>1, <2>2
<1>3. G \in SUBSET SUBSET S
  OBVIOUS
<1> HIDE DEF G
<1>4. G = SUBSET S
  BY <1>1, <1>2, <1>3, SubsetInduction
<1>5. S \in G
  BY <1>4
<1>6. /\ \E x \in S : \A y \in S : x <= y
      /\ \E x \in S : \A y \in S : x >= y
  BY <1>5 DEF G
<1>7. Min(S) \in S /\ \A y \in S : Min(S) <= y
  BY <1>6 DEF Min
<1>8. Max(S) \in S /\ \A y \in S : Max(S) >= y
  BY <1>6 DEF Max
<1>9. QED
  BY <1>7, <1>8

\* A set with no more members than a finite one is finite.
LEMMA CoveredIsFinite ==
    ASSUME NEW S, IsFiniteSet(S), NEW T, NEW f \in [S -> T], \A y \in T : \E x \in S : f[x] = y
    PROVE  IsFiniteSet(T)
<1>1. f \in Surjection(S, T)
  BY DEF Surjection
<1>2. QED
  BY <1>1, FS_Surjection

\* What the clips of a layer show at a time.
LEMMA ClipsShow ==
    ASSUME NEW rec, rec.end \in Int, NEW I, NEW what, NEW in,
           NEW from \in [I -> Int], NEW to \in [I -> Int], NEW t \in Int
    PROVE  Seen(UNION {AddClip(rec, what[i], from[i], in[i], to[i] - from[i]) : i \in I}, t)
             = {what[i] : i \in {j \in I : from[j] <= t /\ t < to[j] /\ t < rec.end}}
<1> DEFINE clips(i) == AddClip(rec, what[i], from[i], in[i], to[i] - from[i])
           layer == UNION {clips(i) : i \in I}
           now == {j \in I : from[j] <= t /\ t < to[j] /\ t < rec.end}
           end(i) == from[i] + Min({to[i] - from[i], rec.end - from[i]})
           clip(i) == [what |-> what[i], from |-> from[i], in |-> in[i], to |-> end(i)]
<1>1. ASSUME NEW i \in I
      PROVE  clips(i) = (IF from[i] > rec.end THEN {} ELSE {clip(i)}) /\ from[i] \in Int /\ to[i] \in Int
  BY DEF AddClip
<1>2. ASSUME NEW i \in I PROVE end(i) = IF to[i] <= rec.end THEN to[i] ELSE rec.end
  <2>1. Min({to[i] - from[i], rec.end - from[i]})
          = IF to[i] - from[i] <= rec.end - from[i] THEN to[i] - from[i] ELSE rec.end - from[i]
    BY <1>1, MinOfTwo
  <2>2. QED
    BY <1>1, <2>1
<1>3. ASSUME NEW i PROVE clip(i).what = what[i] /\ clip(i).from = from[i] /\ clip(i).to = end(i)
  OBVIOUS
<1> HIDE DEF clips, clip, end
<1>4. ASSUME NEW w \in Seen(layer, t) PROVE w \in {what[i] : i \in now}
  <2>1. PICK c \in layer : c.from <= t /\ t < c.to /\ w = c.what
    BY DEF Seen
  <2>2. \E k \in I : c \in clips(k)
    OBVIOUS
  <2> HIDE DEF layer, now
  <2>3. ASSUME NEW k \in I, c \in clips(k) PROVE w \in {what[i] : i \in now}
    <3>1. /\ from[k] \in Int /\ to[k] \in Int /\ end(k) = IF to[k] <= rec.end THEN to[k] ELSE rec.end
          /\ clips(k) = IF from[k] > rec.end THEN {} ELSE {clip(k)}
      BY <1>1, <1>2, <2>3
    <3>2. from[k] <= rec.end /\ c = clip(k)
      BY <2>3, <3>1
    <3>3. w = what[k] /\ from[k] <= t /\ t < end(k)
      BY <1>3, <2>1, <3>2
    <3>4. from[k] <= t /\ t < to[k] /\ t < rec.end
      BY <3>1, <3>2, <3>3
    <3>5. QED
      BY <3>3, <3>4 DEF now
  <2>4. QED
    BY <2>2, <2>3
<1>5. ASSUME NEW i \in now PROVE what[i] \in Seen(layer, t)
  <2>1. i \in I /\ from[i] <= t /\ t < to[i] /\ t < rec.end
    OBVIOUS
  <2>2. /\ from[i] \in Int /\ to[i] \in Int /\ end(i) = IF to[i] <= rec.end THEN to[i] ELSE rec.end
        /\ clips(i) = IF from[i] > rec.end THEN {} ELSE {clip(i)}
    BY <1>1, <1>2, <2>1
  <2>3. clip(i) \in clips(i) /\ t < end(i)
    BY <2>1, <2>2
  <2>4. clip(i) \in layer
    BY <2>1, <2>3
  <2>5. clip(i).from <= t /\ t < clip(i).to /\ clip(i).what = what[i]
    BY <1>3, <2>1, <2>3
  <2> HIDE DEF layer
  <2>6. QED
    BY <2>4, <2>5 DEF Seen
<1> HIDE DEF now
<1>6. Seen(layer, t) = {what[i] : i \in now}
  BY <1>4, <1>5
<1>7. QED
  BY ONLY <1>6 DEF layer, clips, now

\* What the files of a recording give: the events of the cursor are in the
\* order of their times.
RecordingOf(rec) ==
    /\ rec.end \in Int /\ rec.deskEnd \in Int
    /\ rec.slides \in Seq([from : Int, to : Int, desk : BOOLEAN])
    /\ rec.cursor \in Seq([at : Int, shown : BOOLEAN])
    /\ \A i, j \in DOMAIN rec.cursor : i < j => rec.cursor[i].at <= rec.cursor[j].at
    /\ \A k \in DOMAIN rec.slides : \E ids : rec.shapes[k] \in Seq([id : ids, from : Int, undo : Int])
    /\ rec.desk \in Seq([from : Int, to : Int])

\* All its times are numbers.
LEMMA TimesOf ==
    ASSUME NEW rec, RecordingOf(rec)
    PROVE  /\ rec.end \in Int /\ rec.deskEnd \in Int
           /\ \A i \in DOMAIN rec.slides : rec.slides[i].from \in Int /\ rec.slides[i].to \in Int
           /\ \A i \in DOMAIN rec.cursor : rec.cursor[i].at \in Int
           /\ \A i \in DOMAIN rec.desk : rec.desk[i].from \in Int /\ rec.desk[i].to \in Int
           /\ \A k \in DOMAIN rec.slides : \A i \in DOMAIN rec.shapes[k] :
                  rec.shapes[k][i].from \in Int /\ rec.shapes[k][i].undo \in Int
<1>1. ASSUME NEW R, NEW s \in Seq(R), NEW i \in DOMAIN s PROVE s[i] \in R
  OBVIOUS
<1>2. ASSUME NEW i \in DOMAIN rec.slides PROVE rec.slides[i].from \in Int /\ rec.slides[i].to \in Int
  <2>1. rec.slides[i] \in [from : Int, to : Int, desk : BOOLEAN]
    BY <1>1 DEF RecordingOf
  <2>2. QED
    BY <2>1
<1>3. ASSUME NEW i \in DOMAIN rec.cursor PROVE rec.cursor[i].at \in Int
  <2>1. rec.cursor[i] \in [at : Int, shown : BOOLEAN]
    BY <1>1 DEF RecordingOf
  <2>2. QED
    BY <2>1
<1>4. ASSUME NEW i \in DOMAIN rec.desk PROVE rec.desk[i].from \in Int /\ rec.desk[i].to \in Int
  <2>1. rec.desk[i] \in [from : Int, to : Int]
    BY <1>1 DEF RecordingOf
  <2>2. QED
    BY <2>1
<1>5. ASSUME NEW k \in DOMAIN rec.slides, NEW i \in DOMAIN rec.shapes[k]
      PROVE  rec.shapes[k][i].from \in Int /\ rec.shapes[k][i].undo \in Int
  <2>1. PICK ids : rec.shapes[k] \in Seq([id : ids, from : Int, undo : Int])
    BY DEF RecordingOf
  <2>2. rec.shapes[k][i] \in [id : ids, from : Int, undo : Int]
    BY <1>1, <2>1
  <2>3. QED
    BY <2>2
<1>6. QED
  BY <1>2, <1>3, <1>4, <1>5 DEF RecordingOf

\* What the slides show: the slide of the time, unless it is a shared screen's.
LEMMA SlidesShow ==
    ASSUME NEW rec, RecordingOf(rec), NEW t \in Int
    PROVE  Seen(SlideLayer(rec), t) =
             {k \in DOMAIN rec.slides : /\ rec.slides[k].from <= t /\ t < rec.slides[k].to /\ t < rec.end
                                        /\ ~rec.slides[k].desk}
<1> DEFINE I == {j \in DOMAIN rec.slides : rec.slides[j].from <= rec.end /\ ~rec.slides[j].desk}
           what == [i \in I |-> i]
           from == [i \in I |-> rec.slides[i].from]
           to == [i \in I |-> rec.slides[i].to]
           in == [i \in I |-> 0]
           now == {j \in I : from[j] <= t /\ t < to[j] /\ t < rec.end}
<1>1. ASSUME NEW i \in DOMAIN rec.slides
      PROVE  rec.slides[i].from \in Int /\ rec.slides[i].to \in Int /\ rec.end \in Int
  BY TimesOf
<1>2. from \in [I -> Int] /\ to \in [I -> Int]
  BY <1>1
<1>3. SlideLayer(rec) = UNION {AddClip(rec, what[i], from[i], in[i], to[i] - from[i]) : i \in I}
  <2>1. \A i \in I : AddClip(rec, what[i], from[i], in[i], to[i] - from[i])
                       = AddClip(rec, i, rec.slides[i].from, 0, rec.slides[i].to - rec.slides[i].from)
    OBVIOUS
  <2>2. SlideLayer(rec)
          = UNION {AddClip(rec, i, rec.slides[i].from, 0, rec.slides[i].to - rec.slides[i].from) : i \in I}
    BY Zenon DEF SlideLayer
  <2> HIDE DEF I, what, from, to, in
  <2>3. QED
    BY ONLY <2>1, <2>2
<1>4. Seen(SlideLayer(rec), t) = {what[i] : i \in now}
  <2>1. rec.end \in Int
    BY DEF RecordingOf
  <2> HIDE DEF I, what, from, to, in
  <2>2. Seen(UNION {AddClip(rec, what[i], from[i], in[i], to[i] - from[i]) : i \in I}, t) = {what[i] : i \in now}
    BY ONLY <1>2, <2>1, ClipsShow, t \in Int
  <2>3. QED
    BY ONLY <1>3, <2>2
<1>5. {what[i] : i \in now} = now
  OBVIOUS
<1>6. now = {k \in DOMAIN rec.slides : /\ rec.slides[k].from <= t /\ t < rec.slides[k].to /\ t < rec.end
                                       /\ ~rec.slides[k].desk}
  <2>1. ASSUME NEW k \in DOMAIN rec.slides PROVE
          k \in now <=> /\ rec.slides[k].from <= t /\ t < rec.slides[k].to /\ t < rec.end
                        /\ ~rec.slides[k].desk
    BY <1>1
  <2>2. now \subseteq DOMAIN rec.slides
    OBVIOUS
  <2> HIDE DEF now
  <2>3. QED
    BY <2>1, <2>2
<1>7. QED
  BY ONLY <1>4, <1>5, <1>6

\* What the shared screen shows: the sharing that is under way.
LEMMA DeskShows ==
    ASSUME NEW rec, RecordingOf(rec), NEW t \in Int
    PROVE  Seen(DeskshareLayer(rec), t) =
             {k \in DOMAIN rec.desk : /\ rec.desk[k].from <= t /\ t < rec.desk[k].to /\ t < rec.end
                                      /\ t < rec.deskEnd}
<1> DEFINE I == {j \in DOMAIN rec.desk : rec.desk[j].from <= rec.deskEnd}
           what == [i \in I |-> i]
           from == [i \in I |-> rec.desk[i].from]
           to == [i \in I |-> Min({rec.desk[i].to, rec.deskEnd})]
           now == {j \in I : from[j] <= t /\ t < to[j] /\ t < rec.end}
<1>1. ASSUME NEW i \in DOMAIN rec.desk
      PROVE  rec.desk[i].from \in Int /\ rec.desk[i].to \in Int /\ rec.end \in Int /\ rec.deskEnd \in Int
  BY TimesOf
<1>2. ASSUME NEW i \in DOMAIN rec.desk
      PROVE  Min({rec.desk[i].to, rec.deskEnd}) = IF rec.desk[i].to <= rec.deskEnd THEN rec.desk[i].to ELSE rec.deskEnd
  BY <1>1, MinOfTwo
<1>3. from \in [I -> Int] /\ to \in [I -> Int]
  BY <1>1, <1>2
<1>4. DeskshareLayer(rec) = UNION {AddClip(rec, what[i], from[i], from[i], to[i] - from[i]) : i \in I}
  <2>1. \A i \in I : AddClip(rec, what[i], from[i], from[i], to[i] - from[i])
                       = AddClip(rec, i, rec.desk[i].from, rec.desk[i].from,
                                 Min({rec.desk[i].to, rec.deskEnd}) - rec.desk[i].from)
    OBVIOUS
  <2>2. DeskshareLayer(rec)
          = UNION {AddClip(rec, i, rec.desk[i].from, rec.desk[i].from,
                           Min({rec.desk[i].to, rec.deskEnd}) - rec.desk[i].from) : i \in I}
    BY Zenon DEF DeskshareLayer
  <2> HIDE DEF I, what, from, to
  <2>3. QED
    BY ONLY <2>1, <2>2
<1>5. Seen(DeskshareLayer(rec), t) = {what[i] : i \in now}
  <2>1. rec.end \in Int
    BY DEF RecordingOf
  <2> HIDE DEF I, what, from, to
  <2>2. Seen(UNION {AddClip(rec, what[i], from[i], from[i], to[i] - from[i]) : i \in I}, t) = {what[i] : i \in now}
    BY ONLY <1>3, <2>1, ClipsShow, t \in Int
  <2>3. QED
    BY ONLY <1>4, <2>2
<1>6. {what[i] : i \in now} = now
  OBVIOUS
<1>7. now = {k \in DOMAIN rec.desk : /\ rec.desk[k].from <= t /\ t < rec.desk[k].to /\ t < rec.end
                                     /\ t < rec.deskEnd}
  <2>1. ASSUME NEW k \in DOMAIN rec.desk PROVE
          k \in now <=> /\ rec.desk[k].from <= t /\ t < rec.desk[k].to /\ t < rec.end
                        /\ t < rec.deskEnd
    <3>1. k \in I <=> rec.desk[k].from <= rec.deskEnd
      OBVIOUS
    <3>2. k \in I => from[k] = rec.desk[k].from /\ to[k] = Min({rec.desk[k].to, rec.deskEnd})
      OBVIOUS
    <3>3. k \in now <=> k \in I /\ from[k] <= t /\ t < to[k] /\ t < rec.end
      OBVIOUS
    <3> HIDE DEF now, I, from, to
    <3>4. QED
      BY <1>1, <1>2, <3>1, <3>2, <3>3
  <2>2. now \subseteq DOMAIN rec.desk
    OBVIOUS
  <2> HIDE DEF now
  <2>3. QED
    BY <2>1, <2>2
<1>8. QED
  BY ONLY <1>5, <1>6, <1>7

\* The events of the cursor no later than t that no other such event follows.
LastEvents(rec, t) ==
    {i \in DOMAIN rec.cursor : rec.cursor[i].at <= t
        /\ \A j \in DOMAIN rec.cursor : rec.cursor[j].at <= t => j <= i}

\* Where the next event is, or the end.
UntilNext(rec, i) == IF i < Len(rec.cursor) THEN rec.cursor[i + 1].at ELSE rec.end

\* The event that is shown until the next one is the last one so far.
LEMMA LastUntilNext ==
    ASSUME NEW rec, RecordingOf(rec), NEW t \in Int, t < rec.end, NEW i \in DOMAIN rec.cursor
    PROVE  rec.cursor[i].at <= t /\ t < UntilNext(rec, i) <=> i \in LastEvents(rec, t)
<1> DEFINE e == rec.cursor
<1>1. e \in Seq([at : Int, shown : BOOLEAN])
  BY DEF RecordingOf
<1>2. DOMAIN e = 1 .. Len(e) /\ Len(e) \in Nat
  <2> HIDE DEF e
  <2>1. QED
    BY <1>1
<1>3. \A a, b \in DOMAIN e : a < b => e[a].at <= e[b].at
  BY DEF RecordingOf
<1>4. \A a \in DOMAIN e : e[a].at \in Int
  BY TimesOf
<1>5. UntilNext(rec, i) = IF i < Len(e) THEN e[i + 1].at ELSE rec.end
  BY DEF UntilNext
<1>6. i \in LastEvents(rec, t) <=> e[i].at <= t /\ \A j \in DOMAIN e : e[j].at <= t => j <= i
  BY DEF LastEvents
<1>7. i \in DOMAIN e
  OBVIOUS
<1> HIDE DEF e
<1>8. ASSUME e[i].at <= t, t < UntilNext(rec, i), NEW j \in DOMAIN e, e[j].at <= t PROVE j <= i
  <2>1. SUFFICES ASSUME i < j PROVE FALSE
    BY <1>2, <1>7
  <2>2. i < Len(e) /\ i + 1 \in DOMAIN e /\ (i + 1 = j \/ i + 1 < j)
    BY <1>2, <1>7, <2>1
  <2>3. e[i + 1].at <= e[j].at
    BY <1>3, <1>4, <2>2
  <2>4. t < e[i + 1].at
    BY <1>5, <1>8, <2>2
  <2>5. e[i + 1].at \in Int /\ e[j].at \in Int
    BY <1>4, <2>2
  <2>6. QED
    BY <1>8, <2>3, <2>4, <2>5
<1>9. ASSUME \A j \in DOMAIN e : e[j].at <= t => j <= i PROVE t < UntilNext(rec, i)
  <2>1. CASE i < Len(e)
    <3>1. i + 1 \in DOMAIN e /\ ~(i + 1 <= i)
      BY <1>2, <1>7, <2>1
    <3>2. ~(e[i + 1].at <= t)
      BY <1>9, <3>1
    <3>3. e[i + 1].at \in Int
      BY <1>4, <3>1
    <3>4. QED
      BY <1>5, <2>1, <3>2, <3>3
  <2>2. CASE ~(i < Len(e))
    BY <1>5, <2>2
  <2>3. QED
    BY <2>1, <2>2
<1>10. QED
  BY <1>6, <1>8, <1>9 DEF e

\* What the cursor shows: its last event, on a slide.
LEMMA CursorShows ==
    ASSUME NEW rec, RecordingOf(rec), NEW t \in Int
    PROVE  Seen(CursorClips(rec), t) =
             {i \in LastEvents(rec, t) : /\ t < rec.end /\ rec.cursor[i].shown
                /\ \E s \in ToSet(rec.slides) : s.from <= rec.cursor[i].at /\ rec.cursor[i].at < s.to}
<1> DEFINE slideAt(u) == {j \in DOMAIN rec.slides : rec.slides[j].from <= u /\ u < rec.slides[j].to}
           onSlide(i) == \E s \in ToSet(rec.slides) : s.from <= rec.cursor[i].at /\ rec.cursor[i].at < s.to
           I == {j \in DOMAIN rec.cursor : rec.cursor[j].shown /\ slideAt(rec.cursor[j].at) # {}}
           what == [i \in I |-> i]
           from == [i \in I |-> rec.cursor[i].at]
           to == [i \in I |-> UntilNext(rec, i)]
           in == [i \in I |-> 0]
           now == {j \in I : from[j] <= t /\ t < to[j] /\ t < rec.end}
<1>1. rec.end \in Int
  BY TimesOf
<1>2. ASSUME NEW i \in DOMAIN rec.cursor PROVE rec.cursor[i].at \in Int /\ UntilNext(rec, i) \in Int
  <2>1. rec.cursor \in Seq([at : Int, shown : BOOLEAN])
    BY DEF RecordingOf
  <2>2. i < Len(rec.cursor) => i + 1 \in DOMAIN rec.cursor
    BY <2>1
  <2>3. QED
    BY <2>2, TimesOf DEF UntilNext
<1>3. from \in [I -> Int] /\ to \in [I -> Int]
  BY <1>2
<1>4. CursorClips(rec) = UNION {AddClip(rec, what[i], from[i], in[i], to[i] - from[i]) : i \in I}
  <2>1. \A i \in I : AddClip(rec, what[i], from[i], in[i], to[i] - from[i])
                       = AddClip(rec, i, rec.cursor[i].at, 0, UntilNext(rec, i) - rec.cursor[i].at)
    OBVIOUS
  <2>2. CursorClips(rec)
          = UNION {AddClip(rec, i, rec.cursor[i].at, 0, UntilNext(rec, i) - rec.cursor[i].at) : i \in I}
    BY Zenon DEF CursorClips, UntilNext
  <2> HIDE DEF I, what, from, to, in
  <2>3. QED
    BY ONLY <2>1, <2>2
<1>5. Seen(CursorClips(rec), t) = {what[i] : i \in now}
  <2> HIDE DEF I, what, from, to, in
  <2>1. Seen(UNION {AddClip(rec, what[i], from[i], in[i], to[i] - from[i]) : i \in I}, t) = {what[i] : i \in now}
    BY ONLY <1>1, <1>3, ClipsShow, t \in Int
  <2>2. QED
    BY ONLY <1>4, <2>1
<1>6. {what[i] : i \in now} = now
  OBVIOUS
<1>7. now = {i \in LastEvents(rec, t) : t < rec.end /\ rec.cursor[i].shown /\ onSlide(i)}
  <2>1. ASSUME NEW i \in DOMAIN rec.cursor
        PROVE  i \in now <=> i \in LastEvents(rec, t) /\ t < rec.end /\ rec.cursor[i].shown /\ onSlide(i)
    <3>1. i \in I <=> rec.cursor[i].shown /\ onSlide(i)
      BY DEF ToSet
    <3>2. i \in I => from[i] = rec.cursor[i].at /\ to[i] = UntilNext(rec, i)
      OBVIOUS
    <3>3. i \in now <=> i \in I /\ from[i] <= t /\ t < to[i] /\ t < rec.end
      OBVIOUS
    <3>4. t < rec.end => (rec.cursor[i].at <= t /\ t < UntilNext(rec, i) <=> i \in LastEvents(rec, t))
      BY LastUntilNext
    <3> HIDE DEF now, I, from, to, onSlide
    <3>5. QED
      BY <3>1, <3>2, <3>3, <3>4
  <2>2. now \subseteq DOMAIN rec.cursor /\ LastEvents(rec, t) \subseteq DOMAIN rec.cursor
    BY DEF LastEvents
  <2> HIDE DEF now, onSlide
  <2>3. QED
    BY <2>1, <2>2
<1>8. QED
  BY ONLY <1>5, <1>6, <1>7

\* A shape is drawn while it is visible and its slide is.
LEMMA ShapeTimes ==
    ASSUME NEW s, s.from \in Int, s.to \in Int, s.from < s.to,
           NEW shape, shape.from \in Int, shape.undo \in Int
    PROVE  /\ ShapeTime(s, shape).from \in Int /\ ShapeTime(s, shape).to \in Int
           /\ \A t \in Int : (ShapeTime(s, shape).from <= t /\ t < ShapeTime(s, shape).to)
                <=> /\ s.from <= t /\ t < s.to
                    /\ shape.from <= t /\ (shape.undo < 0 \/ t < shape.undo)
<1> DEFINE within(t) == Min({Max({t, s.from}), s.to})
           until == IF shape.undo < 0 THEN s.to ELSE shape.undo
<1>1. ASSUME NEW t \in Int
      PROVE  /\ Max({t, s.from}) = IF t >= s.from THEN t ELSE s.from
             /\ Max({t, s.from}) \in Int
  BY MaxOfTwo
<1>2. ASSUME NEW t \in Int
      PROVE  within(t) = IF Max({t, s.from}) <= s.to THEN Max({t, s.from}) ELSE s.to
  BY <1>1, MinOfTwo
<1>3. ShapeTime(s, shape).from = within(shape.from) /\ ShapeTime(s, shape).to = within(until)
  BY DEF ShapeTime
<1>4. until \in Int
  OBVIOUS
<1> HIDE DEF within
<1>5. ASSUME NEW t \in Int
      PROVE  within(t) = IF t <= s.from THEN s.from ELSE IF t <= s.to THEN t ELSE s.to
  <2> DEFINE m == Max({t, s.from})
  <2>1. m = IF t >= s.from THEN t ELSE s.from
    BY <1>1
  <2>2. within(t) = IF m <= s.to THEN m ELSE s.to
    BY <1>2
  <2> HIDE DEF m
  <2>3. QED
    BY <2>1, <2>2
<1>6. within(shape.from) \in Int /\ within(until) \in Int
  BY <1>4, <1>5
<1>7. ASSUME NEW t \in Int
      PROVE  (within(shape.from) <= t /\ t < within(until))
                <=> /\ s.from <= t /\ t < s.to
                    /\ shape.from <= t /\ (shape.undo < 0 \/ t < shape.undo)
  <2>1. within(shape.from) = IF shape.from <= s.from THEN s.from ELSE IF shape.from <= s.to THEN shape.from ELSE s.to
    BY <1>5
  <2>2. within(until) = IF until <= s.from THEN s.from ELSE IF until <= s.to THEN until ELSE s.to
    BY <1>4, <1>5
  <2>3. CASE shape.undo < 0
    BY <2>1, <2>2, <2>3
  <2>4. CASE ~(shape.undo < 0)
    BY <2>1, <2>2, <2>4
  <2>5. QED
    BY <2>3, <2>4
<1>8. QED
  BY <1>3, <1>6, <1>7

\* Intervals from from[i] to to[i], cut at every bound.
Bounds(D, from, to) == UNION {{from[i], to[i]} : i \in D}

NextBound(D, from, to, b) == Min({c \in Bounds(D, from, to) : c > b})

Live(D, from, to, b) == {i \in D : from[i] <= b /\ b < to[i]}

\* In a piece the same intervals are live all the time, and every time at which
\* one is live is in a piece.
LEMMA PiecesAre ==
    ASSUME NEW D, IsFiniteSet(D), NEW from \in [D -> Int], NEW to \in [D -> Int], NEW t \in Int
    PROVE  /\ Bounds(D, from, to) \subseteq Int
           /\ \A b \in Bounds(D, from, to) : Live(D, from, to, b) # {} =>
                  /\ NextBound(D, from, to, b) \in Int
                  /\ (b <= t /\ t < NextBound(D, from, to, b)) => Live(D, from, to, b) = Live(D, from, to, t)
           /\ Live(D, from, to, t) # {} =>
                  \E b \in Bounds(D, from, to) :
                      Live(D, from, to, b) # {} /\ b <= t /\ t < NextBound(D, from, to, b)
<1> DEFINE bounds == Bounds(D, from, to)
           later(b) == {c \in bounds : c > b}
           live(b) == Live(D, from, to, b)
           next(b) == NextBound(D, from, to, b)
<1>1. \A i \in D : from[i] \in bounds /\ to[i] \in bounds /\ from[i] \in Int /\ to[i] \in Int
  BY DEF Bounds
<1>2. bounds \subseteq Int
  BY DEF Bounds
<1>3. IsFiniteSet(bounds)
  <2> DEFINE A == {from[i] : i \in D}
             B == {to[i] : i \in D}
  <2>1. bounds = A \cup B
    BY DEF Bounds
  <2>2. IsFiniteSet(A)
    <3>1. from \in [D -> A] /\ \A y \in A : \E x \in D : from[x] = y
      OBVIOUS
    <3> HIDE DEF A
    <3>2. QED
      BY <3>1, CoveredIsFinite
  <2>3. IsFiniteSet(B)
    <3>1. to \in [D -> B] /\ \A y \in B : \E x \in D : to[x] = y
      OBVIOUS
    <3> HIDE DEF B
    <3>2. QED
      BY <3>1, CoveredIsFinite
  <2> HIDE DEF A, B, bounds
  <2>4. IsFiniteSet(A \cup B)
    BY <2>2, <2>3, FS_Union
  <2>5. QED
    BY ONLY <2>1, <2>4
<1>4. \A b, i : i \in live(b) <=> i \in D /\ from[i] <= b /\ b < to[i]
  BY DEF Live
<1>5. ASSUME NEW b \in Int, live(b) # {}
      PROVE  next(b) \in bounds /\ b < next(b) /\ \A c \in bounds : b < c => next(b) <= c
  <2>1. PICK i \in D : b < to[i]
    BY <1>4, <1>5
  <2>2. to[i] \in later(b)
    BY <1>1, <2>1
  <2>3. IsFiniteSet(later(b)) /\ later(b) \subseteq Int
    BY <1>2, <1>3, FS_Subset
  <2>4. next(b) = Min(later(b))
    BY DEF NextBound
  <2>5. \A c : c \in later(b) <=> c \in bounds /\ c > b
    OBVIOUS
  <2> HIDE DEF later, next, bounds, live
  <2>6. next(b) \in later(b) /\ \A y \in later(b) : next(b) <= y
    BY <2>2, <2>3, <2>4, ExtremesOf
  <2>7. QED
    BY <1>2, <2>5, <2>6
<1>6. ASSUME NEW b \in bounds, live(b) # {}, b <= t, t < next(b) PROVE live(b) = live(t)
  <2>1. b \in Int /\ next(b) \in Int
    BY <1>2, <1>5, <1>6
  <2>2. ASSUME NEW c \in bounds PROVE c <= b <=> c <= t
    <3>1. c \in Int
      BY <1>2
    <3>2. b < c => next(b) <= c
      BY <1>5, <1>6, <2>1
    <3>3. QED
      BY <1>6, <2>1, <3>1, <3>2
  <2>3. ASSUME NEW i PROVE i \in live(b) <=> i \in live(t)
    <3>1. CASE i \in D
      <4>1. from[i] <= b <=> from[i] <= t
        BY <1>1, <2>2, <3>1
      <4>2. to[i] <= b <=> to[i] <= t
        BY <1>1, <2>2, <3>1
      <4>3. to[i] \in Int
        BY <1>1, <3>1
      <4> HIDE DEF live
      <4>4. QED
        BY <1>4, <2>1, <3>1, <4>1, <4>2, <4>3
    <3>2. CASE i \notin D
      BY <3>2 DEF Live
    <3>3. QED
      BY <3>1, <3>2
  <2> HIDE DEF live
  <2>4. QED
    BY <2>3
<1>7. ASSUME live(t) # {} PROVE \E b \in bounds : live(b) # {} /\ b <= t /\ t < next(b)
  <2> DEFINE past == {c \in bounds : c <= t}
             b == Max(past)
  <2>1. PICK i \in D : from[i] <= t /\ t < to[i]
    BY <1>4, <1>7
  <2>2. from[i] \in past
    BY <1>1, <2>1
  <2>3. IsFiniteSet(past) /\ past \subseteq Int
    BY <1>2, <1>3, FS_Subset
  <2>4. \A c : c \in past <=> c \in bounds /\ c <= t
    OBVIOUS
  <2> HIDE DEF past, bounds, live, next
  <2>5. b \in past /\ \A c \in past : c <= b
    BY <2>2, <2>3, ExtremesOf
  <2> HIDE DEF b
  <2>6. b \in bounds /\ b \in Int /\ b <= t /\ from[i] <= b
    BY <1>2, <2>2, <2>4, <2>5
  <2>7. i \in live(b)
    <3>1. b < to[i]
      BY <1>1, <2>1, <2>6
    <3>2. QED
      BY <1>4, <2>6, <3>1
  <2>8. next(b) \in bounds /\ b < next(b)
    BY <1>5, <2>6, <2>7
  <2>9. ~(next(b) <= t)
    <3>1. SUFFICES ASSUME next(b) <= t PROVE FALSE
      OBVIOUS
    <3>2. next(b) \in past /\ next(b) \in Int
      BY <1>2, <2>4, <2>8, <3>1
    <3>3. next(b) <= b
      BY <2>5, <3>2
    <3>4. QED
      BY <2>6, <2>8, <3>2, <3>3
  <2>10. next(b) \in Int
    BY <1>2, <2>8
  <2>11. t < next(b)
    BY <2>9, <2>10
  <2>12. QED
    BY <2>6, <2>7, <2>11
<1>8. \A b \in bounds : live(b) # {} => next(b) \in Int
  BY <1>2, <1>5
<1>9. \A b \in bounds : live(b) # {} => (b <= t /\ t < next(b) => live(b) = live(t))
  BY <1>6
<1>10. live(t) # {} => \E b \in bounds : live(b) # {} /\ b <= t /\ t < next(b)
  BY <1>7
<1> HIDE DEF bounds, live, next
<1>11. \A b \in bounds : live(b) # {} => /\ next(b) \in Int
                                         /\ (b <= t /\ t < next(b)) => live(b) = live(t)
  BY <1>8, <1>9
<1>12. QED
  BY ONLY <1>2, <1>10, <1>11 DEF bounds, live, next

\* Whether shape i of slide k was on the slide.
Visible(rec, k, i, t) ==
    /\ rec.shapes[k][i].from <= t
    /\ rec.shapes[k][i].undo < 0 \/ t < rec.shapes[k][i].undo

\* What the annotations of a slide show: the last version of every shape that
\* is on the slide while the slide is.
LEMMA AnnotationsShow ==
    ASSUME NEW rec, RecordingOf(rec), NEW k \in DOMAIN rec.slides,
           rec.slides[k].from < rec.slides[k].to, NEW t \in Int, NEW S,
           S = {i \in DOMAIN rec.shapes[k] :
                   /\ rec.slides[k].from <= t /\ t < rec.slides[k].to /\ t < rec.end
                   /\ Visible(rec, k, i, t)}
    PROVE  UNION Seen(ShapeClips(rec, k), t) = LastVersions(rec, k, S)
<1> DEFINE D == Drawn(rec, k)
           time(i) == ShapeTime(rec.slides[k], rec.shapes[k][i])
           from == [i \in D |-> time(i).from]
           to == [i \in D |-> time(i).to]
           live(b) == Live(D, from, to, b)
           next(b) == NextBound(D, from, to, b)
           I == {c \in Bounds(D, from, to) : live(c) # {}}
           what == [b \in I |-> LastVersions(rec, k, live(b))]
           in == [b \in I |-> 0]
           begin == [b \in I |-> b]
           until == [b \in I |-> next(b)]
           now == {b \in I : begin[b] <= t /\ t < until[b] /\ t < rec.end}
<1>1. rec.end \in Int /\ rec.slides[k].from \in Int /\ rec.slides[k].to \in Int
  BY TimesOf
<1>2. ASSUME NEW i \in DOMAIN rec.shapes[k]
      PROVE  rec.shapes[k][i].from \in Int /\ rec.shapes[k][i].undo \in Int
  BY TimesOf
<1>3. ASSUME NEW i \in DOMAIN rec.shapes[k]
      PROVE  /\ time(i).from \in Int /\ time(i).to \in Int
             /\ (time(i).from <= t /\ t < time(i).to)
                  <=> /\ rec.slides[k].from <= t /\ t < rec.slides[k].to
                      /\ Visible(rec, k, i, t)
  BY <1>1, <1>2, ShapeTimes DEF Visible
<1>4. \A i : i \in D <=> i \in DOMAIN rec.shapes[k] /\ time(i).from <= rec.end
  BY DEF Drawn
<1>5. IsFiniteSet(D)
  <2>1. PICK ids : rec.shapes[k] \in Seq([id : ids, from : Int, undo : Int])
    BY DEF RecordingOf
  <2>2. DOMAIN rec.shapes[k] = 1 .. Len(rec.shapes[k]) /\ Len(rec.shapes[k]) \in Nat
    BY <2>1
  <2>3. IsFiniteSet(1 .. Len(rec.shapes[k]))
    BY <2>2, FS_Interval
  <2>4. D \subseteq 1 .. Len(rec.shapes[k])
    BY <1>4, <2>2
  <2>5. QED
    BY <2>3, <2>4, FS_Subset
<1> HIDE DEF D, time
<1>6. from \in [D -> Int] /\ to \in [D -> Int]
  BY <1>3, <1>4
<1>7. t < rec.end => live(t) = S
  <2>1. ASSUME t < rec.end, NEW i PROVE i \in live(t) <=> i \in S
    <3>1. i \in live(t) <=> i \in D /\ from[i] <= t /\ t < to[i]
      BY DEF Live
    <3>2. i \in D => from[i] = time(i).from /\ to[i] = time(i).to
      OBVIOUS
    <3> HIDE DEF live, from, to
    <3>3. CASE i \in DOMAIN rec.shapes[k]
      <4>1. i \in S <=> time(i).from <= t /\ t < time(i).to
        BY <1>3, <2>1, <3>3
      <4>2. i \in live(t) <=> time(i).from <= rec.end /\ time(i).from <= t /\ t < time(i).to
        BY <1>4, <3>1, <3>2, <3>3
      <4>3. time(i).from <= t => time(i).from <= rec.end
        BY <1>1, <1>3, <2>1, <3>3
      <4>4. QED
        BY <4>1, <4>2, <4>3
    <3>4. CASE i \notin DOMAIN rec.shapes[k]
      BY <1>4, <3>1, <3>4
    <3>5. QED
      BY <3>3, <3>4
  <2> HIDE DEF live
  <2>2. QED
    BY <2>1
<1>8. ~(t < rec.end) => S = {}
  OBVIOUS
<1>9. /\ \A b \in Bounds(D, from, to) : live(b) # {} =>
            /\ next(b) \in Int
            /\ (b <= t /\ t < next(b)) => live(b) = live(t)
      /\ live(t) # {} => \E b \in Bounds(D, from, to) : live(b) # {} /\ b <= t /\ t < next(b)
      /\ Bounds(D, from, to) \subseteq Int
  <2> HIDE DEF from, to
  <2>1. QED
    BY <1>5, <1>6, PiecesAre
<1>10. ShapeClips(rec, k) = UNION {AddClip(rec, what[b], begin[b], in[b], until[b] - begin[b]) : b \in I}
  <2>1. \A b \in I : AddClip(rec, what[b], begin[b], in[b], until[b] - begin[b])
                       = AddClip(rec, LastVersions(rec, k, live(b)), b, 0, next(b) - b)
    OBVIOUS
  <2>2. ShapeClips(rec, k)
          = UNION {AddClip(rec, LastVersions(rec, k, live(b)), b, 0, next(b) - b) : b \in I}
    <3> DEFINE bounds == UNION {{time(i).from, time(i).to} : i \in Drawn(rec, k)}
               after(b) == Min({c \in bounds : c > b})
               living(b) == {i \in Drawn(rec, k) : time(i).from <= b /\ b < time(i).to}
    <3>1. ShapeClips(rec, k)
            = UNION {AddClip(rec, LastVersions(rec, k, living(b)), b, 0, after(b) - b) :
                        b \in {c \in bounds : living(c) # {}}}
      BY Zenon DEF ShapeClips, time
    <3>2. bounds = Bounds(D, from, to)
      <4>1. \A i \in D : from[i] = time(i).from /\ to[i] = time(i).to
        OBVIOUS
      <4> HIDE DEF from, to
      <4>2. QED
        BY <4>1 DEF Bounds, D
    <3>3. \A b : living(b) = live(b)
      BY DEF Live, D
    <3> HIDE DEF from, to, bounds, living, live
    <3>4. \A b : after(b) = next(b)
      BY <3>2 DEF NextBound
    <3>5. {c \in bounds : living(c) # {}} = I
      BY <3>2, <3>3
    <3> HIDE DEF after, next, I
    <3>6. QED
      BY ONLY <3>1, <3>3, <3>4, <3>5
  <2> HIDE DEF I, what, begin, until, in
  <2>3. QED
    BY ONLY <2>1, <2>2
<1>11. begin \in [I -> Int] /\ until \in [I -> Int]
  <2> HIDE DEF from, to, live, next
  <2>1. QED
    BY <1>9
<1>12. Seen(ShapeClips(rec, k), t) = {what[b] : b \in now}
  <2> HIDE DEF I, what, begin, until, in
  <2>1. Seen(UNION {AddClip(rec, what[b], begin[b], in[b], until[b] - begin[b]) : b \in I}, t)
          = {what[b] : b \in now}
    BY ONLY <1>1, <1>11, ClipsShow, t \in Int
  <2>2. QED
    BY ONLY <1>10, <2>1
<1> HIDE DEF from, to, live, next
<1>13. ASSUME NEW b \in now PROVE t < rec.end /\ what[b] = LastVersions(rec, k, S)
  <2>1. b \in I /\ b <= t /\ t < next(b) /\ t < rec.end
    OBVIOUS
  <2>2. live(b) = live(t)
    BY <1>9, <2>1
  <2>3. live(b) = S
    BY ONLY <1>7, <2>1, <2>2
  <2>4. QED
    BY <2>1, <2>3
<1>14. S # {} => now # {}
  <2>1. SUFFICES ASSUME S # {} PROVE now # {}
    OBVIOUS
  <2>2. t < rec.end
    BY <1>8, <2>1
  <2>3. live(t) # {}
    BY ONLY <1>7, <2>1, <2>2
  <2>4. PICK b \in Bounds(D, from, to) : live(b) # {} /\ b <= t /\ t < next(b)
    BY <1>9, <2>3
  <2>5. b \in now
    BY <2>2, <2>4
  <2>6. QED
    BY <2>5
<1>15. S = {} => LastVersions(rec, k, S) = {}
  BY DEF LastVersions
<1> HIDE DEF now, what, I, begin, until
<1>16. UNION {what[b] : b \in now} = LastVersions(rec, k, S)
  <2>1. CASE now = {}
    BY <1>14, <1>15, <2>1
  <2>2. CASE now # {}
    <3>1. {what[b] : b \in now} = {LastVersions(rec, k, S)}
      BY <1>13, <2>2
    <3>2. QED
      BY <3>1
  <2>3. QED
    BY <2>1, <2>2
<1>17. QED
  BY ONLY <1>12, <1>16

\* At every moment the layers of a video show what its recording did: the
\* slide, the screen and, for a profile with annotations and no other, the
\* cursor where it was last and of every shape its latest version
\* (make_xges.py).
THEOREM RecordingsAlwaysShown ==
    ASSUME NEW rec, RecordingOf(rec), NEW annotations \in BOOLEAN
    PROVE  ShowsTheRecording(rec, annotations)
<1> SUFFICES ASSUME Drawable(rec, annotations), NEW t \in 0 .. Max({rec.end, rec.deskEnd})
    PROVE  LET at(s) == s.from <= t /\ t < s.to /\ t < rec.end
               last == {i \in DOMAIN rec.cursor : rec.cursor[i].at <= t
                          /\ \A j \in DOMAIN rec.cursor : rec.cursor[j].at <= t => j <= i}
               visible(k, i) ==
                   /\ rec.shapes[k][i].from <= t
                   /\ rec.shapes[k][i].undo < 0 \/ t < rec.shapes[k][i].undo
           IN  /\ Seen(SlideLayer(rec), t) = {k \in DOMAIN rec.slides : at(rec.slides[k]) /\ ~rec.slides[k].desk}
               /\ Seen(CursorLayer(rec, annotations), t) = {i \in last : annotations /\ t < rec.end /\ rec.cursor[i].shown
                     /\ \E s \in ToSet(rec.slides) : s.from <= rec.cursor[i].at /\ rec.cursor[i].at < s.to}
               /\ \A k \in DOMAIN rec.slides :
                     UNION Seen(AnnotationLayer(rec, annotations, k), t) =
                        {i \in DOMAIN rec.shapes[k] : annotations /\ at(rec.slides[k]) /\ visible(k, i)
                           /\ \A j \in DOMAIN rec.shapes[k] :
                                 (visible(k, j) /\ rec.shapes[k][j].id = rec.shapes[k][i].id) => j <= i}
               /\ Seen(DeskshareLayer(rec), t) = {i \in DOMAIN rec.desk : at(rec.desk[i]) /\ t < rec.deskEnd}
  BY DEF ShowsTheRecording
<1>2. t \in Int
  <2>1. rec.end \in Int /\ rec.deskEnd \in Int
    BY TimesOf
  <2>2. QED
    BY <2>1, MaxOfTwo
<1>3. ASSUME NEW k \in DOMAIN rec.slides
      PROVE  UNION Seen(AnnotationLayer(rec, annotations, k), t) =
                {i \in DOMAIN rec.shapes[k] :
                   /\ annotations
                   /\ rec.slides[k].from <= t /\ t < rec.slides[k].to /\ t < rec.end
                   /\ Visible(rec, k, i, t)
                   /\ \A j \in DOMAIN rec.shapes[k] :
                         (Visible(rec, k, j, t) /\ rec.shapes[k][j].id = rec.shapes[k][i].id) => j <= i}
  <2> DEFINE at == rec.slides[k].from <= t /\ t < rec.slides[k].to /\ t < rec.end
             S == {i \in DOMAIN rec.shapes[k] : at /\ Visible(rec, k, i, t)}
  <2>1. rec.slides[k].from < rec.slides[k].to
    BY DEF Drawable
  <2>2. UNION Seen(ShapeClips(rec, k), t) = LastVersions(rec, k, S)
    <3>1. S = {i \in DOMAIN rec.shapes[k] :
                  /\ rec.slides[k].from <= t /\ t < rec.slides[k].to /\ t < rec.end
                  /\ Visible(rec, k, i, t)}
      OBVIOUS
    <3> HIDE DEF S
    <3>2. QED
      BY <1>2, <2>1, <3>1, AnnotationsShow
  <2>3. LastVersions(rec, k, S)
          = {i \in DOMAIN rec.shapes[k] :
               /\ at
               /\ Visible(rec, k, i, t)
               /\ \A j \in DOMAIN rec.shapes[k] :
                     (Visible(rec, k, j, t) /\ rec.shapes[k][j].id = rec.shapes[k][i].id) => j <= i}
    <3> HIDE DEF at
    <3>1. QED
      BY DEF LastVersions
  <2>4. annotations => AnnotationLayer(rec, annotations, k) = ShapeClips(rec, k)
    BY DEF AnnotationLayer
  <2>5. ~annotations => UNION Seen(AnnotationLayer(rec, annotations, k), t) = {}
    BY DEF AnnotationLayer, Seen
  <2> HIDE DEF at, S
  <2>6. CASE annotations
    <3>1. UNION Seen(AnnotationLayer(rec, annotations, k), t) = LastVersions(rec, k, S)
      BY <2>2, <2>4, <2>6
    <3>2. QED
      BY <2>3, <2>6, <3>1 DEF at
  <2>7. CASE ~annotations
    BY <2>5, <2>7
  <2>8. QED
    BY <2>6, <2>7
<1>4. Seen(SlideLayer(rec), t)
        = {k \in DOMAIN rec.slides : (rec.slides[k].from <= t /\ t < rec.slides[k].to /\ t < rec.end)
                                     /\ ~rec.slides[k].desk}
  BY <1>2, SlidesShow
<1>5. Seen(CursorLayer(rec, annotations), t)
        = {i \in LastEvents(rec, t) : annotations /\ t < rec.end /\ rec.cursor[i].shown
             /\ \E s \in ToSet(rec.slides) : s.from <= rec.cursor[i].at /\ rec.cursor[i].at < s.to}
  <2>1. Seen(CursorClips(rec), t)
          = {i \in LastEvents(rec, t) : t < rec.end /\ rec.cursor[i].shown
               /\ \E s \in ToSet(rec.slides) : s.from <= rec.cursor[i].at /\ rec.cursor[i].at < s.to}
    BY <1>2, CursorShows
  <2>2. CASE annotations
    <3>1. CursorLayer(rec, annotations) = CursorClips(rec)
      BY <2>2 DEF CursorLayer
    <3>2. QED
      BY <2>1, <2>2, <3>1
  <2>3. CASE ~annotations
    <3>1. Seen(CursorLayer(rec, annotations), t) = {}
      BY <2>3 DEF CursorLayer, Seen
    <3>2. QED
      BY <2>3, <3>1
  <2>4. QED
    BY <2>2, <2>3
<1>6. Seen(DeskshareLayer(rec), t)
        = {i \in DOMAIN rec.desk : (rec.desk[i].from <= t /\ t < rec.desk[i].to /\ t < rec.end)
                                   /\ t < rec.deskEnd}
  BY <1>2, DeskShows
<1>7. QED
  BY ONLY <1>3, <1>4, <1>5, <1>6 DEF LastEvents, Visible
\* Python's rounding is off by half at most, and what is at most k rounds to at most k.
LEMMA Rounding ==
    ASSUME NEW a \in Nat, NEW b \in Nat \ {0}
    PROVE  /\ Round(a, b) \in Nat
           /\ 2 * (b * Round(a, b)) <= 2 * a + b /\ 2 * a <= 2 * (b * Round(a, b)) + b
           /\ \A k \in Nat : a <= b * k => Round(a, b) <= k
<1> DEFINE low == a \div b
           rest == a % b
           up == 2 * rest > b \/ (2 * rest = b /\ low % 2 = 1)
           r == IF up THEN low + 1 ELSE low
<1>1. low \in Nat /\ rest \in Nat /\ rest < b /\ a = b * low + rest
  BY Division
<1>2. Round(a, b) = r
  <2>1. a - low * b = rest
    <3> HIDE DEF low, rest
    <3>1. b * low = low * b /\ b * low \in Nat
      BY <1>1
    <3>2. QED
      BY <1>1, <3>1
  <2>2. Round(a, b) = IF 2 * (a - low * b) > b \/ (2 * (a - low * b) = b /\ low % 2 = 1) THEN low + 1 ELSE low
    BY DEF Round
  <2> HIDE DEF low, rest
  <2>3. QED
    BY <2>1, <2>2
<1>3. up => 2 * rest >= b
  <2> HIDE DEF low, rest
  <2>1. QED
    BY <1>1
<1>4. ~up => 2 * rest <= b
  <2> HIDE DEF low, rest
  <2>1. QED
    BY <1>1
<1> HIDE DEF low, rest, up
<1>5. r \in Nat
  BY <1>1
<1> DEFINE p == b * low
           q == b * r
<1>6. p \in Nat /\ q = IF up THEN p + b ELSE p
  <2>1. b * (low + 1) = b * low + b /\ b * low \in Nat
    BY <1>1
  <2>2. QED
    BY <2>1
<1>7. a = p + rest
  BY <1>1
<1> HIDE DEF p, q
<1>8. 2 * q <= 2 * a + b /\ 2 * a <= 2 * q + b
  BY <1>1, <1>3, <1>4, <1>6, <1>7
<1>9. ASSUME NEW k \in Nat, a <= b * k PROVE r <= k
  <2> DEFINE m == b * k
  <2>1. SUFFICES ASSUME k < r PROVE FALSE
    BY <1>5
  <2>2. m + b <= q /\ m \in Nat
    <3> DEFINE d == r - (k + 1)
    <3>1. d \in Nat /\ r = k + 1 + d
      BY <1>5, <2>1
    <3> HIDE DEF r, d
    <3>2. b * (k + 1 + d) = b * k + b + b * d /\ b * d \in Nat /\ b * k \in Nat
      BY <3>1
    <3>3. QED
      BY <3>1, <3>2 DEF q
  <2>3. a <= m /\ b > 0
    BY <1>9
  <2> HIDE DEF m
  <2>4. QED
    BY <1>6, <1>8, <2>2, <2>3
<1>10. QED
  BY <1>2, <1>5, <1>8, <1>9 DEF q

\* The size that _constrain returns fits, and is as large as it can be.
LEMMA ConstrainedFits ==
    ASSUME NEW wide \in [num : Nat \ {0}, den : Nat \ {0}], NEW h \in Nat \ {0}, NEW max \in [w : Nat, h : Nat]
    PROVE  /\ Constrain(wide, h, max).w \in 0 .. max.w /\ Constrain(wide, h, max).h \in 0 .. max.h
           /\ \/ /\ Constrain(wide, h, max).w = max.w
                 /\ Constrain(wide, h, max).h = Round(h * max.w * wide.den, wide.num)
              \/ /\ Constrain(wide, h, max).h = max.h
                 /\ Constrain(wide, h, max).w = Round(wide.num * max.h, wide.den * h)
<1> DEFINE a == h * max.w * wide.den
           c == wide.num * max.h
           e == wide.den * h
           high == Round(a, wide.num)
<1>1. wide.num \in Nat \ {0} /\ wide.den \in Nat \ {0} /\ max.w \in Nat /\ max.h \in Nat
  OBVIOUS
<1>2. a \in Nat /\ c \in Nat /\ e \in Nat \ {0} /\ a = e * max.w
  <2>1. \A x, y, z \in Nat : x * y * z \in Nat /\ x * y \in Nat /\ x * y * z = z * x * y
    OBVIOUS
  <2>2. \A x, y \in Nat \ {0} : x * y \in Nat \ {0}
    OBVIOUS
  <2>3. QED
    BY <1>1, <2>1, <2>2
<1>3. Constrain(wide, h, max) = IF high <= max.h THEN [w |-> max.w, h |-> high]
                                ELSE [w |-> Round(c, e), h |-> max.h]
  BY DEF Constrain
<1> HIDE DEF a, e
<1>4. high \in Nat
  BY <1>1, <1>2, Rounding
<1>5. CASE high <= max.h
  BY <1>1, <1>3, <1>4, <1>5 DEF a
<1>6. CASE ~(high <= max.h)
  <2>1. ~(a <= c)
    BY <1>1, <1>2, <1>6, Rounding
  <2>2. c <= e * max.w
    BY <1>2, <2>1
  <2> HIDE DEF c
  <2>3. Round(c, e) \in Nat /\ Round(c, e) <= max.w
    BY <1>1, <1>2, <2>2, Rounding
  <2>4. QED
    BY <1>1, <1>3, <1>6, <2>3 DEF c, e
<1>7. QED
  BY <1>5, <1>6

\* Webcams and slides fit into the frame next to each other, whatever the
\* profile and their sizes are (make_xges.py).
THEOREM BoxesAlwaysFit ==
    ASSUME NEW opts \in [width : Nat, height : Nat, webcam_size : 0 .. 100, stretch : BOOLEAN],
           NEW w \in Nat \ {0}, NEW h \in Nat \ {0}
    PROVE  BoxesFit(opts, w, h)
<1> DEFINE cam == WebcamBox(opts, w, h)
           slide == SlideBox(opts, w, h)
           C == CamWidth(opts)
           S == SlidesWidth(opts)
           H == opts.height
<1>1. opts.width \in Nat /\ H \in Nat /\ opts.webcam_size \in 0 .. 100
  OBVIOUS
<1>2. C \in Nat /\ C <= opts.width
  <2> DEFINE a == opts.width * opts.webcam_size
  <2>1. a \in Nat /\ a <= 100 * opts.width
    <3>1. ASSUME NEW x \in Nat, NEW y \in 0 .. 100 PROVE x * y \in Nat /\ x * y <= 100 * x
      <4> DEFINE d == 100 - y
      <4>1. d \in Nat /\ y = 100 - d /\ x * d \in Nat
        OBVIOUS
      <4>2. x * y = 100 * x - x * d
        BY <4>1
      <4>3. QED
        BY <4>1, <4>2
    <3>2. QED
      BY <1>1, <3>1
  <2> HIDE DEF a
  <2>2. Round(a, 100) \in Nat /\ Round(a, 100) <= opts.width
    BY <1>1, <2>1, Rounding
  <2>3. QED
    BY <2>2 DEF CamWidth, a
<1>3. S = opts.width - C /\ S \in Nat
  BY <1>1, <1>2 DEF SlidesWidth
<1> HIDE DEF C, S
<1> DEFINE wide == IF opts.stretch THEN [num |-> w * 16, den |-> 12] ELSE [num |-> w, den |-> 1]
           room == [w |-> C, h |-> H]
           box == Constrain(wide, h, room)
<1>4. box.w \in 0 .. C /\ box.h \in 0 .. H
  <2>1. wide \in [num : Nat \ {0}, den : Nat \ {0}] /\ room \in [w : Nat, h : Nat] /\ room.w = C /\ room.h = H
    BY <1>1, <1>2
  <2> HIDE DEF wide, room
  <2>2. QED
    BY <2>1, ConstrainedFits
<1>5. cam = [x |-> opts.width - box.w, w |-> box.w, h |-> box.h]
  BY DEF WebcamBox, C
<1> HIDE DEF box
<1>6. cam.x = opts.width - box.w /\ cam.w \in 0 .. C /\ cam.h \in 0 .. H
  BY <1>4, <1>5
<1> DEFINE thin == [num |-> w, den |-> 1]
           space == [w |-> S, h |-> H]
<1>7. slide = Constrain(thin, h, space)
  BY DEF SlideBox, S
<1>8. /\ slide.w \in 0 .. S /\ slide.h \in 0 .. H
      /\ \/ slide.w = S /\ slide.h = Round(h * S * 1, w)
         \/ slide.h = H /\ slide.w = Round(w * H, 1 * h)
  <2>1. /\ thin \in [num : Nat \ {0}, den : Nat \ {0}] /\ space \in [w : Nat, h : Nat]
        /\ space.w = S /\ space.h = H /\ thin.num = w /\ thin.den = 1
    BY <1>1, <1>3
  <2> HIDE DEF thin, space
  <2>2. /\ Constrain(thin, h, space).w \in 0 .. space.w /\ Constrain(thin, h, space).h \in 0 .. space.h
        /\ \/ /\ Constrain(thin, h, space).w = space.w
              /\ Constrain(thin, h, space).h = Round(h * space.w * thin.den, thin.num)
           \/ /\ Constrain(thin, h, space).h = space.h
              /\ Constrain(thin, h, space).w = Round(thin.num * space.h, thin.den * h)
    BY <2>1, ConstrainedFits
  <2>3. QED
    BY ONLY <1>7, <2>1, <2>2
<1> HIDE DEF slide, cam
<1> DEFINE more == Max({w, h})
           x == slide.w
           y == slide.h
<1>9. more \in Nat /\ w <= more /\ h <= more
  BY MaxOfTwo
<1> HIDE DEF more
<1>10. x \in Nat /\ y \in Nat
  BY <1>1, <1>3, <1>8
<1>11. 2 * y * w \in 2 * x * h - more .. 2 * x * h + more
  <2>1. 2 * y * w = 2 * (w * y) /\ w * y \in Nat /\ 2 * x * h = 2 * (h * x) /\ h * x \in Nat
    <3> HIDE DEF x, y
    <3>1. QED
      BY <1>10
  <2>2. CASE x = S /\ y = Round(h * S * 1, w)
    <3> DEFINE a == h * S * 1
    <3>1. a \in Nat /\ a = h * x
      <4>1. a = h * S /\ h * S \in Nat
        BY <1>3
      <4>2. QED
        BY <2>2, <4>1
    <3> HIDE DEF a
    <3>2. 2 * (w * Round(a, w)) <= 2 * a + w /\ 2 * a <= 2 * (w * Round(a, w)) + w
      BY <3>1, Rounding
    <3>3. y = Round(a, w)
      BY <2>2 DEF a
    <3> HIDE DEF x, y
    <3>4. 2 * (w * y) <= 2 * (h * x) + w /\ 2 * (h * x) <= 2 * (w * y) + w
      BY ONLY <3>1, <3>2, <3>3
    <3>5. QED
      BY <1>9, <2>1, <3>4
  <2>3. CASE y = H /\ x = Round(w * H, 1 * h)
    <3> DEFINE a == w * H
    <3>1. a \in Nat /\ a = w * y /\ 1 * h = h
      BY <1>1, <2>3
    <3> HIDE DEF a
    <3>2. 2 * (h * Round(a, h)) <= 2 * a + h /\ 2 * a <= 2 * (h * Round(a, h)) + h
      BY <3>1, Rounding
    <3>3. x = Round(a, h)
      BY <2>3, <3>1 DEF a
    <3> HIDE DEF x, y
    <3>4. 2 * (h * x) <= 2 * (w * y) + h /\ 2 * (w * y) <= 2 * (h * x) + h
      BY ONLY <3>1, <3>2, <3>3
    <3>5. QED
      BY <1>9, <2>1, <3>4
  <2>4. QED
    BY <1>8, <2>2, <2>3
<1>12. /\ slide.w <= cam.x /\ 0 <= slide.w
       /\ cam.w >= 0 /\ cam.h \in 0 .. H /\ slide.h \in 0 .. H
       /\ slide.w = S \/ slide.h = H
  BY <1>1, <1>2, <1>3, <1>4, <1>6, <1>8
<1>13. QED
  BY <1>11, <1>12 DEF BoxesFit, cam, slide, S, more

=============================================================================
