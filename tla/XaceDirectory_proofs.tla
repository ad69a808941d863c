----------------------- MODULE XaceDirectory_proofs -----------------------
(***************************************************************************)
(* Theorems about XaceDirectory, for any number of xClients, discoveries   *)
(* and servers.                                                            *)
(***************************************************************************)
EXTENDS XaceDirectory, XaceSums, SequenceTheorems

-----------------------------------------------------------------------------
(* The inductive invariant, in parts *)

\* What a discovery may answer, and what a selector is made of.
Lst == UNION {[S -> Metadata] : S \in SUBSET Servers}
SelectorRecord ==
  [mode : Modes \cup {"none"}, list : Lst, order : Seq(Servers), i : Nat,
   current : [Servers -> Int], hash : SUBSET Servers]

\* The order of a selector is one of its servers, and its hash lacks only servers without
\* metadata.
Sound(s) ==
  /\ s \in SelectorRecord
  /\ s.mode = "none" => s = NoSelector
  /\ IsInjective(s.order) /\ Range(s.order) = Listed(s.mode, s.list)
  /\ s.hash \subseteq DOMAIN s.list
  /\ \A k \in DOMAIN s.list \ s.hash : s.list[k].empty

\* The places round robin has been at, since it was at a, when its index is i.
Passed(a, i, n) == IF a < i THEN a < n /\ n <= i ELSE a < n \/ n <= i

\* Each server was chosen q times, and those passed since then once more.
Rounds(s, p, q, a) ==
  /\ s.i \in 1 .. Len(s.order)
  /\ \A n \in 1 .. Len(s.order) : p[s.order[n]] = IF Passed(a, s.i, n) THEN q + 1 ELSE q

InTurn(s, p) ==
  s.mode = "roundrobin" =>
    \/ \A k \in Servers : p[k] = 0
    \/ \E q \in Nat, a \in 0 .. Len(s.order) - 1 : Rounds(s, p, q, a)

\* What a server is owed is its current weight: all of them together nothing, and none of
\* them less than a round.
Balanced(s, p) ==
  /\ \A k \in DOMAIN s.list :
       s.current[k] = SumFunctionOnSet(p, Servers) * Weight(s, k) - Total(s) * p[k]
  /\ SumFunctionOnSet(s.current, DOMAIN s.list) = 0
  /\ Total(s) > 0 => \A k \in DOMAIN s.list : s.current[k] > -Total(s)

ByWeight(s, p) == s.mode \in {"weighted", "icmp"} => Balanced(s, p)

Tracks(s, l) == s.mode # "none" => s.list = l

\* One xClient: its construction is at c, its list is l, its selector s and the one about
\* to be set t, its selections are counted by p, and o tells whether it was overtaken.
ClientOK(c, l, s, t, p, o) ==
  /\ Sound(s) /\ Sound(t)
  /\ InTurn(s, p) /\ ByWeight(s, p) /\ InTurn(t, Unpicked) /\ ByWeight(t, Unpicked)
  /\ p \in [Servers -> Nat] /\ SumFunctionOnSet(p, Servers) <= MaxPicks
  /\ c = "none" => s = NoSelector /\ t = NoSelector /\ p = Unpicked
  /\ ~o => Tracks(s, l) /\ Tracks(t, l)

DiscoveryRecord == [pc : {"none", "idle", "asked", "stored"}, found : Lst, pairs : Lst]

CentreTyped ==
  /\ option \in OptionSet /\ answer \in [Discoveries -> Lists]
  /\ changes \in 0 .. MaxChanges /\ faults \in 0 .. MaxFaults
  /\ centre \in {"none", "announced", "seeded"}
  /\ centre # "none" => option.centre \in XClients

WireTyped ==
  /\ disc \in [Discoveries -> DiscoveryRecord]
  /\ chans \in [Discoveries -> SUBSET XClients]
  /\ flight \in [XClients -> Seq(Lst)] /\ ch \in [XClients -> Seq(Lst)]
  /\ \A x \in XClients : Len(flight[x]) <= MaxFlights /\ Len(ch[x]) <= Capacity
  /\ closing \in [XClients -> {"no", "marked", "removed", "closed"}]

ClientsTyped ==
  /\ xc \in [XClients -> {"none", "listed", "watching", "unwatched", "ended"}]
  /\ servers \in [XClients -> Lst]
  /\ sel \in [XClients -> SelectorRecord] /\ pending \in [XClients -> SelectorRecord]
  /\ overtaken \subseteq XClients
  /\ picks \in [XClients -> [Servers -> Nat]]

ClientsOK ==
  \A x \in XClients :
    ClientOK(xc[x], servers[x], sel[x], pending[x], picks[x], x \in overtaken)

DirInv == CentreTyped /\ WireTyped /\ ClientsTyped /\ ClientsOK

-----------------------------------------------------------------------------
(* Lists and selectors *)

LEMMA ListIs ==
  ASSUME NEW l
  PROVE  l \in Lst <=> DOMAIN l \subseteq Servers /\ l \in [DOMAIN l -> Metadata]
  BY DEF Lst

LEMMA ListFinite ==
  ASSUME NEW l \in Lst
  PROVE  IsFiniteSet(DOMAIN l) /\ Cardinality(DOMAIN l) \in Nat
<1>1. DOMAIN l \subseteq Servers
  BY ListIs
<1> QED
  BY <1>1, ListsAssumption, FS_Subset, FS_CardinalityType

LEMMA ListsAreLists == Lists \subseteq Lst
  BY ListIs, ListsAssumption

LEMMA PlainIs == Plain(2) \in Metadata
  BY DirectoryAssumption DEF Plain, Metadata

LEMMA EmptyListIs == EmptyList \in Lst /\ DOMAIN EmptyList = {}
  BY ListIs DEF EmptyList

\* What is left of a list is a list.
LEMMA ActiveIs ==
  ASSUME NEW l \in Lst
  PROVE  Active(l) \in Lst
  BY ListIs, PlainIs DEF Active

LEMMA FilterIs ==
  ASSUME NEW l \in Lst
  PROVE  Filter(l) \in Lst
  BY ListIs DEF Filter

\* An injective sequence of as many elements as the set has goes through all of them.
LEMMA AllInOrder ==
  ASSUME NEW S, IsFiniteSet(S), NEW o \in [1 .. Cardinality(S) -> S], IsInjective(o)
  PROVE  o \in Seq(S) /\ Range(o) = S
<1>1. Cardinality(S) \in Nat
  BY FS_CardinalityType
<1>2. IsFiniteSet(1 .. Cardinality(S)) /\ Cardinality(1 .. Cardinality(S)) = Cardinality(S)
  BY <1>1, FS_Interval
<1>3. o \in Injection(1 .. Cardinality(S), S)
  BY DEF Injection
<1>4. o \in Surjection(1 .. Cardinality(S), S)
  BY <1>2, <1>3, FS_Injection
<1> QED
  BY <1>1, <1>4 DEF Surjection, Range

LEMMA OrdersAreOrders ==
  ASSUME NEW mode \in Modes, NEW l \in Lst, NEW o \in Orders(mode, l)
  PROVE  o \in Seq(Servers) /\ IsInjective(o) /\ Range(o) = Listed(mode, l)
<1>1. DOMAIN l \subseteq Servers /\ IsFiniteSet(DOMAIN l)
  BY ListIs, ListFinite
<1>2. Listed(mode, l) \subseteq DOMAIN l
  BY DEF Listed
<1>3. IsFiniteSet(Listed(mode, l))
  BY <1>1, <1>2, FS_Subset
<1>4. CASE mode \in {"roundrobin", "weighted", "icmp"}
  <2>1. Listed(mode, l) = DOMAIN l
    BY <1>4 DEF Listed
  <2>2. o \in [1 .. Cardinality(DOMAIN l) -> DOMAIN l] /\ IsInjective(o)
    BY <1>4 DEF Orders, SetToSeqs, IsInjective
  <2>3. o \in Seq(DOMAIN l) /\ Range(o) = DOMAIN l
    BY <1>1, <2>2, AllInOrder
  <2> QED
    BY <1>1, <2>1, <2>2, <2>3
<1>5. CASE mode \notin {"roundrobin", "weighted", "icmp"}
  <2> DEFINE S == Listed(mode, l)
  <2>1. o = SetToSeq(S)
    BY <1>5 DEF Orders
  <2>2. \E f \in [1 .. Cardinality(S) -> S] : IsInjective(f)
    BY <1>3, FS_CardinalityType DEF ExistsBijection, Bijection, Injection
  <2>3. o \in [1 .. Cardinality(S) -> S] /\ IsInjective(o)
    BY <2>1, <2>2 DEF SetToSeq
  <2>4. o \in Seq(S) /\ Range(o) = S
    BY <1>3, <2>3, AllInOrder
  <2> QED
    BY <1>1, <1>2, <2>3, <2>4
<1> QED
  BY <1>4, <1>5

LEMMA UnpickedIs ==
  /\ Unpicked \in [Servers -> Nat] /\ Unpicked \in [Servers -> Int]
  /\ \A k \in Servers : Unpicked[k] = 0
  /\ SumFunctionOnSet(Unpicked, Servers) = 0
<1>1. Unpicked \in [Servers -> Nat] /\ \A k \in Servers : Unpicked[k] = 0
  BY DEF Unpicked
<1>2. SumFunctionOnSet(Unpicked, Servers) = 0
  BY <1>1, ListsAssumption, SumOfZeros
<1> QED
  BY <1>1, <1>2

LEMMA WeightIs ==
  ASSUME NEW s \in SelectorRecord, NEW k \in DOMAIN s.list
  PROVE  Weight(s, k) \in Nat
<1>1. s.list \in Lst
  BY DEF SelectorRecord
<1>2. s.list[k] \in Metadata
  BY <1>1, ListIs
<1>3. s.list[k].weight \in Nat /\ s.list[k].rtt \in Nat
  BY <1>2 DEF Metadata
<1>4. ASSUME NEW r \in Nat PROVE CalculateWeight(r) \in Nat
  <2>1. CASE r \in 0 .. 10
    BY <2>1 DEF CalculateWeight
  <2>2. CASE r \in 11 .. 200
    BY <2>2 DEF CalculateWeight
  <2>3. CASE r \in 201 .. 999
    BY <2>3 DEF CalculateWeight
  <2>4. CASE r \notin 0 .. 999
    BY <2>4 DEF CalculateWeight
  <2> QED
    BY <2>1, <2>2, <2>3, <2>4
<1> QED
  BY <1>3, <1>4 DEF Weight

LEMMA TotalIs ==
  ASSUME NEW s \in SelectorRecord
  PROVE  /\ Total(s) = SumFunctionOnSet([k \in DOMAIN s.list |-> Weight(s, k)], DOMAIN s.list)
         /\ Total(s) \in Nat
<1> DEFINE w == [k \in DOMAIN s.list |-> Weight(s, k)]
<1>1. Total(s) = SumFunctionOnSet(w, DOMAIN s.list)
  BY DEF Total, SumFunction
<1>2. \A k \in DOMAIN s.list : w[k] \in Nat
  BY WeightIs
<1>3. IsFiniteSet(DOMAIN s.list)
  BY ListFinite DEF SelectorRecord
<1> HIDE DEF w
<1>4. SumFunctionOnSet(w, DOMAIN s.list) \in Nat
  BY <1>2, <1>3, SumOfCounts
<1> QED
  BY <1>1, <1>4 DEF w

\* With no selection counted yet every selector whose weights are new is fair.
LEMMA FairAtFirst ==
  ASSUME NEW s \in SelectorRecord, s.current = Unpicked
  PROVE  InTurn(s, Unpicked) /\ ByWeight(s, Unpicked)
<1>1. DOMAIN s.list \subseteq Servers /\ IsFiniteSet(DOMAIN s.list)
  BY ListIs, ListFinite DEF SelectorRecord
<1>2. InTurn(s, Unpicked)
  BY UnpickedIs DEF InTurn
<1>3. PICK t \in Nat : t = Total(s)
  BY TotalIs
<1>4. SumFunctionOnSet(s.current, DOMAIN s.list) = 0
  BY <1>1, UnpickedIs, SumOfZeros
<1>5. ASSUME NEW k \in DOMAIN s.list
      PROVE  s.current[k] = SumFunctionOnSet(Unpicked, Servers) * Weight(s, k)
                              - Total(s) * Unpicked[k]
  <2>1. PICK w \in Nat : w = Weight(s, k)
    BY WeightIs
  <2>2. s.current[k] = 0 /\ Unpicked[k] = 0
    BY <1>1, UnpickedIs
  <2>3. 0 * w - t * 0 = 0
    OBVIOUS
  <2> QED
    BY <1>3, <2>1, <2>2, <2>3, UnpickedIs
<1>6. Total(s) > 0 => \A k \in DOMAIN s.list : s.current[k] > -Total(s)
  BY <1>1, <1>3, UnpickedIs
<1> QED
  BY <1>2, <1>4, <1>5, <1>6 DEF ByWeight, Balanced

LEMMA NoSelectorSound == Sound(NoSelector) /\ NoSelector.mode = "none"
<1>1. NoSelector \in SelectorRecord
  BY EmptyListIs, UnpickedIs DEF NoSelector, SelectorRecord
<1>2. Range(<<>>) = {} /\ IsInjective(<<>>)
  BY DEF Range, IsInjective
<1>3. Listed("none", EmptyList) = {}
  BY EmptyListIs DEF Listed
<1> QED
  BY <1>1, <1>2, <1>3, EmptyListIs DEF NoSelector, Sound

LEMMA NewSelectorSound ==
  ASSUME NEW mode \in Modes, NEW l \in Lst, NEW o \in Orders(mode, l)
  PROVE  /\ Sound(NewSelector(mode, l, o))
         /\ InTurn(NewSelector(mode, l, o), Unpicked)
         /\ ByWeight(NewSelector(mode, l, o), Unpicked)
         /\ NewSelector(mode, l, o).mode = mode /\ NewSelector(mode, l, o).list = l
<1>1. PICK s : s = NewSelector(mode, l, o)
  OBVIOUS
<1>2. o \in Seq(Servers) /\ IsInjective(o) /\ Range(o) = Listed(mode, l)
  BY OrdersAreOrders
<1>3. DOMAIN l \subseteq Servers
  BY ListIs
<1>4. s = [mode |-> mode, list |-> l, order |-> o, i |-> 0, current |-> Unpicked,
           hash |-> DOMAIN l]
  BY <1>1 DEF NewSelector, NoSelector
<1>5. s \in SelectorRecord
  BY <1>2, <1>3, <1>4, UnpickedIs DEF SelectorRecord
<1>6. mode # "none"
  BY DEF Modes
<1>7. Sound(s)
  BY <1>2, <1>4, <1>5, <1>6 DEF Sound
<1>8. InTurn(s, Unpicked) /\ ByWeight(s, Unpicked)
  BY <1>4, <1>5, FairAtFirst
<1> QED
  BY <1>1, <1>4, <1>7, <1>8

\* UpdateServer leaves a selector of the new list, with its counts anew.
LEMMA UpdatedSound ==
  ASSUME NEW s, Sound(s), NEW l \in Lst, NEW o \in Orders(s.mode, l)
  PROVE  /\ Sound(Updated(s, l, o))
         /\ InTurn(Updated(s, l, o), Unpicked) /\ ByWeight(Updated(s, l, o), Unpicked)
         /\ Updated(s, l, o).mode = s.mode
         /\ Tracks(Updated(s, l, o), l)
<1>1. s \in SelectorRecord
  BY DEF Sound
<1>2. CASE s.mode = "none"
  <2>1. Updated(s, l, o) = s
    BY <1>2 DEF Updated
  <2> QED
    BY <1>2, <2>1 DEF InTurn, ByWeight, Tracks
<1>3. CASE s.mode # "none"
  <2>1. PICK h : h = Hashed(s, l)
    OBVIOUS
  <2>2. PICK u : u = Updated(s, l, o)
    OBVIOUS
  <2>3. u = [mode |-> s.mode, list |-> l, order |-> o, i |-> s.i, current |-> Unpicked,
             hash |-> h]
    BY <1>1, <1>3, <2>1, <2>2 DEF Updated, SelectorRecord
  <2>4. s.mode \in Modes
    BY <1>1, <1>3 DEF SelectorRecord
  <2>5. o \in Seq(Servers) /\ IsInjective(o) /\ Range(o) = Listed(s.mode, l)
    BY <2>4, OrdersAreOrders
  <2>6. DOMAIN l \subseteq Servers /\ DOMAIN s.list \subseteq Servers
    BY <1>1, ListIs DEF SelectorRecord
  <2>7. h \subseteq DOMAIN l /\ \A k \in DOMAIN l \ h : l[k].empty
    <3>1. s.hash \subseteq DOMAIN s.list
      BY DEF Sound
    <3> QED
      BY <2>1, <3>1 DEF Hashed
  <2>8. u \in SelectorRecord
    BY <1>1, <2>3, <2>5, <2>6, <2>7, UnpickedIs DEF SelectorRecord
  <2>9. u.mode = s.mode /\ u.list = l /\ u.order = o /\ u.hash = h /\ u.current = Unpicked
    BY <2>3
  <2>10. Sound(u)
    BY <1>3, <2>5, <2>7, <2>8, <2>9 DEF Sound
  <2>11. InTurn(u, Unpicked) /\ ByWeight(u, Unpicked)
    BY <2>8, <2>9, FairAtFirst
  <2> QED
    BY <2>2, <2>9, <2>10, <2>11 DEF Tracks
<1> QED
  BY <1>2, <1>3

-----------------------------------------------------------------------------
(* Selections *)

\* The place of the order that is chosen has the greatest weight.
LEMMA BestIs ==
  ASSUME NEW s, Sound(s), s.order # <<>>, s.mode \in {"weighted", "icmp"}
  PROVE  /\ Best(s) \in 1 .. Len(s.order)
         /\ \A n \in 1 .. Len(s.order) :
              s.current[s.order[n]] + Weight(s, s.order[n])
                <= s.current[s.order[Best(s)]] + Weight(s, s.order[Best(s)])
<1> DEFINE raised(n) == s.current[s.order[n]] + Weight(s, s.order[n])
           D == 1 .. Len(s.order)
           r == [n \in D |-> raised(n)]
           Top == {n \in D : \A m \in D : r[m] <= r[n]}
<1>1. s \in SelectorRecord /\ s.order \in Seq(Servers) /\ DOMAIN s.order = D
  BY DEF Sound, SelectorRecord
<1>2. Range(s.order) = DOMAIN s.list
  BY DEF Sound, Listed
<1>3. \A n \in D : s.order[n] \in DOMAIN s.list /\ s.order[n] \in Servers
  BY <1>1, <1>2 DEF Range
<1>4. \A n \in D : r[n] \in Int
  <2> SUFFICES ASSUME NEW n \in D PROVE r[n] \in Int
    OBVIOUS
  <2>1. Weight(s, s.order[n]) \in Nat
    BY <1>1, <1>3, WeightIs
  <2>2. s.current[s.order[n]] \in Int
    BY <1>1, <1>3 DEF SelectorRecord
  <2> QED
    BY <2>1, <2>2
<1>5. IsFiniteSet(D) /\ D # {}
  <2>1. PICK n \in Nat : n = Len(s.order) /\ n # 0
    BY <1>1
  <2>2. IsFiniteSet(1 .. n)
    BY FS_Interval
  <2>3. 1 \in 1 .. n
    BY <2>1
  <2> QED
    BY <2>1, <2>2, <2>3
<1> HIDE DEF r
<1>6. Top # {}
  BY <1>4, <1>5, GreatestValue
<1>7. Top \in SUBSET Nat
  BY <1>1
<1> HIDE DEF Top
<1>8. PICK b \in Top : \A m \in Top : b <= m
  BY <1>6, <1>7, LeastElement
<1>9. b \in D /\ \A m \in D : r[m] <= r[b]
  BY <1>8 DEF Top
<1>10. \A m \in D : r[m] = r[b] => b <= m
  <2> SUFFICES ASSUME NEW m \in D, r[m] = r[b] PROVE b <= m
    OBVIOUS
  <2>1. m \in Top
    BY <1>9 DEF Top
  <2> QED
    BY <1>8, <2>1
<1>11. \A n \in D : r[n] = raised(n)
  BY DEF r
<1>12. \E n \in DOMAIN s.order :
         \A m \in DOMAIN s.order : /\ raised(m) <= raised(n)
                                   /\ raised(m) = raised(n) => n <= m
  <2> HIDE DEF raised
  <2>1. ASSUME NEW m \in D
        PROVE  /\ raised(m) <= raised(b)
               /\ raised(m) = raised(b) => b <= m
    <3>1. raised(m) = r[m] /\ raised(b) = r[b]
      BY <1>9, <1>11
    <3> QED
      BY <1>9, <1>10, <3>1
  <2> QED
    BY <1>1, <1>9, <2>1
<1>13. /\ Best(s) \in DOMAIN s.order
       /\ \A m \in DOMAIN s.order : raised(m) <= raised(Best(s))
  BY <1>12 DEF Best
<1> QED
  BY <1>1, <1>13

\* One more selection of k is counted.
LEMMA OneMore ==
  ASSUME NEW p \in [Servers -> Nat], NEW k \in Servers
  PROVE  /\ [p EXCEPT ![k] = @ + 1] \in [Servers -> Nat]
         /\ SumFunctionOnSet([p EXCEPT ![k] = @ + 1], Servers)
              = SumFunctionOnSet(p, Servers) + 1
         /\ SumFunctionOnSet(p, Servers) \in Nat
<1> DEFINE q == [p EXCEPT ![k] = @ + 1]
<1>1. q \in [Servers -> Nat] /\ q[k] = p[k] + 1 /\ \A x \in Servers : x # k => q[x] = p[x]
  OBVIOUS
<1>2. SumFunctionOnSet(p, Servers) \in Nat
  BY ListsAssumption, SumOfCounts
<1>3. \A x \in Servers : p[x] \in Int /\ q[x] \in Int
  BY <1>1
<1> HIDE DEF q
<1>4. SumFunctionOnSet(q, Servers) = SumFunctionOnSet(p, Servers) + (q[k] - p[k])
  BY <1>1, <1>3, ListsAssumption, SumOfChange
<1>5. q[k] - p[k] = 1
  BY <1>1
<1> QED
  BY <1>1, <1>2, <1>4, <1>5 DEF q

\* On L, the values c that sum to nothing grow by w, and the one that is then greatest, that
\* of k, pays the sum T back: d.
PaidBack(L, w, c, d, T, k) ==
  /\ IsFiniteSet(L) /\ T \in Nat /\ k \in L
  /\ \A l \in L : w[l] \in Nat /\ c[l] \in Int
  /\ T = SumFunctionOnSet(w, L) /\ SumFunctionOnSet(c, L) = 0
  /\ \A l \in L : c[l] + w[l] <= c[k] + w[k]
  /\ \A l \in L : d[l] = IF l = k THEN c[l] + w[l] - T ELSE c[l] + w[l]
  /\ T > 0 => \A l \in L : c[l] > -T

LEMMA Payback ==
  ASSUME NEW L, NEW w, NEW c, NEW d, NEW T, NEW k, PaidBack(L, w, c, d, T, k)
  PROVE  /\ SumFunctionOnSet(d, L) = 0
         /\ T > 0 => \A l \in L : d[l] > -T
<1> USE DEF PaidBack
<1> DEFINE e == [l \in L |-> c[l] + w[l]]
<1>1. \A l \in L : e[l] = c[l] + w[l] /\ e[l] \in Int /\ e[l] <= e[k]
  OBVIOUS
<1>2. \A l \in L : d[l] = IF l = k THEN e[l] - T ELSE e[l]
  BY <1>1
<1> HIDE DEF e
<1>3. \A l \in L : c[l] \in Int /\ w[l] \in Int /\ e[l] = c[l] + w[l]
  BY <1>1
<1>4. SumFunctionOnSet(e, L) = SumFunctionOnSet(c, L) + SumFunctionOnSet(w, L)
  BY <1>3, SumOfBoth
<1>5. SumFunctionOnSet(e, L) = T
  BY <1>4
<1>6. \A l \in L : e[l] \in Int /\ d[l] \in Int
  BY <1>1, <1>2
<1>7. \A l \in L : l # k => d[l] = e[l]
  BY <1>2
<1>8. SumFunctionOnSet(d, L) = SumFunctionOnSet(e, L) + (d[k] - e[k])
  BY <1>6, <1>7, SumOfChange
<1>9. d[k] = e[k] - T /\ e[k] \in Int
  BY <1>1, <1>2
<1>10. SumFunctionOnSet(d, L) = 0
  BY <1>5, <1>8, <1>9
<1>11. ASSUME T > 0, NEW l \in L
       PROVE  d[l] > -T
  <2>1. PICK x \in L : e[x] > 0
    BY <1>5, <1>6, <1>11, SumPositive
  <2>2. e[k] > 0
    BY <1>1, <2>1
  <2>3. d[k] > -T
    BY <1>9, <2>2
  <2>4. ASSUME l # k PROVE d[l] > -T
    <3>1. d[l] = c[l] + w[l] /\ c[l] \in Int /\ w[l] \in Nat /\ c[l] > -T
      BY <1>1, <1>7, <1>11, <2>4
    <3> QED
      BY <3>1
  <2> QED
    BY <2>3, <2>4
<1> QED
  BY <1>10, <1>11

\* The new weights f of a weighted selector when the greatest, k, has been chosen.
PaysAll(s, k, f) ==
  \A l \in DOMAIN s.list :
    /\ s.current[l] + Weight(s, l) <= s.current[k] + Weight(s, k)
    /\ f[l] = IF l = k THEN s.current[l] + Weight(s, l) - Total(s)
              ELSE s.current[l] + Weight(s, l)

LEMMA WeightedIs ==
  ASSUME NEW s, Sound(s), s.mode \in {"weighted", "icmp"}, s.order # <<>>
  PROVE  \E k \in DOMAIN s.list, f \in [Servers -> Int] :
           /\ Weighted(s) = [server |-> k, next |-> [s EXCEPT !.current = f]]
           /\ PaysAll(s, k, f)
<1> DEFINE L == DOMAIN s.list
           k == s.order[Best(s)]
           f == [l \in Servers |->
                   IF l \in L
                   THEN s.current[l] + Weight(s, l) - (IF l = k THEN Total(s) ELSE 0)
                   ELSE 0]
<1>1. s \in SelectorRecord /\ s.order \in Seq(Servers)
  BY DEF Sound, SelectorRecord
<1>2. L \subseteq Servers
  BY <1>1, ListIs DEF SelectorRecord
<1>3. Range(s.order) = L
  BY DEF Sound, Listed
<1>4. k \in L
  <2>1. Best(s) \in DOMAIN s.order
    BY <1>1, BestIs
  <2> QED
    BY <1>3, <2>1 DEF Range
<1>5. \A l \in L : s.current[l] + Weight(s, l) <= s.current[k] + Weight(s, k)
  <2>1. \A n \in DOMAIN s.order :
          s.current[s.order[n]] + Weight(s, s.order[n]) <= s.current[k] + Weight(s, k)
    BY <1>1, BestIs
  <2>2. \A l \in L : \E n \in DOMAIN s.order : l = s.order[n]
    BY <1>3 DEF Range
  <2> QED
    BY <2>1, <2>2
<1>6. \A l \in L : Weight(s, l) \in Nat /\ s.current[l] \in Int
  BY <1>1, <1>2, WeightIs DEF SelectorRecord
<1>7. Total(s) \in Nat
  BY <1>1, TotalIs
<1>8. Weighted(s) = [server |-> k, next |-> [s EXCEPT !.current = f]]
  BY <1>1, Zenon DEF Weighted, Pays
<1> HIDE DEF k
<1>9. f \in [Servers -> Int]
  BY <1>6, <1>7
<1>10. \A l \in L : f[l] = IF l = k THEN s.current[l] + Weight(s, l) - Total(s)
                           ELSE s.current[l] + Weight(s, l)
  BY <1>2, <1>6, <1>7
<1> HIDE DEF f
<1>11. PaysAll(s, k, f)
  BY <1>5, <1>10 DEF PaysAll
<1> QED
  BY <1>4, <1>8, <1>9, <1>11

\* nextWeighted keeps the balance: it adds the weights, and the server whose weight is then
\* greatest pays all of them back.
LEMMA WeightedBalanced ==
  ASSUME NEW s, Sound(s), NEW p \in [Servers -> Nat], Balanced(s, p),
         NEW k \in DOMAIN s.list, NEW f \in [Servers -> Int], PaysAll(s, k, f)
  PROVE  Balanced([s EXCEPT !.current = f], [p EXCEPT ![k] = @ + 1])
<1> USE DEF PaysAll
<1> DEFINE L == DOMAIN s.list
           w == [l \in L |-> Weight(s, l)]
<1>1. s \in SelectorRecord
  BY DEF Sound
<1>2. L \subseteq Servers /\ IsFiniteSet(L)
  BY <1>1, ListIs, ListFinite DEF SelectorRecord
<1>3. PICK T \in Nat : T = Total(s) /\ T = SumFunctionOnSet(w, L)
  BY <1>1, TotalIs
<1>4. PICK N \in Nat : N = SumFunctionOnSet(p, Servers)
  BY <1>2, OneMore
<1>5. PICK q \in [Servers -> Nat] :
        /\ q = [p EXCEPT ![k] = @ + 1]
        /\ SumFunctionOnSet(q, Servers) = N + 1
  BY <1>2, <1>4, OneMore
<1>6. PICK u : u = [s EXCEPT !.current = f]
  OBVIOUS
<1>7. u.list = s.list /\ u.mode = s.mode /\ u.current = f
  BY <1>1, <1>6 DEF SelectorRecord
<1>8. \A l : Weight(u, l) = Weight(s, l)
  BY <1>7 DEF Weight
<1>9. Total(u) = T
  BY <1>3, <1>7, <1>8 DEF Total
<1>10. \A l \in L : w[l] = Weight(s, l) /\ w[l] \in Nat /\ s.current[l] \in Int
  BY <1>1, <1>2, WeightIs DEF SelectorRecord
<1>11. /\ SumFunctionOnSet(f, L) = 0
       /\ T > 0 => \A l \in L : f[l] > -T
  <2>1. PICK c : c = s.current
    OBVIOUS
  <2>2. PICK V : V = L
    OBVIOUS
  <2>3. IsFiniteSet(V) /\ k \in V
    BY <1>2, <2>2
  <2>4. \A l \in V : w[l] \in Nat /\ c[l] \in Int
    BY <1>10, <2>1, <2>2
  <2>5. SumFunctionOnSet(c, V) = 0 /\ (T > 0 => \A l \in V : c[l] > -T)
    BY <1>3, <2>1, <2>2 DEF Balanced
  <2>6. T = SumFunctionOnSet(w, V)
    BY <1>3, <2>2
  <2>7. \A l \in V : c[l] + w[l] <= c[k] + w[k]
    BY <1>10, <2>1, <2>2
  <2>8. \A l \in V : f[l] = IF l = k THEN c[l] + w[l] - T ELSE c[l] + w[l]
    BY <1>3, <1>10, <2>1, <2>2
  <2> HIDE DEF w, L
  <2>9. SumFunctionOnSet(f, V) = 0 /\ (T > 0 => \A l \in V : f[l] > -T)
    <3>1. PaidBack(V, w, c, f, T, k)
      BY <2>3, <2>4, <2>5, <2>6, <2>7, <2>8 DEF PaidBack
    <3> QED
      BY <3>1, Payback
  <2> QED
    BY <2>2, <2>9
<1>12. ASSUME NEW l \in L
       PROVE  f[l] = SumFunctionOnSet(q, Servers) * Weight(u, l) - Total(u) * q[l]
  <2>1. PICK a \in Nat : a = Weight(s, l)
    BY <1>10
  <2>2. PICK b \in Nat : b = p[l]
    BY <1>2
  <2>3. s.current[l] = N * a - T * b
    BY <1>3, <1>4, <2>1, <2>2 DEF Balanced
  <2>4. (N + 1) * a = N * a + a /\ T * (b + 1) = T * b + T
    OBVIOUS
  <2>5. N * a \in Int /\ T * b \in Int
    OBVIOUS
  <2>6. CASE l = k
    <3>1. f[l] = (N * a - T * b) + a - T
      BY <1>3, <2>1, <2>3, <2>6
    <3>2. q[l] = b + 1
      BY <1>2, <1>5, <2>2, <2>6
    <3>3. f[l] = (N + 1) * a - T * (b + 1)
      BY <2>4, <2>5, <3>1
    <3> QED
      BY <1>5, <1>8, <1>9, <2>1, <3>2, <3>3
  <2>7. CASE l # k
    <3>1. f[l] = (N * a - T * b) + a
      BY <1>3, <2>1, <2>3, <2>7
    <3>2. q[l] = b
      BY <1>2, <1>5, <2>2, <2>7
    <3>3. f[l] = (N + 1) * a - T * b
      BY <2>4, <2>5, <3>1
    <3> QED
      BY <1>5, <1>8, <1>9, <2>1, <3>2, <3>3
  <2> QED
    BY <2>6, <2>7
<1>13. Balanced(u, q)
  BY <1>7, <1>9, <1>11, <1>12 DEF Balanced
<1> QED
  BY <1>5, <1>6, <1>13

\* The remainder of a number that is at most n, and the rounds of a number without one.
LEMMA Remainder ==
  ASSUME NEW n \in Nat \ {0}, NEW j \in Nat
  PROVE  /\ j % n \in 0 .. n - 1
         /\ j \in 1 .. n => j % n = IF j = n THEN 0 ELSE j
<1>1. j % n \in 0 .. n - 1
  OBVIOUS
<1>2. CASE j < n
  BY <1>2
<1>3. CASE j = n
  BY <1>3
<1> QED
  BY <1>1, <1>2, <1>3

LEMMA Whole ==
  ASSUME NEW n \in Nat, NEW t \in Nat \ {0}, n % t = 0
  PROVE  \E m \in Nat : n = t * m
<1>1. n \div t \in Int
  OBVIOUS
<1>2. n = t * (n \div t) + (n % t)
  BY Z3
<1>3. PICK m \in Int : m = n \div t
  BY <1>1
<1>4. n = t * m
  BY <1>2, <1>3
<1>5. m \in Nat
  BY <1>4
<1> QED
  BY <1>4, <1>5

\* Round robin at j of L places goes on to i + 1: a round that began at a is over, and the
\* next begins, or it has come one place further.
NewRound(a, i, j, L) ==
  /\ \A n \in 1 .. L : Passed(a, j, n)
  /\ \A n \in 1 .. L : Passed(a, i + 1, n) <=> n = i + 1
Further(a, i, j, L) ==
  /\ \A n \in 1 .. L : Passed(a, i + 1, n) <=> Passed(a, j, n) \/ n = i + 1
  /\ ~Passed(a, j, i + 1)

LEMMA PassedOn ==
  ASSUME NEW L \in Nat \ {0}, NEW j \in 1 .. L, NEW a \in 0 .. L - 1, NEW i \in 0 .. L - 1,
         i = IF j = L THEN 0 ELSE j
  PROVE  /\ a = i => NewRound(a, i, j, L)
         /\ a # i => Further(a, i, j, L)
<1>1. ASSUME a = i PROVE NewRound(a, i, j, L)
  BY <1>1 DEF Passed, NewRound
<1>2. ASSUME a # i PROVE Further(a, i, j, L)
  BY <1>2 DEF Passed, Further
<1> QED
  BY <1>1, <1>2

LEMMA RoundRobinInTurn ==
  ASSUME NEW s, Sound(s), s.mode = "roundrobin", s.order # <<>>,
         NEW p \in [Servers -> Nat], InTurn(s, p),
         NEW i, i = s.i % Len(s.order)
  PROVE  /\ i \in 0 .. Len(s.order) - 1
         /\ InTurn([s EXCEPT !.i = i + 1], [p EXCEPT ![s.order[i + 1]] = @ + 1])
<1>1. s \in SelectorRecord /\ s.order \in Seq(Servers) /\ s.i \in Nat
  BY DEF Sound, SelectorRecord
<1>2. PICK L \in Nat \ {0} : L = Len(s.order)
  BY <1>1
<1>3. i \in 0 .. L - 1 /\ (s.i \in 1 .. L => i = IF s.i = L THEN 0 ELSE s.i)
  BY <1>1, <1>2, Remainder
<1>4. PICK u : u = [s EXCEPT !.i = i + 1]
  OBVIOUS
<1>5. u.order = s.order /\ u.i = i + 1
  BY <1>1, <1>4 DEF SelectorRecord
<1>6. PICK o : o = s.order
  OBVIOUS
<1>7. \A m, n \in 1 .. L : o[m] \in Servers /\ (o[m] = o[n] => m = n)
  BY <1>1, <1>2, <1>6 DEF Sound, IsInjective
<1>8. PICK r : r = [p EXCEPT ![o[i + 1]] = @ + 1]
  OBVIOUS
<1>9. i + 1 \in 1 .. L
  BY <1>3
<1>10. \A n \in 1 .. L : r[o[n]] = IF n = i + 1 THEN p[o[n]] + 1 ELSE p[o[n]]
  BY <1>7, <1>8, <1>9
<1>11. SUFFICES \E q \in Nat, a \in 0 .. L - 1 : Rounds(u, r, q, a)
  <2>1. InTurn(u, r)
    BY <1>2, <1>5, <1>11 DEF InTurn
  <2> QED
    BY <1>2, <1>3, <1>4, <1>6, <1>8, <2>1
<1>12. CASE \A k \in Servers : p[k] = 0
  <2>1. \A n \in 1 .. L : Passed(i, i + 1, n) <=> n = i + 1
    BY <1>3 DEF Passed
  <2>2. \A n \in 1 .. L : r[o[n]] = IF Passed(i, i + 1, n) THEN 1 ELSE 0
    BY <1>7, <1>10, <1>12, <2>1
  <2>3. Rounds(u, r, 0, i)
    BY <1>2, <1>5, <1>6, <1>9, <2>2 DEF Rounds
  <2> QED
    BY <1>3, <2>3
<1>13. i \in 0 .. L - 1
  BY <1>3
<1>14. CASE \E q \in Nat, a \in 0 .. L - 1 : Rounds(s, p, q, a)
  <2>1. PICK q \in Nat, a \in 0 .. L - 1 : Rounds(s, p, q, a)
    BY <1>14
  <2>2. PICK j \in 1 .. L : j = s.i
    BY <1>2, <2>1 DEF Rounds
  <2>3. i = IF j = L THEN 0 ELSE j
    BY <1>3, <2>2
  <2>4. \A n \in 1 .. L : p[o[n]] = IF Passed(a, j, n) THEN q + 1 ELSE q
    BY <1>2, <1>6, <2>1, <2>2 DEF Rounds
  <2>5. CASE a = i
    <3>1. NewRound(a, i, j, L)
      BY <1>13, <2>3, <2>5, PassedOn
    <3>2. /\ \A n \in 1 .. L : Passed(a, j, n)
          /\ \A n \in 1 .. L : Passed(a, i + 1, n) <=> n = i + 1
      BY <3>1 DEF NewRound
    <3>3. \A n \in 1 .. L : r[o[n]] = IF Passed(a, i + 1, n) THEN (q + 1) + 1 ELSE q + 1
      BY <1>10, <2>4, <3>2
    <3>4. Rounds(u, r, q + 1, a) /\ q + 1 \in Nat
      BY <1>2, <1>5, <1>6, <1>9, <3>3 DEF Rounds
    <3> QED
      BY <3>4, Zenon
  <2>6. CASE a # i
    <3>1. Further(a, i, j, L)
      BY <1>13, <2>3, <2>6, PassedOn
    <3>2. /\ \A n \in 1 .. L : Passed(a, i + 1, n) <=> Passed(a, j, n) \/ n = i + 1
          /\ ~Passed(a, j, i + 1)
      BY <3>1 DEF Further
    <3>3. \A n \in 1 .. L : r[o[n]] = IF Passed(a, i + 1, n) THEN q + 1 ELSE q
      BY <1>10, <2>4, <3>2
    <3>4. Rounds(u, r, q, a)
      BY <1>2, <1>5, <1>6, <1>9, <3>3 DEF Rounds
    <3> QED
      BY <3>4
  <2> QED
    BY <2>5, <2>6
<1> QED
  BY <1>2, <1>12, <1>14 DEF InTurn

\* A selection changes the weights or the index, and neither is what makes a selector sound.
LEMMA CurrentSound ==
  ASSUME NEW s, Sound(s), s.mode # "none", NEW f \in [Servers -> Int]
  PROVE  /\ Sound([s EXCEPT !.current = f])
         /\ [s EXCEPT !.current = f].mode = s.mode /\ [s EXCEPT !.current = f].list = s.list
<1>1. PICK u : u = [s EXCEPT !.current = f]
  OBVIOUS
<1>2. s \in SelectorRecord
  BY DEF Sound
<1>3. /\ u \in SelectorRecord /\ u.mode = s.mode /\ u.list = s.list /\ u.order = s.order
      /\ u.hash = s.hash
  BY <1>1, <1>2 DEF SelectorRecord
<1>4. Sound(u)
  BY <1>3 DEF Sound
<1> QED
  BY <1>1, <1>3, <1>4

LEMMA IndexSound ==
  ASSUME NEW s, Sound(s), s.mode # "none", NEW i \in Nat
  PROVE  /\ Sound([s EXCEPT !.i = i])
         /\ [s EXCEPT !.i = i].mode = s.mode /\ [s EXCEPT !.i = i].list = s.list
<1>1. PICK u : u = [s EXCEPT !.i = i]
  OBVIOUS
<1>2. s \in SelectorRecord
  BY DEF Sound
<1>3. /\ u \in SelectorRecord /\ u.mode = s.mode /\ u.list = s.list /\ u.order = s.order
      /\ u.hash = s.hash
  BY <1>1, <1>2 DEF SelectorRecord
<1>4. Sound(u)
  BY <1>3 DEF Sound
<1> QED
  BY <1>1, <1>3, <1>4

\* What a selector may choose: servers of its list, and all of them but those it leaves out.
LEMMA CandidatesAre ==
  ASSUME NEW s, Sound(s)
  PROVE  /\ Candidates(s) \subseteq DOMAIN s.list /\ DOMAIN s.list \subseteq Servers
         /\ \A k \in DOMAIN s.list \ Candidates(s) :
              CASE s.mode = "closest" -> s.list[k].distance < 0
                [] s.mode = "hash" -> s.list[k].empty
                [] OTHER -> FALSE
         /\ Candidates(s) # {} => s.mode # "none"
         /\ Candidates(s) # {} /\ s.mode # "hash" => s.order # <<>>
<1>1. s \in SelectorRecord
  BY DEF Sound
<1>2. DOMAIN s.list \subseteq Servers /\ s.list \in [DOMAIN s.list -> Metadata]
  BY <1>1, ListIs DEF SelectorRecord
<1>3. Range(<<>>) = {}
  BY DEF Range
<1>4. CASE s.mode = "hash"
  BY <1>2, <1>4 DEF Sound, Candidates
<1>5. CASE s.mode = "closest"
  <2>1. Candidates(s) = {k \in DOMAIN s.list : s.list[k].distance >= 0}
    BY <1>5 DEF Sound, Candidates, Listed
  <2>2. \A k \in DOMAIN s.list : s.list[k].distance \in Int
    BY <1>2 DEF Metadata
  <2>3. \A k \in DOMAIN s.list \ Candidates(s) : s.list[k].distance < 0
    BY <2>1, <2>2
  <2>4. Candidates(s) # {} => s.order # <<>>
    BY <1>3, <1>5 DEF Candidates
  <2> QED
    BY <1>2, <1>5, <2>1, <2>3, <2>4
<1>6. CASE s.mode \notin {"hash", "closest"}
  <2>1. Candidates(s) = DOMAIN s.list
    BY <1>6 DEF Sound, Candidates, Listed
  <2>2. Candidates(s) # {} => s.order # <<>>
    BY <1>3, <1>6 DEF Candidates
  <2>3. s.mode = "none" => Candidates(s) = {}
    <3>1. s.mode = "none" => s.list = EmptyList
      BY DEF Sound, NoSelector
    <3> QED
      BY <2>1, <3>1, EmptyListIs
  <2> QED
    BY <1>2, <2>1, <2>2, <2>3
<1> QED
  BY <1>4, <1>5, <1>6

\* Each selection is of one of the servers, and leaves a selector that is as sound and fair.
LEMMA SelectionsSound ==
  ASSUME NEW s, Sound(s), NEW p \in [Servers -> Nat], InTurn(s, p), ByWeight(s, p),
         NEW x \in Selections(s)
  PROVE  /\ x.server \in Servers /\ s.mode # "none"
         /\ Sound(x.next) /\ x.next.mode = s.mode /\ x.next.list = s.list
         /\ InTurn(x.next, [p EXCEPT ![x.server] = @ + 1])
         /\ ByWeight(x.next, [p EXCEPT ![x.server] = @ + 1])
<1>1. s \in SelectorRecord /\ s.order \in Seq(Servers)
  BY DEF Sound, SelectorRecord
<1>2. Candidates(s) # {}
  BY DEF Selections
<1>3. s.mode # "none" /\ (s.mode # "hash" => s.order # <<>>)
  BY <1>2, CandidatesAre
<1>4. CASE s.mode \in {"weighted", "icmp"}
  <2>1. x = Weighted(s)
    BY <1>2, <1>4 DEF Selections
  <2>2. PICK k \in DOMAIN s.list, f \in [Servers -> Int] :
          /\ Weighted(s) = [server |-> k, next |-> [s EXCEPT !.current = f]]
          /\ PaysAll(s, k, f)
    BY <1>3, <1>4, WeightedIs
  <2>3. x.server = k /\ x.next = [s EXCEPT !.current = f]
    BY <2>1, <2>2
  <2>4. Balanced(s, p)
    BY <1>4 DEF ByWeight
  <2>5. Balanced(x.next, [p EXCEPT ![x.server] = @ + 1])
    <3>1. Balanced([s EXCEPT !.current = f], [p EXCEPT ![k] = @ + 1])
      BY <2>2, <2>4, WeightedBalanced
    <3> QED
      BY <2>3, <3>1
  <2>6. Sound(x.next) /\ x.next.mode = s.mode /\ x.next.list = s.list
    BY <1>3, <2>3, CurrentSound
  <2>7. x.server \in Servers
    BY <2>2, <2>3, CandidatesAre
  <2> QED
    BY <1>3, <1>4, <2>5, <2>6, <2>7 DEF ByWeight, InTurn
<1>5. CASE s.mode = "roundrobin"
  <2>1. PICK i : i = s.i % Len(s.order)
    OBVIOUS
  <2>2. x = [server |-> s.order[i + 1], next |-> [s EXCEPT !.i = i + 1]]
    BY <1>2, <1>5, <2>1 DEF Selections
  <2>3. x.server = s.order[i + 1] /\ x.next = [s EXCEPT !.i = i + 1]
    BY <2>2
  <2>4. /\ i \in 0 .. Len(s.order) - 1
        /\ InTurn([s EXCEPT !.i = i + 1], [p EXCEPT ![s.order[i + 1]] = @ + 1])
    BY <1>3, <1>5, <2>1, RoundRobinInTurn
  <2>5. i + 1 \in 1 .. Len(s.order) /\ i + 1 \in Nat
    <3>1. PICK L \in Nat : L = Len(s.order)
      BY <1>1
    <3>2. i \in 0 .. L - 1
      BY <2>4, <3>1
    <3> QED
      BY <3>1, <3>2
  <2>6. x.server \in Servers
    BY <1>1, <2>3, <2>5
  <2>7. Sound(x.next) /\ x.next.mode = s.mode /\ x.next.list = s.list
    BY <1>3, <2>3, <2>5, IndexSound
  <2> QED
    BY <1>3, <1>5, <2>3, <2>4, <2>6, <2>7 DEF ByWeight
<1>6. CASE s.mode \notin {"weighted", "icmp", "roundrobin"}
  <2>1. \E k \in Candidates(s) : x = [server |-> k, next |-> s]
    <3>1. CASE s.mode = "closest"
      BY <1>2, <3>1 DEF Selections, Nearest
    <3>2. CASE s.mode # "closest"
      BY <1>2, <1>6, <3>2 DEF Selections
    <3> QED
      BY <3>1, <3>2
  <2>2. x.server \in Servers /\ x.next = s
    BY <2>1, CandidatesAre
  <2> QED
    BY <1>3, <1>6, <2>2 DEF InTurn, ByWeight
<1> QED
  BY <1>4, <1>5, <1>6

-----------------------------------------------------------------------------
(* Queues *)

LEMMA RemoveAtIs ==
  ASSUME NEW S, NEW q \in Seq(S), NEW n \in DOMAIN q
  PROVE  /\ q[n] \in S
         /\ RemoveAt(q, n) \in Seq(S) /\ Len(RemoveAt(q, n)) = Len(q) - 1
<1>1. PICK L \in Nat : L = Len(q)
  OBVIOUS
<1>2. DOMAIN q = 1 .. L /\ q[n] \in S
  BY <1>1
<1>3. n \in 1 .. L
  BY <1>2
<1>4. SubSeq(q, 1, n - 1) \in Seq(S) /\ Len(SubSeq(q, 1, n - 1)) = n - 1
  BY <1>1, <1>3
<1>5. SubSeq(q, n + 1, L) \in Seq(S) /\ Len(SubSeq(q, n + 1, L)) = L - n
  BY <1>1, <1>3
<1>6. PICK f \in Seq(S), g \in Seq(S) : f = SubSeq(q, 1, n - 1) /\ g = SubSeq(q, n + 1, L)
  BY <1>4, <1>5
<1>7. f \o g \in Seq(S) /\ Len(f \o g) = Len(f) + Len(g)
  OBVIOUS
<1>8. Len(f) + Len(g) = L - 1
  <2>1. Len(f) = n - 1 /\ Len(g) = L - n
    BY <1>4, <1>5, <1>6
  <2>2. n \in Int
    BY <1>3
  <2>3. (n - 1) + (L - n) = L - 1
    BY <2>2
  <2> QED
    BY <2>1, <2>3
<1>9. RemoveAt(q, n) = f \o g
  BY <1>1, <1>6 DEF RemoveAt
<1> QED
  BY <1>1, <1>2, <1>7, <1>8, <1>9

LEMMA AppendIs ==
  ASSUME NEW S, NEW q \in Seq(S), NEW e \in S
  PROVE  Append(q, e) \in Seq(S) /\ Len(Append(q, e)) = Len(q) + 1
  OBVIOUS

LEMMA TailIs ==
  ASSUME NEW S, NEW q \in Seq(S), q # <<>>
  PROVE  Head(q) \in S /\ Tail(q) \in Seq(S) /\ Len(Tail(q)) = Len(q) - 1
  OBVIOUS

-----------------------------------------------------------------------------
(* Steps that leave a part of the invariant alone, or change one xClient *)

LEMMA OptionIs ==
  ASSUME NEW o \in OptionSet
  PROVE  /\ o.of \in [XClients -> Discoveries] /\ o.answer \in [Discoveries -> Lists]
         /\ o.kind \in [Discoveries -> {"ace", "static", "other"}]
         /\ o.changing \in [Discoveries -> SUBSET Lists]
         /\ o.mode \in [XClients -> Modes] /\ o.group \in Groups
         /\ o.centre \in XClients \cup {NoOne}
  BY DirectoryAssumption

LEMMA CentreFrame ==
  ASSUME CentreTyped, UNCHANGED <<option, centreVars>>
  PROVE  CentreTyped'
  BY DEF CentreTyped, centreVars

LEMMA WireFrame ==
  ASSUME WireTyped, UNCHANGED <<disc, wireVars>>
  PROVE  WireTyped'
  BY DEF WireTyped, wireVars

LEMMA ClientsFrame ==
  ASSUME ClientsTyped, ClientsOK, UNCHANGED <<xc, servers, selVars>>
  PROVE  ClientsTyped' /\ ClientsOK'
<1>1. /\ xc' = xc /\ servers' = servers /\ sel' = sel /\ pending' = pending
      /\ overtaken' = overtaken /\ picks' = picks
  BY DEF selVars
<1>2. ClientsTyped'
  BY <1>1 DEF ClientsTyped
<1>3. ClientsOK'
  BY <1>1 DEF ClientsOK
<1> QED
  BY <1>2, <1>3

\* The step by which x comes to c, l, s, t and p, and overtaken to O.
ClientMoves(x, c, l, s, t, p, O) ==
  /\ c \in {"none", "listed", "watching", "unwatched", "ended"} /\ l \in Lst
  /\ xc' = [xc EXCEPT ![x] = c] /\ servers' = [servers EXCEPT ![x] = l]
  /\ sel' = [sel EXCEPT ![x] = s] /\ pending' = [pending EXCEPT ![x] = t]
  /\ picks' = [picks EXCEPT ![x] = p]
  /\ overtaken' = O /\ O \in SUBSET XClients
  /\ \A y \in XClients : y # x => (y \in O <=> y \in overtaken)
  /\ ClientOK(c, l, s, t, p, x \in O)

LEMMA ClientStep ==
  ASSUME ClientsTyped, ClientsOK, NEW x \in XClients,
         NEW c, NEW l, NEW s, NEW t, NEW p, NEW O, ClientMoves(x, c, l, s, t, p, O)
  PROVE  ClientsTyped' /\ ClientsOK'
<1> USE DEF ClientMoves
<1>1. s \in SelectorRecord /\ t \in SelectorRecord /\ p \in [Servers -> Nat]
  BY DEF ClientOK, Sound
<1>2. ClientsTyped'
  BY <1>1 DEF ClientsTyped
<1>3. ASSUME NEW y \in XClients
      PROVE  ClientOK(xc'[y], servers'[y], sel'[y], pending'[y], picks'[y], y \in overtaken')
  <2>1. CASE y = x
    <3>1. /\ xc'[y] = c /\ servers'[y] = l /\ sel'[y] = s /\ pending'[y] = t /\ picks'[y] = p
          /\ overtaken' = O
      BY <2>1 DEF ClientsTyped
    <3> QED
      BY <2>1, <3>1
  <2>2. CASE y # x
    <3>1. /\ xc'[y] = xc[y] /\ servers'[y] = servers[y] /\ sel'[y] = sel[y]
          /\ pending'[y] = pending[y] /\ picks'[y] = picks[y]
      BY <2>2 DEF ClientsTyped
    <3>2. y \in overtaken' <=> y \in overtaken
      BY <2>2
    <3>3. ClientOK(xc[y], servers[y], sel[y], pending[y], picks[y], y \in overtaken)
      BY DEF ClientsOK
    <3> QED
      BY <3>1, <3>2, <3>3 DEF ClientOK
  <2> QED
    BY <2>1, <2>2
<1> QED
  BY <1>2, <1>3 DEF ClientsOK

\* A variable that does not change is one whose value at x does not.
LEMMA Same ==
  ASSUME NEW S, NEW T, NEW f \in [S -> T], NEW x \in S
  PROVE  f = [f EXCEPT ![x] = f[x]]
  OBVIOUS

LEMMA ClientIs ==
  ASSUME DirInv, NEW x \in XClients
  PROVE  /\ xc[x] \in {"none", "listed", "watching", "unwatched", "ended"}
         /\ servers[x] \in Lst /\ picks[x] \in [Servers -> Nat]
         /\ xc = [xc EXCEPT ![x] = xc[x]] /\ servers = [servers EXCEPT ![x] = servers[x]]
         /\ sel = [sel EXCEPT ![x] = sel[x]] /\ pending = [pending EXCEPT ![x] = pending[x]]
         /\ picks = [picks EXCEPT ![x] = picks[x]]
         /\ overtaken \in SUBSET XClients
         /\ ClientOK(xc[x], servers[x], sel[x], pending[x], picks[x], x \in overtaken)
<1>1. ClientsTyped /\ ClientsOK
  BY DEF DirInv
<1>2. /\ xc \in [XClients -> {"none", "listed", "watching", "unwatched", "ended"}]
      /\ servers \in [XClients -> Lst]
      /\ sel \in [XClients -> SelectorRecord] /\ pending \in [XClients -> SelectorRecord]
      /\ overtaken \subseteq XClients
      /\ picks \in [XClients -> [Servers -> Nat]]
  BY <1>1 DEF ClientsTyped
<1>3. ClientOK(xc[x], servers[x], sel[x], pending[x], picks[x], x \in overtaken)
  BY <1>1 DEF ClientsOK
<1> QED
  BY <1>2, <1>3, Same

-----------------------------------------------------------------------------
(* The invariant holds at first and is kept by every step *)

LEMMA NoSelectorOK ==
  ASSUME NEW c, NEW l, NEW o
  PROVE  ClientOK(c, l, NoSelector, NoSelector, Unpicked, o)
<1>1. Sound(NoSelector) /\ NoSelector.mode = "none"
  BY NoSelectorSound
<1>2. InTurn(NoSelector, Unpicked) /\ ByWeight(NoSelector, Unpicked)
  BY <1>1 DEF InTurn, ByWeight
<1>3. Tracks(NoSelector, l)
  BY <1>1 DEF Tracks
<1>4. SumFunctionOnSet(Unpicked, Servers) <= MaxPicks
  BY UnpickedIs, BoundsAssumption
<1> QED
  BY <1>1, <1>2, <1>3, <1>4, UnpickedIs DEF ClientOK

LEMMA DirInitInv ==
  ASSUME DirInit
  PROVE  DirInv
<1> USE DEF DirInit
<1>1. CentreTyped
  BY OptionIs, BoundsAssumption DEF CentreTyped
<1>2. EmptyList \in Lst
  BY EmptyListIs
<1>3. disc \in [Discoveries -> DiscoveryRecord]
  <2> SUFFICES ASSUME NEW d \in Discoveries
               PROVE  [pc |-> "none", found |-> EmptyList,
                       pairs |-> IF option.kind[d] = "static" THEN option.answer[d]
                                 ELSE EmptyList] \in DiscoveryRecord
    OBVIOUS
  <2>1. option.answer[d] \in Lst
    BY OptionIs, ListsAreLists
  <2> QED
    BY <1>2, <2>1 DEF DiscoveryRecord
<1>4. WireTyped
  BY <1>3, BoundsAssumption DEF WireTyped
<1>5. NoSelector \in SelectorRecord /\ Unpicked \in [Servers -> Nat]
  BY NoSelectorSound, UnpickedIs DEF Sound
<1>6. ClientsTyped
  BY <1>2, <1>5 DEF ClientsTyped
<1>7. ClientsOK
  BY NoSelectorOK DEF ClientsOK
<1> QED
  BY <1>1, <1>4, <1>6, <1>7 DEF DirInv

LEMMA ChangeInv ==
  ASSUME DirInv, NEW d \in Discoveries, Change(d)
  PROVE  DirInv'
<1>1. CentreTyped'
  <2>1. PICK l \in option.changing[d] : answer' = [answer EXCEPT ![d] = l]
    BY DEF Change
  <2>2. l \in Lists
    BY <2>1, OptionIs DEF DirInv, CentreTyped
  <2>3. changes' \in 0 .. MaxChanges
    BY BoundsAssumption DEF Change, DirInv, CentreTyped
  <2> QED
    BY <2>1, <2>2, <2>3 DEF Change, DirInv, CentreTyped
<1>2. WireTyped'
  BY WireFrame DEF Change, DirInv
<1>3. ClientsTyped' /\ ClientsOK'
  BY ClientsFrame DEF Change, DirInv
<1> QED
  BY <1>1, <1>2, <1>3 DEF DirInv

\* What a lookup finds is a list.
LEMMA FoundIs ==
  ASSUME CentreTyped, NEW d \in Discoveries
  PROVE  Found(d) \in Lst
<1>1. answer[d] \in Lst
  BY ListsAreLists DEF CentreTyped
<1>2. Active(answer[d]) \in Lst /\ EmptyList \in Lst
  BY <1>1, ActiveIs, EmptyListIs
<1>3. CASE option.kind[d] # "ace"
  BY <1>1, <1>3 DEF Found
<1>4. CASE option.kind[d] = "ace" /\ centre = "none"
  BY <1>2, <1>4 DEF Found
<1>5. CASE option.kind[d] = "ace" /\ centre # "none"
  BY <1>2, <1>5 DEF Found
<1> QED
  BY <1>3, <1>4, <1>5

\* A discovery goes on to c, with the lists f and r.
LEMMA DiscStep ==
  ASSUME DirInv, NEW d \in Discoveries, NEW c \in {"none", "idle", "asked", "stored"},
         NEW f \in Lst, NEW r \in Lst,
         disc' = [disc EXCEPT ![d] = [pc |-> c, found |-> f, pairs |-> r]]
  PROVE  disc' \in [Discoveries -> DiscoveryRecord]
<1>1. [pc |-> c, found |-> f, pairs |-> r] \in DiscoveryRecord
  BY DEF DiscoveryRecord
<1> QED
  BY <1>1 DEF DirInv, WireTyped

LEMMA DiscIs ==
  ASSUME DirInv, NEW d \in Discoveries
  PROVE  /\ disc[d].pc \in {"none", "idle", "asked", "stored"}
         /\ disc[d].found \in Lst /\ disc[d].pairs \in Lst
         /\ disc \in [Discoveries -> DiscoveryRecord] /\ disc[d] \in DiscoveryRecord
  BY DEF DirInv, WireTyped, DiscoveryRecord

LEMMA PcAndFound ==
  ASSUME NEW r \in DiscoveryRecord, NEW c, NEW f
  PROVE  [r EXCEPT !.pc = c, !.found = f] = [pc |-> c, found |-> f, pairs |-> r.pairs]
<1>1. PICK a : a = [r EXCEPT !.pc = c]
  OBVIOUS
<1>2. a = [pc |-> c, found |-> r.found, pairs |-> r.pairs]
  BY <1>1 DEF DiscoveryRecord
<1>3. [a EXCEPT !.found = f] = [pc |-> c, found |-> f, pairs |-> r.pairs]
  BY <1>2
<1> QED
  BY <1>1, <1>3, Zenon

LEMMA PcAndPairs ==
  ASSUME NEW r \in DiscoveryRecord, NEW c, NEW f
  PROVE  [r EXCEPT !.pc = c, !.pairs = f] = [pc |-> c, found |-> r.found, pairs |-> f]
<1>1. PICK a : a = [r EXCEPT !.pc = c]
  OBVIOUS
<1>2. a = [pc |-> c, found |-> r.found, pairs |-> r.pairs]
  BY <1>1 DEF DiscoveryRecord
<1>3. [a EXCEPT !.pairs = f] = [pc |-> c, found |-> r.found, pairs |-> f]
  BY <1>2
<1> QED
  BY <1>1, <1>3, Zenon

LEMMA AskInv ==
  ASSUME DirInv, NEW d \in Discoveries, Ask(d)
  PROVE  DirInv'
<1>1. CentreTyped'
  BY CentreFrame DEF Ask, DirInv
<1>2. WireTyped'
  <2>1. Found(d) \in Lst
    BY FoundIs DEF DirInv
  <2>2. disc' = [disc EXCEPT ![d] = [disc[d] EXCEPT !.pc = "asked", !.found = Found(d)]]
    BY Zenon DEF Ask
  <2>3. [disc[d] EXCEPT !.pc = "asked", !.found = Found(d)]
          = [pc |-> "asked", found |-> Found(d), pairs |-> disc[d].pairs]
    BY DiscIs, PcAndFound, Zenon
  <2>4. disc' = [disc EXCEPT ![d] = [pc |-> "asked", found |-> Found(d),
                                     pairs |-> disc[d].pairs]]
    BY <2>2, <2>3
  <2>5. disc' \in [Discoveries -> DiscoveryRecord]
    BY <2>1, <2>4, DiscIs, DiscStep
  <2> QED
    BY <2>5 DEF Ask, DirInv, WireTyped, wireVars
<1>3. ClientsTyped' /\ ClientsOK'
  BY ClientsFrame DEF Ask, DirInv
<1> QED
  BY <1>1, <1>2, <1>3 DEF DirInv

LEMMA AskFailInv ==
  ASSUME DirInv, NEW d \in Discoveries, AskFail(d)
  PROVE  DirInv'
<1>1. CentreTyped'
  <2>1. faults' \in 0 .. MaxFaults
    BY BoundsAssumption DEF AskFail, DirInv, CentreTyped
  <2> QED
    BY <2>1 DEF AskFail, DirInv, CentreTyped
<1>2. WireTyped'
  <2>1. disc' = [disc EXCEPT ![d] = [disc[d] EXCEPT !.pc = "idle"]]
    BY Zenon DEF AskFail
  <2>2. [disc[d] EXCEPT !.pc = "idle"]
          = [pc |-> "idle", found |-> disc[d].found, pairs |-> disc[d].pairs]
    BY DiscIs DEF DiscoveryRecord
  <2>3. disc' = [disc EXCEPT ![d] = [pc |-> "idle", found |-> disc[d].found,
                                     pairs |-> disc[d].pairs]]
    BY <2>1, <2>2
  <2>4. disc' \in [Discoveries -> DiscoveryRecord]
    BY <2>3, DiscIs, DiscStep
  <2> QED
    BY <2>4 DEF AskFail, DirInv, WireTyped, wireVars
<1>3. ClientsTyped' /\ ClientsOK'
  BY ClientsFrame DEF AskFail, DirInv
<1> QED
  BY <1>1, <1>2, <1>3 DEF DirInv

LEMMA StoreInv ==
  ASSUME DirInv, NEW d \in Discoveries, Store(d)
  PROVE  DirInv'
<1>1. CentreTyped'
  BY CentreFrame DEF Store, DirInv
<1>2. WireTyped'
  <2>1. disc' = [disc EXCEPT ![d] = [disc[d] EXCEPT !.pc = "stored",
                                                    !.pairs = disc[d].found]]
    BY Zenon DEF Store
  <2>2. [disc[d] EXCEPT !.pc = "stored", !.pairs = disc[d].found]
          = [pc |-> "stored", found |-> disc[d].found, pairs |-> disc[d].found]
    BY DiscIs, PcAndPairs, Zenon
  <2>3. disc' = [disc EXCEPT ![d] = [pc |-> "stored", found |-> disc[d].found,
                                     pairs |-> disc[d].found]]
    BY <2>1, <2>2
  <2>4. disc' \in [Discoveries -> DiscoveryRecord]
    BY <2>3, DiscIs, DiscStep
  <2> QED
    BY <2>4 DEF Store, DirInv, WireTyped, wireVars
<1>3. ClientsTyped' /\ ClientsOK'
  BY ClientsFrame DEF Store, DirInv
<1> QED
  BY <1>1, <1>2, <1>3 DEF DirInv

LEMMA TellInv ==
  ASSUME DirInv, NEW d \in Discoveries, Tell(d)
  PROVE  DirInv'
<1>1. CentreTyped'
  BY CentreFrame DEF Tell, DirInv
<1>2. WireTyped'
  <2>1. disc' = [disc EXCEPT ![d] = [disc[d] EXCEPT !.pc = "idle"]]
    BY Zenon DEF Tell
  <2>2. [disc[d] EXCEPT !.pc = "idle"]
          = [pc |-> "idle", found |-> disc[d].found, pairs |-> disc[d].pairs]
    BY DiscIs DEF DiscoveryRecord
  <2>3. disc' = [disc EXCEPT ![d] = [pc |-> "idle", found |-> disc[d].found,
                                     pairs |-> disc[d].pairs]]
    BY <2>1, <2>2
  <2>4. disc' \in [Discoveries -> DiscoveryRecord]
    BY <2>3, DiscIs, DiscStep
  <2>5. PICK q : q = disc[d].found
    OBVIOUS
  <2>6. q \in Lst
    BY <2>5, DiscIs
  <2>7. flight' = [x \in XClients |-> IF x \in chans[d] THEN Append(flight[x], q)
                                      ELSE flight[x]]
    BY <2>5 DEF Tell
  <2>8. ASSUME NEW x \in XClients
        PROVE  flight'[x] \in Seq(Lst) /\ Len(flight'[x]) <= MaxFlights
    <3>1. PICK s \in Seq(Lst) : s = flight[x] /\ Len(s) <= MaxFlights
      BY DEF DirInv, WireTyped
    <3>2. PICK n \in Nat : n = Len(s)
      OBVIOUS
    <3>3. x \in chans[d] => n < MaxFlights
      BY <3>1, <3>2 DEF Tell
    <3>4. Append(s, q) \in Seq(Lst) /\ Len(Append(s, q)) = n + 1
      BY <2>6, <3>2, AppendIs
    <3> QED
      BY <2>7, <3>1, <3>2, <3>3, <3>4, BoundsAssumption
  <2>9. flight' \in [XClients -> Seq(Lst)]
    BY <2>7, <2>8
  <2> QED
    BY <2>4, <2>8, <2>9 DEF Tell, DirInv, WireTyped
<1>3. ClientsTyped' /\ ClientsOK'
  BY ClientsFrame DEF Tell, DirInv
<1> QED
  BY <1>1, <1>2, <1>3 DEF DirInv

LEMMA DeliverInv ==
  ASSUME DirInv, NEW x \in XClients, Deliver(x)
  PROVE  DirInv'
<1>1. CentreTyped'
  BY CentreFrame DEF Deliver, DirInv
<1>2. WireTyped'
  <2>1. PICK n \in DOMAIN flight[x] :
          /\ flight' = [flight EXCEPT ![x] = RemoveAt(@, n)]
          /\ \/ closing[x] = "closed" /\ ch' = ch
             \/ closing[x] # "closed" /\ Len(ch[x]) = Capacity /\ ch' = ch
             \/ /\ closing[x] # "closed" /\ Len(ch[x]) < Capacity
                /\ ch' = [ch EXCEPT ![x] = Append(@, flight[x][n])]
    BY DEF Deliver
  <2>2. PICK q \in Seq(Lst) : q = flight[x] /\ Len(q) <= MaxFlights
    BY DEF DirInv, WireTyped
  <2>3. PICK e : e = q[n]
    OBVIOUS
  <2>4. PICK r : r = RemoveAt(q, n)
    OBVIOUS
  <2>5. e \in Lst /\ r \in Seq(Lst) /\ Len(r) = Len(q) - 1
    BY <2>1, <2>2, <2>3, <2>4, RemoveAtIs
  <2>6. Len(r) <= MaxFlights
    <3>1. Len(q) \in Nat
      OBVIOUS
    <3> QED
      BY <2>2, <2>5, <3>1, BoundsAssumption
  <2>7. flight' = [flight EXCEPT ![x] = r]
    BY <2>1, <2>2, <2>4
  <2>8. PICK s \in Seq(Lst) : s = ch[x] /\ Len(s) <= Capacity
    BY DEF DirInv, WireTyped
  <2>9. Append(s, e) \in Seq(Lst) /\ Len(Append(s, e)) = Len(s) + 1 /\ Len(s) \in Nat
    BY <2>5, AppendIs
  <2>10. PICK a : a = Append(s, e)
    OBVIOUS
  <2>11. ch' = ch \/ (Len(s) < Capacity /\ ch' = [ch EXCEPT ![x] = a])
    BY <2>1, <2>2, <2>3, <2>8, <2>10
  <2>12. Len(s) < Capacity => Len(a) <= Capacity
    BY <2>9, <2>10, BoundsAssumption
  <2>13. flight' \in [XClients -> Seq(Lst)] /\ \A y \in XClients : Len(flight'[y]) <= MaxFlights
    BY <2>5, <2>6, <2>7 DEF DirInv, WireTyped
  <2>14. ch' \in [XClients -> Seq(Lst)] /\ \A y \in XClients : Len(ch'[y]) <= Capacity
    BY <2>9, <2>10, <2>11, <2>12 DEF DirInv, WireTyped
  <2> QED
    BY <2>13, <2>14 DEF Deliver, DirInv, WireTyped
<1>3. ClientsTyped' /\ ClientsOK'
  BY ClientsFrame DEF Deliver, DirInv
<1> QED
  BY <1>1, <1>2, <1>3 DEF DirInv

LEMMA ListAsInv ==
  ASSUME DirInv, NEW x \in XClients, NEW mode \in Modes, ListAs(x, mode)
  PROVE  DirInv'
<1>1. CentreTyped'
  BY CentreFrame DEF ListAs, DirInv
<1>2. WireTyped'
  BY WireFrame DEF ListAs, DirInv
<1>3. ClientsTyped' /\ ClientsOK'
  <2>1. PICK l : l = Filter(disc[option.of[x]].pairs)
    OBVIOUS
  <2>2. l \in Lst
    <3>1. option.of[x] \in Discoveries
      BY OptionIs DEF DirInv, CentreTyped
    <3> QED
      BY <2>1, <3>1, DiscIs, FilterIs
  <2>3. /\ servers' = [servers EXCEPT ![x] = l] /\ xc' = [xc EXCEPT ![x] = "listed"]
        /\ pending' = pending /\ overtaken' = overtaken /\ picks' = picks
        /\ xc[x] = "none"
    BY <2>1 DEF ListAs
  <2>4. ClientOK(xc[x], servers[x], sel[x], pending[x], picks[x], x \in overtaken)
    BY ClientIs
  <2>5. sel[x] = NoSelector /\ pending[x] = NoSelector /\ picks[x] = Unpicked
    BY <2>3, <2>4 DEF ClientOK
  <2>6. \E s : sel' = [sel EXCEPT ![x] = s]
               /\ ClientOK("listed", l, s, NoSelector, Unpicked, x \in overtaken)
    <3>1. CASE mode \in {"closest", "user"}
      <4>1. sel' = [sel EXCEPT ![x] = sel[x]]
        BY <3>1, ClientIs DEF ListAs
      <4> QED
        BY <2>5, <4>1, NoSelectorOK
    <3>2. CASE mode \notin {"closest", "user"}
      <4>1. PICK order \in Orders(mode, l) :
              sel' = [sel EXCEPT ![x] = NewSelector(mode, l, order)]
        BY <2>1, <3>2 DEF ListAs
      <4>2. PICK s : s = NewSelector(mode, l, order)
        OBVIOUS
      <4>3. Sound(s) /\ InTurn(s, Unpicked) /\ ByWeight(s, Unpicked) /\ s.list = l
        BY <2>2, <4>2, NewSelectorSound
      <4>4. ClientOK("listed", l, NoSelector, NoSelector, Unpicked, x \in overtaken)
        BY NoSelectorOK
      <4>5. ClientOK("listed", l, s, NoSelector, Unpicked, x \in overtaken)
        BY <4>3, <4>4 DEF ClientOK, Tracks
      <4> QED
        BY <4>1, <4>2, <4>5
    <3> QED
      BY <3>1, <3>2
  <2>7. PICK s : /\ sel' = [sel EXCEPT ![x] = s]
                 /\ ClientOK("listed", l, s, NoSelector, Unpicked, x \in overtaken)
    BY <2>6
  <2>8. /\ pending' = [pending EXCEPT ![x] = NoSelector]
        /\ picks' = [picks EXCEPT ![x] = Unpicked] /\ overtaken \in SUBSET XClients
    BY <2>3, <2>5, ClientIs
  <2>9. PICK O : O = overtaken
    OBVIOUS
  <2>10. ClientMoves(x, "listed", l, s, NoSelector, Unpicked, O)
    BY <2>2, <2>3, <2>7, <2>8, <2>9 DEF ClientMoves
  <2> QED
    BY <2>10, ClientStep DEF DirInv
<1> QED
  BY <1>1, <1>2, <1>3 DEF DirInv

\* The construction or watch loop of x goes on to c, and nothing else of it changes.
LEMMA GoesOn ==
  ASSUME DirInv, NEW x \in XClients, xc[x] # "none",
         NEW c \in {"listed", "watching", "unwatched", "ended"},
         xc' = [xc EXCEPT ![x] = c], UNCHANGED <<servers, selVars>>
  PROVE  ClientsTyped' /\ ClientsOK'
<1>1. ClientOK(xc[x], servers[x], sel[x], pending[x], picks[x], x \in overtaken)
  BY ClientIs
<1>2. ClientOK(c, servers[x], sel[x], pending[x], picks[x], x \in overtaken)
  BY <1>1 DEF ClientOK
<1>3. /\ servers' = [servers EXCEPT ![x] = servers[x]] /\ servers[x] \in Lst
      /\ sel' = [sel EXCEPT ![x] = sel[x]] /\ pending' = [pending EXCEPT ![x] = pending[x]]
      /\ picks' = [picks EXCEPT ![x] = picks[x]]
      /\ overtaken' = overtaken /\ overtaken \in SUBSET XClients
  BY ClientIs DEF selVars
<1>4. PICK l, s, t, p, O :
        l = servers[x] /\ s = sel[x] /\ t = pending[x] /\ p = picks[x] /\ O = overtaken
  OBVIOUS
<1>5. ClientMoves(x, c, l, s, t, p, O)
  BY <1>2, <1>3, <1>4 DEF ClientMoves
<1> QED
  BY <1>5, ClientStep DEF DirInv

LEMMA WatchServiceInv ==
  ASSUME DirInv, NEW x \in XClients, WatchService(x)
  PROVE  DirInv'
<1>1. CentreTyped'
  BY CentreFrame DEF WatchService, DirInv
<1>2. WireTyped'
  <2>1. option.of[x] \in Discoveries
    BY OptionIs DEF DirInv, CentreTyped
  <2>2. chans' \in [Discoveries -> SUBSET XClients]
    BY <2>1 DEF WatchService, DirInv, WireTyped
  <2> QED
    BY <2>2 DEF WatchService, DirInv, WireTyped
<1>3. ClientsTyped' /\ ClientsOK'
  <2>1. xc[x] # "none" /\ UNCHANGED <<servers, selVars>>
    BY DEF WatchService
  <2>2. xc' = [xc EXCEPT ![x] = "watching"] \/ xc' = [xc EXCEPT ![x] = "unwatched"]
    BY DEF WatchService
  <2> QED
    BY <2>1, <2>2, GoesOn
<1> QED
  BY <1>1, <1>2, <1>3 DEF DirInv

LEMMA ReplaceInv ==
  ASSUME DirInv, NEW x \in XClients, NEW l \in Lst, Replace(x, l), xc' = xc
  PROVE  ClientsTyped' /\ ClientsOK'
<1>1. ClientOK(xc[x], servers[x], sel[x], pending[x], picks[x], x \in overtaken)
  BY ClientIs
<1>2. PICK order \in Orders(sel[x].mode, l) :
        sel' = [sel EXCEPT ![x] = Updated(sel[x], l, order)]
  BY DEF Replace
<1>3. PICK s : s = Updated(sel[x], l, order)
  OBVIOUS
<1>4. /\ Sound(s) /\ InTurn(s, Unpicked) /\ ByWeight(s, Unpicked) /\ s.mode = sel[x].mode
      /\ Tracks(s, l)
  BY <1>1, <1>3, UpdatedSound DEF ClientOK
<1>5. xc[x] = "none" => s = NoSelector
  <2>1. xc[x] = "none" => s.mode = "none"
    BY <1>1, <1>4, NoSelectorSound DEF ClientOK
  <2> QED
    BY <1>4, <2>1 DEF Sound
<1>6. SumFunctionOnSet(Unpicked, Servers) <= MaxPicks /\ Unpicked \in [Servers -> Nat]
  BY UnpickedIs, BoundsAssumption
<1>7. PICK O \in SUBSET XClients :
        /\ overtaken' = O /\ \A y \in XClients : y # x => (y \in O <=> y \in overtaken)
        /\ x \notin O => pending[x] = NoSelector
  <2>1. overtaken \in SUBSET XClients
    BY ClientIs
  <2>2. CASE pending[x] = NoSelector
    BY <2>1, <2>2 DEF Replace
  <2>3. CASE pending[x] # NoSelector
    BY <2>1, <2>3 DEF Replace
  <2> QED
    BY <2>2, <2>3
<1>8. x \notin O => Tracks(pending[x], l)
  BY <1>7, NoSelectorSound DEF Tracks
<1>9. ClientOK(xc[x], l, s, pending[x], Unpicked, x \in O)
  BY <1>1, <1>4, <1>5, <1>6, <1>8 DEF ClientOK
<1>10. /\ xc[x] \in {"none", "listed", "watching", "unwatched", "ended"}
       /\ xc' = [xc EXCEPT ![x] = xc[x]] /\ pending' = [pending EXCEPT ![x] = pending[x]]
       /\ servers' = [servers EXCEPT ![x] = l] /\ picks' = [picks EXCEPT ![x] = Unpicked]
       /\ sel' = [sel EXCEPT ![x] = s]
  BY <1>2, <1>3, ClientIs DEF Replace
<1>11. PICK c, t : c = xc[x] /\ t = pending[x]
  OBVIOUS
<1>12. ClientMoves(x, c, l, s, t, Unpicked, O)
  BY <1>7, <1>9, <1>10, <1>11 DEF ClientMoves
<1> QED
  BY <1>12, ClientStep DEF DirInv

LEMMA ReceiveInv ==
  ASSUME DirInv, NEW x \in XClients, Receive(x)
  PROVE  DirInv'
<1>1. CentreTyped'
  BY CentreFrame DEF Receive, DirInv
<1>2. PICK q \in Seq(Lst) : q = ch[x] /\ Len(q) <= Capacity /\ q # <<>>
  BY DEF Receive, DirInv, WireTyped
<1>3. Head(q) \in Lst /\ Tail(q) \in Seq(Lst) /\ Len(Tail(q)) = Len(q) - 1 /\ Len(q) \in Nat
  BY <1>2, TailIs
<1>4. WireTyped'
  <2>1. PICK r : r = Tail(q)
    OBVIOUS
  <2>2. r \in Seq(Lst) /\ Len(r) <= Capacity
    BY <1>2, <1>3, <2>1, BoundsAssumption
  <2>3. ch' = [ch EXCEPT ![x] = r]
    BY <1>2, <2>1 DEF Receive
  <2>4. ch' \in [XClients -> Seq(Lst)] /\ \A y \in XClients : Len(ch'[y]) <= Capacity
    BY <2>2, <2>3 DEF DirInv, WireTyped
  <2> QED
    BY <2>4 DEF Receive, DirInv, WireTyped
<1>5. ClientsTyped' /\ ClientsOK'
  <2>1. PICK l : l = Filter(Head(q))
    OBVIOUS
  <2>2. l \in Lst
    BY <1>3, <2>1, FilterIs
  <2>3. Replace(x, l) /\ xc' = xc
    BY <1>2, <2>1 DEF Receive
  <2> QED
    BY <2>2, <2>3, ReplaceInv
<1> QED
  BY <1>1, <1>4, <1>5 DEF DirInv

LEMMA SetInitAceClientInv ==
  ASSUME DirInv, SetInitAceClient
  PROVE  DirInv'
<1>1. CentreTyped'
  BY DEF SetInitAceClient, DirInv, CentreTyped
<1>2. WireTyped'
  BY WireFrame DEF SetInitAceClient, DirInv
<1>3. ClientsTyped' /\ ClientsOK'
  <2>1. PICK x \in XClients : x = option.centre
    BY DEF SetInitAceClient, DirInv, CentreTyped
  <2>2. PICK old \in Lst : old = servers[x]
    BY ClientIs
  <2>3. PICK l : l = [k \in DOMAIN old \cup {Seed} |-> IF k = Seed THEN Plain(2) ELSE old[k]]
    OBVIOUS
  <2>4. l \in Lst
    BY <2>3, ListIs, PlainIs, DirectoryAssumption
  <2>5. Replace(x, l) /\ xc' = xc
    BY <2>1, <2>2, <2>3 DEF SetInitAceClient
  <2> QED
    BY <2>4, <2>5, ReplaceInv
<1> QED
  BY <1>1, <1>2, <1>3 DEF DirInv

LEMMA WatchEndInv ==
  ASSUME DirInv, NEW x \in XClients, WatchEnd(x)
  PROVE  DirInv'
<1>1. CentreTyped'
  BY CentreFrame DEF WatchEnd, DirInv
<1>2. WireTyped'
  BY WireFrame DEF WatchEnd, DirInv
<1>3. ClientsTyped' /\ ClientsOK'
  BY GoesOn DEF WatchEnd
<1> QED
  BY <1>1, <1>2, <1>3 DEF DirInv

LEMMA CloseInv ==
  ASSUME DirInv, NEW x \in XClients, MarkClosed(x) \/ RemoveWatcher(x) \/ CloseChannel(x)
  PROVE  DirInv'
<1>1. UNCHANGED <<option, centreVars, disc, flight, ch, xc, servers, selVars>>
  BY DEF MarkClosed, RemoveWatcher, CloseChannel
<1>2. CentreTyped'
  BY <1>1, CentreFrame DEF DirInv
<1>3. WireTyped'
  <2>1. closing' \in [XClients -> {"no", "marked", "removed", "closed"}]
    BY DEF MarkClosed, RemoveWatcher, CloseChannel, DirInv, WireTyped
  <2>2. chans' \in [Discoveries -> SUBSET XClients]
    BY DEF MarkClosed, RemoveWatcher, CloseChannel, DirInv, WireTyped
  <2> QED
    BY <1>1, <2>1, <2>2 DEF DirInv, WireTyped
<1>4. ClientsTyped' /\ ClientsOK'
  BY <1>1, ClientsFrame DEF DirInv
<1> QED
  BY <1>2, <1>3, <1>4 DEF DirInv

LEMMA PrepareInv ==
  ASSUME DirInv, NEW x \in XClients, NEW mode \in Modes, Prepare(x, mode)
  PROVE  /\ DirInv'
         /\ \E t : /\ pending' = [pending EXCEPT ![x] = t] /\ t.mode = mode
                   /\ pending'[x].mode = mode
<1>1. CentreTyped'
  BY CentreFrame DEF Prepare, DirInv
<1>2. WireTyped'
  BY WireFrame DEF Prepare, DirInv
<1>3. PICK l : l = servers[x]
  OBVIOUS
<1>4. l \in Lst
  BY <1>3, ClientIs
<1>5. PICK order \in Orders(mode, l) :
        pending' = [pending EXCEPT ![x] = NewSelector(mode, l, order)]
  BY <1>3 DEF Prepare
<1>6. PICK t : t = NewSelector(mode, l, order)
  OBVIOUS
<1>7. /\ Sound(t) /\ InTurn(t, Unpicked) /\ ByWeight(t, Unpicked)
      /\ t.mode = mode /\ t.list = l
  BY <1>4, <1>6, NewSelectorSound
<1>8. pending' = [pending EXCEPT ![x] = t]
  BY <1>5, <1>6
<1>9. ClientsTyped' /\ ClientsOK'
  <2>1. PICK c, s, p, O : c = xc[x] /\ s = sel[x] /\ p = picks[x] /\ O = overtaken
    OBVIOUS
  <2>2. ClientOK(c, l, s, pending[x], p, x \in O)
    BY <1>3, <2>1, ClientIs
  <2>3. c # "none"
    BY <2>1 DEF Prepare, Made
  <2>4. ClientOK(c, l, s, t, p, x \in O)
    BY <1>7, <2>2, <2>3 DEF ClientOK, Tracks
  <2>5. ClientMoves(x, c, l, s, t, p, O)
    BY <1>3, <1>4, <1>8, <2>1, <2>4, ClientIs DEF ClientMoves, Prepare
  <2> QED
    BY <2>5, ClientStep DEF DirInv
<1>10. pending'[x] = t
  BY <1>8 DEF DirInv, ClientsTyped
<1> QED
  BY <1>1, <1>2, <1>7, <1>8, <1>9, <1>10 DEF DirInv

LEMMA InstallInv ==
  ASSUME DirInv, NEW x \in XClients, Install(x)
  PROVE  DirInv'
<1>1. CentreTyped'
  BY CentreFrame DEF Install, DirInv
<1>2. WireTyped'
  BY WireFrame DEF Install, DirInv
<1>3. ClientsTyped' /\ ClientsOK'
  <2>1. PICK c, l, t, O : c = xc[x] /\ l = servers[x] /\ t = pending[x] /\ O = overtaken
    OBVIOUS
  <2>2. ClientOK(c, l, sel[x], t, picks[x], x \in O)
    BY <2>1, ClientIs
  <2>3. c # "none"
    BY <2>1, <2>2 DEF ClientOK, Install
  <2>4. ClientOK(c, l, NoSelector, NoSelector, Unpicked, x \in O)
    BY NoSelectorOK
  <2>5. ClientOK(c, l, t, NoSelector, Unpicked, x \in O)
    BY <2>2, <2>3, <2>4 DEF ClientOK
  <2>6. ClientMoves(x, c, l, t, NoSelector, Unpicked, O)
    BY <2>1, <2>5, ClientIs DEF ClientMoves, Install
  <2> QED
    BY <2>6, ClientStep DEF DirInv
<1> QED
  BY <1>1, <1>2, <1>3 DEF DirInv

LEMMA SelectInv ==
  ASSUME DirInv, NEW x \in XClients, Select(x)
  PROVE  /\ DirInv'
         /\ sel'[x].mode = sel[x].mode /\ \E s : sel' = [sel EXCEPT ![x] = s]
<1>1. CentreTyped'
  BY CentreFrame DEF Select, DirInv
<1>2. WireTyped'
  BY WireFrame DEF Select, DirInv
<1>3. PICK z \in Selections(sel[x]) :
        /\ sel' = [sel EXCEPT ![x] = z.next]
        /\ picks' = [picks EXCEPT ![x] = [picks[x] EXCEPT ![z.server] = @ + 1]]
  BY Zenon DEF Select
<1>4. PICK c, l, s, t, p, O :
        /\ c = xc[x] /\ l = servers[x] /\ s = sel[x] /\ t = pending[x] /\ p = picks[x]
        /\ O = overtaken
  OBVIOUS
<1>5. ClientOK(c, l, s, t, p, x \in O)
  BY <1>4, ClientIs
<1>6. Sound(s) /\ p \in [Servers -> Nat] /\ InTurn(s, p) /\ ByWeight(s, p)
  BY <1>5 DEF ClientOK
<1>7. PICK r : r = [p EXCEPT ![z.server] = @ + 1]
  OBVIOUS
<1>8. PICK u : u = z.next
  OBVIOUS
<1>9. /\ z.server \in Servers /\ s.mode # "none"
      /\ Sound(u) /\ u.mode = s.mode /\ u.list = s.list /\ InTurn(u, r) /\ ByWeight(u, r)
  BY <1>3, <1>4, <1>6, <1>7, <1>8, SelectionsSound
<1>10. r \in [Servers -> Nat] /\ SumFunctionOnSet(r, Servers) <= MaxPicks
  <2>1. /\ r \in [Servers -> Nat] /\ SumFunctionOnSet(p, Servers) \in Nat
        /\ SumFunctionOnSet(r, Servers) = SumFunctionOnSet(p, Servers) + 1
    BY <1>6, <1>7, <1>9, OneMore
  <2>2. SumFunctionOnSet(p, Servers) < MaxPicks
    <3>1. Picked(x) < MaxPicks /\ DOMAIN p = Servers
      BY <1>6 DEF Select
    <3> QED
      BY <1>4, <3>1 DEF Picked, SumFunction
  <2> QED
    BY <2>1, <2>2, BoundsAssumption
<1>11. c # "none"
  BY <1>4 DEF Select, Made
<1>12. ClientOK(c, l, u, t, r, x \in O)
  BY <1>5, <1>9, <1>10, <1>11 DEF ClientOK, Tracks
<1>13. sel' = [sel EXCEPT ![x] = u] /\ picks' = [picks EXCEPT ![x] = r]
  BY <1>3, <1>4, <1>7, <1>8
<1>14. ClientMoves(x, c, l, u, t, r, O)
  BY <1>4, <1>12, <1>13, ClientIs DEF ClientMoves, Select
<1>15. ClientsTyped' /\ ClientsOK'
  BY <1>14, ClientStep DEF DirInv
<1>16. sel'[x] = u
  BY <1>13 DEF DirInv, ClientsTyped
<1> QED
  BY <1>1, <1>2, <1>4, <1>9, <1>13, <1>15, <1>16 DEF DirInv

LEMMA AnnounceInv ==
  ASSUME DirInv, Announce
  PROVE  DirInv'
<1>1. CentreTyped'
  <2>1. option.centre \in XClients
    BY OptionIs DEF Announce, DirInv, CentreTyped
  <2> QED
    BY <2>1 DEF Announce, DirInv, CentreTyped
<1>2. WireTyped'
  BY WireFrame DEF Announce, DirInv
<1>3. ClientsTyped' /\ ClientsOK'
  BY ClientsFrame DEF Announce, DirInv
<1> QED
  BY <1>1, <1>2, <1>3 DEF DirInv

LEMMA DirStutter ==
  ASSUME DirInv, UNCHANGED dirVars
  PROVE  DirInv'
<1>1. UNCHANGED <<option, centreVars>> /\ UNCHANGED <<disc, wireVars>>
      /\ UNCHANGED <<xc, servers, selVars>>
  BY DEF dirVars
<1> QED
  BY <1>1, CentreFrame, WireFrame, ClientsFrame DEF DirInv

LEMMA DirStep ==
  ASSUME DirInv, DirNext
  PROVE  DirInv'
<1>1. ASSUME NEW d \in Discoveries, Change(d) \/ DiscoveryStep(d)
      PROVE  DirInv'
  BY <1>1, ChangeInv, AskInv, AskFailInv, StoreInv, TellInv DEF DiscoveryStep
<1>2. ASSUME NEW x \in XClients, Direct(x)
      PROVE  DirInv'
  <2>1. CASE GetServices(x)
    <3>1. option.mode[x] \in Modes
      BY OptionIs DEF DirInv, CentreTyped
    <3>2. PICK m \in Modes : m = option.mode[x]
      BY <3>1
    <3>3. ListAs(x, m)
      BY <2>1, <3>2 DEF GetServices
    <3> QED
      BY <3>3, ListAsInv
  <2>2. CASE \E mode \in {"user", "closest"} : Prepare(x, mode)
    BY <2>2, PrepareInv DEF Modes
  <2> QED
    BY <1>2, <2>1, <2>2, WatchServiceInv, CloseInv, InstallInv, SelectInv DEF Direct
<1>3. ASSUME NEW x \in XClients, Loops(x)
      PROVE  DirInv'
  BY <1>3, DeliverInv, ReceiveInv, WatchEndInv, CloseInv DEF Loops
<1> QED
  BY <1>1, <1>2, <1>3, AnnounceInv, SetInitAceClientInv DEF DirNext

LEMMA DirInvariant == DirSpec => []DirInv
<1>1. DirInit => DirInv
  BY DirInitInv
<1>2. DirInv /\ [DirNext]_dirVars => DirInv'
  BY DirStep, DirStutter
<1> QED
  BY <1>1, <1>2, PTL DEF DirSpec

-----------------------------------------------------------------------------
(* What the invariant says *)

LEMMA TurnsFair ==
  ASSUME NEW s, Sound(s), s.mode = "roundrobin", NEW p \in [Servers -> Nat], InTurn(s, p),
         NEW k \in DOMAIN s.list, NEW l \in DOMAIN s.list
  PROVE  p[k] - p[l] <= 1
<1>1. s \in SelectorRecord /\ s.order \in Seq(Servers) /\ Range(s.order) = DOMAIN s.list
  BY DEF Sound, SelectorRecord, Listed
<1>2. k \in Servers /\ l \in Servers
  BY CandidatesAre
<1>3. CASE \A y \in Servers : p[y] = 0
  BY <1>2, <1>3
<1>4. CASE \E q \in Nat, a \in 0 .. Len(s.order) - 1 : Rounds(s, p, q, a)
  <2>1. PICK q \in Nat, a \in 0 .. Len(s.order) - 1 : Rounds(s, p, q, a)
    BY <1>4
  <2>2. PICK m \in 1 .. Len(s.order), n \in 1 .. Len(s.order) :
          s.order[m] = k /\ s.order[n] = l
    <3>1. DOMAIN s.order = 1 .. Len(s.order)
      BY <1>1
    <3>2. \A y \in DOMAIN s.list : \E m \in DOMAIN s.order : s.order[m] = y
      BY <1>1 DEF Range
    <3> QED
      BY <3>1, <3>2
  <2>3. p[k] \in {q, q + 1} /\ p[l] \in {q, q + 1}
    BY <2>1, <2>2 DEF Rounds
  <2> QED
    BY <2>3
<1> QED
  BY <1>3, <1>4 DEF InTurn

LEMMA WeightsFair ==
  ASSUME NEW s, Sound(s), NEW p \in [Servers -> Nat], Balanced(s, p),
         NEW T \in Nat \ {0}, T = Total(s), NEW n \in Nat, n = SumFunctionOnSet(p, Servers),
         NEW k \in DOMAIN s.list, NEW w \in Nat, w = Weight(s, k)
  PROVE  /\ T * p[k] - n * w < T
         /\ -(T * p[k] - n * w) <= T * (Cardinality(DOMAIN s.list) - 1)
         /\ n % T = 0 => T * p[k] - n * w = 0
<1>1. s \in SelectorRecord
  BY DEF Sound
<1>2. PICK L : L = DOMAIN s.list
  OBVIOUS
<1>3. L \subseteq Servers /\ IsFiniteSet(L) /\ Cardinality(L) \in Nat /\ k \in L
  BY <1>1, <1>2, ListIs, ListFinite DEF SelectorRecord
<1>4. PICK c : c = s.current
  OBVIOUS
<1>5. \A l \in L : c[l] \in Int
  BY <1>1, <1>3, <1>4 DEF SelectorRecord
<1>6. \A l \in L : c[l] > -T
  BY <1>2, <1>4 DEF Balanced
<1>7. SumFunctionOnSet(c, L) = 0
  BY <1>2, <1>4 DEF Balanced
<1>8. PICK b \in Nat : b = p[k]
  BY <1>3
<1>9. PICK a \in Int : a = T * b /\ T * b - n * w \in Int
  OBVIOUS
<1>10. PICK e \in Int : e = n * w
  OBVIOUS
<1>11. c[k] = e - a
  BY <1>4, <1>8, <1>9, <1>10 DEF Balanced
<1>12. a - e < T
  BY <1>3, <1>6, <1>9, <1>10, <1>11
<1>13. e - a <= T * (Cardinality(L) - 1)
  <2>1. PICK V : V = L \ {k}
    OBVIOUS
  <2>2. IsFiniteSet(V) /\ Cardinality(V) = Cardinality(L) - 1
    BY <1>3, <2>1, FS_RemoveElement
  <2>3. PICK v \in Int : v = SumFunctionOnSet(c, V)
    BY <1>5, <2>1, <2>2, SumType
  <2>4. c[k] + v = 0
    BY <1>3, <1>5, <1>7, <2>1, <2>3, SumOfAny
  <2>5. PICK t \in Int : t = -T
    OBVIOUS
  <2>6. \A l \in V : c[l] \in Int /\ t <= c[l]
    BY <1>5, <1>6, <2>1, <2>5
  <2>7. t * Cardinality(V) <= v
    BY <2>2, <2>3, <2>6, SumAtLeast
  <2>8. PICK m \in Int : m = Cardinality(L) - 1
    BY <1>3
  <2>9. (-T) * m = -(T * m) /\ T * m \in Int
    OBVIOUS
  <2>10. PICK z \in Int : z = T * m
    BY <2>9
  <2>11. -z <= v
    BY <2>2, <2>5, <2>7, <2>8, <2>9, <2>10
  <2>12. e - a <= z
    BY <1>11, <2>4, <2>11
  <2> QED
    BY <2>8, <2>10, <2>12
<1>14. ASSUME n % T = 0 PROVE a - e = 0
  <2>1. PICK m \in Nat : n = T * m
    BY <1>14, Whole
  <2>2. ASSUME NEW l \in L PROVE c[l] \in Nat
    <3>1. PICK wl \in Nat : wl = Weight(s, l)
      BY <1>1, <1>2, WeightIs
    <3>2. PICK pl \in Nat : pl = p[l]
      BY <1>3
    <3>3. c[l] = n * wl - T * pl
      BY <1>2, <1>4, <3>1, <3>2 DEF Balanced
    <3>4. PICK d \in Int : d = m * wl - pl
      OBVIOUS
    <3>5. (T * m) * wl - T * pl = T * (m * wl - pl)
      OBVIOUS
    <3>6. c[l] = T * d
      BY <2>1, <3>3, <3>4, <3>5
    <3>7. d >= 0
      <4>1. ASSUME d <= -1 PROVE FALSE
        <5>1. T * d <= -T
          BY <4>1
        <5> QED
          BY <1>6, <3>6, <5>1
      <4> QED
        BY <4>1
    <3>8. T * d >= 0
      BY <3>7
    <3> QED
      BY <1>5, <3>6, <3>8
  <2>3. \A l \in L : c[l] <= SumFunctionOnSet(c, L)
    BY <1>3, <2>2, SumOfCounts
  <2>4. c[k] = 0
    <3>1. c[k] <= 0 /\ c[k] \in Nat
      BY <1>3, <1>7, <2>2, <2>3
    <3> QED
      BY <3>1
  <2> QED
    BY <1>11, <2>4
<1> QED
  BY <1>2, <1>8, <1>9, <1>10, <1>12, <1>13, <1>14

LEMMA DirInvFair ==
  ASSUME DirInv
  PROVE  RoundsAreFair
<1> SUFFICES ASSUME NEW x \in XClients
             PROVE  /\ sel[x].mode = "roundrobin" =>
                         \A k, l \in DOMAIN sel[x].list : picks[x][k] - picks[x][l] <= 1
                    /\ sel[x].mode \in {"weighted", "icmp"} /\ Total(sel[x]) > 0 =>
                         \A k \in DOMAIN sel[x].list :
                           LET ahead == Total(sel[x]) * picks[x][k]
                                          - Picked(x) * Weight(sel[x], k)
                           IN /\ ahead < Total(sel[x])
                              /\ -ahead <= Total(sel[x])
                                             * (Cardinality(DOMAIN sel[x].list) - 1)
                              /\ Picked(x) % Total(sel[x]) = 0 => ahead = 0
  BY Zenon DEF RoundsAreFair
<1>1. PICK s, p, n, T : s = sel[x] /\ p = picks[x] /\ n = Picked(x) /\ T = Total(s)
  OBVIOUS
<1>2. ClientOK(xc[x], servers[x], s, pending[x], p, x \in overtaken)
  BY <1>1, ClientIs
<1>3. Sound(s) /\ InTurn(s, p) /\ ByWeight(s, p) /\ p \in [Servers -> Nat]
  BY <1>2 DEF ClientOK
<1>4. s.mode = "roundrobin" => \A k, l \in DOMAIN s.list : p[k] - p[l] <= 1
  BY <1>3, TurnsFair
<1>5. n = SumFunctionOnSet(p, Servers) /\ n \in Nat
  <2>1. n = SumFunctionOnSet(p, Servers)
    BY <1>1, <1>3 DEF Picked, SumFunction
  <2>2. \A k \in Servers : p[k] \in Nat
    BY <1>3
  <2> QED
    BY <2>1, <2>2, ListsAssumption, SumOfCounts
<1>6. T \in Nat
  BY <1>1, <1>3, TotalIs DEF Sound
<1>7. ASSUME s.mode \in {"weighted", "icmp"}, T > 0, NEW k \in DOMAIN s.list
      PROVE  /\ T * p[k] - n * Weight(s, k) < T
             /\ -(T * p[k] - n * Weight(s, k)) <= T * (Cardinality(DOMAIN s.list) - 1)
             /\ n % T = 0 => T * p[k] - n * Weight(s, k) = 0
  <2>1. PICK w \in Nat : w = Weight(s, k)
    BY <1>3, WeightIs DEF Sound
  <2>2. Balanced(s, p) /\ T \in Nat \ {0}
    BY <1>3, <1>6, <1>7 DEF ByWeight
  <2>3. /\ T * p[k] - n * w < T
        /\ -(T * p[k] - n * w) <= T * (Cardinality(DOMAIN s.list) - 1)
        /\ n % T = 0 => T * p[k] - n * w = 0
    BY <1>1, <1>3, <1>5, <2>1, <2>2, WeightsFair
  <2> QED
    BY <2>1, <2>3
<1> QED
  BY <1>1, <1>4, <1>7, Zenon

LEMMA DirInvTracks ==
  ASSUME DirInv
  PROVE  SelectorTracksServers
<1> SUFFICES ASSUME NEW x \in XClients, sel[x].mode # "none", x \notin overtaken
             PROVE  /\ Candidates(sel[x]) \subseteq DOMAIN servers[x]
                    /\ \A k \in DOMAIN servers[x] \ Candidates(sel[x]) :
                         CASE sel[x].mode = "closest" -> servers[x][k].distance < 0
                           [] sel[x].mode = "hash" -> servers[x][k].empty
                           [] OTHER -> FALSE
  BY Zenon DEF SelectorTracksServers
<1>1. PICK s, l : s = sel[x] /\ l = servers[x]
  OBVIOUS
<1>2. ClientOK(xc[x], l, s, pending[x], picks[x], x \in overtaken)
  BY <1>1, ClientIs
<1>3. Sound(s) /\ s.list = l
  BY <1>1, <1>2 DEF ClientOK, Tracks
<1>4. /\ Candidates(s) \subseteq DOMAIN s.list
      /\ \A k \in DOMAIN s.list \ Candidates(s) :
           CASE s.mode = "closest" -> s.list[k].distance < 0
             [] s.mode = "hash" -> s.list[k].empty
             [] OTHER -> FALSE
  BY <1>3, CandidatesAre
<1> QED
  BY <1>1, <1>3, <1>4

LEMMA DirInvTyped ==
  ASSUME DirInv
  PROVE  DirTypeOK
<1>1. /\ option \in OptionSet /\ answer \in [Discoveries -> Lists]
      /\ changes \in 0 .. MaxChanges /\ faults \in 0 .. MaxFaults
      /\ centre \in {"none", "announced", "seeded"}
  BY DEF DirInv, CentreTyped
<1>2. ASSUME NEW d \in Discoveries
      PROVE  /\ disc[d].pc \in {"none", "idle", "asked", "stored"}
             /\ DOMAIN disc[d].pairs \subseteq Servers /\ DOMAIN disc[d].found \subseteq Servers
  BY DiscIs, ListIs
<1>3. ASSUME NEW x \in XClients, NEW s \in {sel[x], pending[x]}
      PROVE  /\ s.mode \in Modes \cup {"none"} /\ s.hash \subseteq Servers
             /\ Range(s.order) \subseteq Servers
  <2>1. s \in SelectorRecord
    BY <1>3 DEF DirInv, ClientsTyped
  <2> QED
    BY <2>1 DEF SelectorRecord, Range
<1>4. ASSUME NEW x \in XClients
      PROVE  /\ Len(flight[x]) <= MaxFlights /\ Len(ch[x]) <= Capacity
             /\ DOMAIN servers[x] \subseteq Servers
  <2>1. servers[x] \in Lst
    BY ClientIs
  <2> QED
    BY <2>1, ListIs DEF DirInv, WireTyped
<1>5. /\ chans \in [Discoveries -> SUBSET XClients]
      /\ closing \in [XClients -> {"no", "marked", "removed", "closed"}]
  BY DEF DirInv, WireTyped
<1>6. /\ xc \in [XClients -> {"none", "listed", "watching", "unwatched", "ended"}]
      /\ overtaken \subseteq XClients
  BY DEF DirInv, ClientsTyped
<1>7. picks \in [XClients -> [Servers -> 0 .. MaxPicks]]
  <2>1. ASSUME NEW x \in XClients, NEW k \in Servers
        PROVE  picks[x][k] \in 0 .. MaxPicks
    <3>1. PICK p \in [Servers -> Nat] : p = picks[x]
      BY ClientIs
    <3>2. SumFunctionOnSet(p, Servers) <= MaxPicks
      BY <3>1, ClientIs DEF ClientOK
    <3>3. /\ SumFunctionOnSet(p, Servers) \in Nat
          /\ \A y \in Servers : p[y] <= SumFunctionOnSet(p, Servers)
      BY ListsAssumption, SumOfCounts
    <3> QED
      BY <3>1, <3>2, <3>3, BoundsAssumption
  <2>2. picks \in [XClients -> [Servers -> Nat]]
    BY DEF DirInv, ClientsTyped
  <2> QED
    BY <2>1, <2>2
<1> QED
  BY <1>1, <1>2, <1>3, <1>4, <1>5, <1>6, <1>7 DEF DirTypeOK

-----------------------------------------------------------------------------
(* Theorems *)

\* Every variable keeps its type; no channel holds more lists than it has room for, and no
\* more deliveries are under way than the bound allows.
THEOREM DirTypeCorrect == DirSpec => []DirTypeOK
  BY DirInvariant, DirInvTyped, PTL

\* A selector chooses among the servers its xClient has now and leaves out none but those
\* the code leaves out, whatever lists came in which order and whichever selectors were set
\* (UpdateServer, SetSelector and ConfigGeoSelector of selector.go and xclient.go).
THEOREM SelectorsTrackServers == DirSpec => []SelectorTracksServers
  BY DirInvariant, DirInvTracks, PTL

\* Round robin gives every server the same number of calls, give or take one, between two
\* updates; by weight no server is a whole call ahead of its share, nor further behind than
\* the others together can be ahead, and each has its share at the end of a round
\* (roundRobinSelector and nextWeighted).
THEOREM RoundsStayFair == DirSpec => []RoundsAreFair
  BY DirInvariant, DirInvFair, PTL
=============================================================================
