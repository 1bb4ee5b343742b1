----------------------------- MODULE ViewProofs -----------------------------
(***************************************************************************)
(* Proofs about what the screens draw, for any rollup and any terminal     *)
(* row: the agents screen of module RosterView and the runs of module      *)
(* GridView.  Both are loops of the code over a list, so the proofs are by *)
(* induction on a prefix of it: Induct, from the least element of a set of *)
(* naturals.  FlattenAppend and RunsAppend say what the loops add to their *)
(* result for one more element.                                            *)
(***************************************************************************)
EXTENDS Screens, FiniteSetTheorems, FunctionTheorems, WellFoundedInduction, TLAPS

-----------------------------------------------------------------------------
(* Natural numbers.                                                        *)

\* A set of naturals that is not empty has a least element.
LEMMA Least ==
  ASSUME NEW T \in SUBSET Nat, T # {}
  PROVE  \E n \in T : \A m \in T : n <= m
<1>. DEFINE R == OpToRel(<, Nat)
<1>1. IsWellFoundedOn(R, Nat)  BY NatLessThanWellFounded
<1>2. \A x, y \in Nat : x < y => <<x, y>> \in R  BY DEF OpToRel
<1>. HIDE DEF R
<1>3. PICK x \in T : \A y \in T : ~ (<<y, x>> \in R)  BY <1>1, WFMin
<1>4. \A y \in T : ~ (y < x)
  <2>1. SUFFICES ASSUME NEW y \in T, y < x PROVE FALSE  OBVIOUS
  <2>2. <<y, x>> \in R  BY <1>2, <2>1
  <2>. QED BY <1>3, <2>2
<1>. QED BY <1>4

\* What holds of 0, and of n + 1 when it holds of n, holds of every natural.
LEMMA Induct ==
  ASSUME NEW T, 0 \in T, \A n \in Nat : n \in T => n + 1 \in T
  PROVE  Nat \subseteq T
<1>1. SUFFICES ASSUME Nat \ T # {} PROVE FALSE  OBVIOUS
<1>2. PICK n \in Nat \ T : \A m \in Nat \ T : n <= m  BY <1>1, Least
<1>3. n # 0  OBVIOUS
<1>4. n - 1 \in Nat /\ n - 1 \in T  BY <1>2, <1>3
<1>. QED BY <1>4, <1>2

\* A set of numbers up to n that is not empty has its largest.
LEMMA MaxIn ==
  ASSUME NEW n \in Nat, NEW S \in SUBSET (1..n), S # {}
  PROVE  Max(S) \in S /\ \A k \in S : k <= Max(S)
<1>. DEFINE T == {m \in Nat : \A k \in S : k <= m}
<1>1. n \in T  OBVIOUS
<1>2. PICK m \in T : \A k \in T : m <= k  BY <1>1, Least
<1>3. m \in S
  <2>1. SUFFICES ASSUME m \notin S PROVE FALSE  OBVIOUS
  <2>2. \A k \in S : k <= m - 1  BY <2>1
  <2>3. m \in Nat /\ m # 0
    <3>1. PICK k \in S : TRUE  OBVIOUS
    <3>2. k <= m /\ 1 <= k  BY <3>1
    <3>. QED BY <3>2
  <2>4. m - 1 \in T  BY <2>2, <2>3
  <2>. QED BY <1>2, <2>3, <2>4
<1>4. \E x \in S : \A y \in S : x >= y  BY <1>3
<1>. QED BY <1>4 DEF Max

-----------------------------------------------------------------------------
(* Sequences, joined one after the other.                                  *)

\* Appending.
LEMMA Appended ==
  ASSUME NEW S, NEW s \in Seq(S), NEW x \in S
  PROVE  /\ Append(s, x) \in Seq(S) /\ Len(Append(s, x)) = Len(s) + 1
         /\ Append(s, x)[Len(s) + 1] = x
         /\ \A k \in 1..Len(s) : Append(s, x)[k] = s[k]
  OBVIOUS

\* One behind the other.
LEMMA Concatenated ==
  ASSUME NEW S, NEW s \in Seq(S), NEW t \in Seq(S)
  PROVE  /\ s \o t \in Seq(S) /\ Len(s \o t) = Len(s) + Len(t)
         /\ \A k \in 1..Len(s) : (s \o t)[k] = s[k]
         /\ \A k \in 1..Len(t) : (s \o t)[Len(s) + k] = t[k]
  OBVIOUS

\* Equal element by element.
LEMMA SameSeq ==
  ASSUME NEW S, NEW s \in Seq(S), NEW t \in Seq(S), Len(s) = Len(t),
         \A k \in 1..Len(s) : s[k] = t[k]
  PROVE  s = t
  OBVIOUS

\* Small joins.
LEMMA Joins ==
  ASSUME NEW S, NEW s \in Seq(S), NEW a \in S, NEW b \in S
  PROVE  /\ <<>> \o s = s /\ s \o <<>> = s /\ s \o <<a>> = Append(s, a)
         /\ <<a>> \o <<b>> = <<a, b>>
<1>1. <<>> \o s = s /\ s \o <<>> = s /\ s \o <<a>> = Append(s, a)  OBVIOUS
<1>2. <<a>> \in Seq(S) /\ <<b>> \in Seq(S) /\ <<a, b>> \in Seq(S)  OBVIOUS
<1>3. Len(<<a>> \o <<b>>) = 2 /\ (<<a>> \o <<b>>)[1] = a /\ (<<a>> \o <<b>>)[2] = b  BY <1>2
<1>4. <<a>> \o <<b>> \in Seq(S)  BY <1>2
<1>5. \A k \in 1..2 : k = 1 \/ k = 2  OBVIOUS
<1>6. Len(<<a, b>>) = 2 /\ <<a, b>>[1] = a /\ <<a, b>>[2] = b  OBVIOUS
<1>7. <<a>> \o <<b>> = <<a, b>>
  <2>. DEFINE u == <<a>> \o <<b>>
              v == <<a, b>>
  <2>. SUFFICES u = v  OBVIOUS
  <2>1. u \in Seq(S) /\ v \in Seq(S) /\ Len(u) = Len(v) /\ \A k \in 1..Len(u) : u[k] = v[k]
    BY <1>2, <1>3, <1>4, <1>5, <1>6
  <2>. HIDE DEF u, v
  <2>. QED BY <2>1, SameSeq
<1>. QED BY <1>1, <1>7

\* The elements of two parts.
LEMMA ToSetConcat ==
  ASSUME NEW S, NEW a \in Seq(S), NEW b \in Seq(S)
  PROVE  ToSet(a \o b) = ToSet(a) \cup ToSet(b)
<1>. DEFINE c == a \o b
            m == Len(a)
<1>1. /\ m \in Nat /\ DOMAIN a = 1..m /\ DOMAIN b = 1..Len(b) /\ DOMAIN c = 1..(m + Len(b))
      /\ \A k \in 1..m : c[k] = a[k]
      /\ \A k \in 1..Len(b) : c[m + k] = b[k]
      /\ \A k \in DOMAIN c : k \in 1..m \/ (k - m \in 1..Len(b) /\ c[k] = b[k - m])
      /\ Len(b) \in Nat
  OBVIOUS
<1>. HIDE DEF c, m
<1>2. ToSet(c) \subseteq ToSet(a) \cup ToSet(b)  BY <1>1 DEF ToSet
<1>3. ToSet(a) \subseteq ToSet(c)
  <2>1. \A k \in 1..m : k \in DOMAIN c  BY <1>1
  <2>. QED BY <1>1, <2>1 DEF ToSet
<1>4. ToSet(b) \subseteq ToSet(c)
  <2>1. \A k \in 1..Len(b) : m + k \in DOMAIN c  BY <1>1
  <2>. QED BY <1>1, <2>1 DEF ToSet
<1>. QED BY <1>2, <1>3, <1>4 DEF c

\* What holds of the empty sequence, and of one with one more element when it
\* holds of it, holds of every sequence.
LEMMA SeqInduct ==
  ASSUME NEW S, NEW T, <<>> \in T, \A s \in Seq(S), x \in S : s \in T => Append(s, x) \in T
  PROVE  Seq(S) \subseteq T
<1>. DEFINE N == {n \in Nat : \A s \in Seq(S) : Len(s) = n => s \in T}
<1>1. 0 \in N
  <2>1. \A s \in Seq(S) : Len(s) = 0 => s = <<>>  OBVIOUS
  <2>. QED BY <2>1
<1>2. ASSUME NEW n \in Nat, n \in N PROVE n + 1 \in N
  <2>1. SUFFICES ASSUME NEW s \in Seq(S), Len(s) = n + 1 PROVE s \in T  OBVIOUS
  <2>. DEFINE init == [i \in 1..n |-> s[i]]
  <2>2. init \in Seq(S) /\ Len(init) = n /\ s[n + 1] \in S  BY <2>1
  <2>3. init \in T  BY <1>2, <2>2
  <2>4. s = Append(init, s[n + 1])  BY <2>1, <2>2
  <2>. HIDE DEF init
  <2>. QED BY <2>2, <2>3, <2>4
<1>3. Nat \subseteq N
  <2>. HIDE DEF N
  <2>. QED BY <1>1, <1>2, Induct
<1>. QED BY <1>3

\* What FlattenSeq computes on the way to its result.
IsFlat(f, ss) == f = [i \in 1..Len(ss) |-> IF i = 1 THEN ss[i] ELSE f[i - 1] \o ss[i]]

\* Its i-th value.
LEMMA FlatAt ==
  ASSUME NEW f, NEW ss, IsFlat(f, ss), NEW i \in 1..Len(ss)
  PROVE  f[i] = IF i = 1 THEN ss[i] ELSE f[i - 1] \o ss[i]
  BY Zenon DEF IsFlat

\* It is there.
LEMMA FlatExists ==
  ASSUME NEW S
  PROVE  \A ss \in Seq(S) : \E f : IsFlat(f, ss)
<1>. DEFINE T == {n \in Nat : \A ss \in Seq(S) : Len(ss) = n => \E f : IsFlat(f, ss)}
<1>1. 0 \in T
  <2>1. \A ss \in Seq(S) : Len(ss) = 0 =>
          IsFlat([i \in 1..0 |-> {}], ss)
    BY DEF IsFlat
  <2>. QED BY <2>1
<1>2. ASSUME NEW n \in Nat, n \in T PROVE n + 1 \in T
  <2>1. SUFFICES ASSUME NEW ss \in Seq(S), Len(ss) = n + 1 PROVE \E f : IsFlat(f, ss)
    OBVIOUS
  <2>. DEFINE init == [i \in 1..n |-> ss[i]]
  <2>2. init \in Seq(S) /\ Len(init) = n  BY <2>1
  <2>3. PICK f : IsFlat(f, init)  BY <1>2, <2>2
  <2>. DEFINE last == IF n = 0 THEN ss[1] ELSE f[n] \o ss[n + 1]
              g == [i \in 1..(n + 1) |-> IF i <= n THEN f[i] ELSE last]
  <2>4. \A i \in 1..n : f[i] = IF i = 1 THEN ss[i] ELSE f[i - 1] \o ss[i]
    BY <2>2, <2>3 DEF IsFlat
  <2>5. \A i \in 1..(n + 1) : g[i] = IF i = 1 THEN ss[i] ELSE g[i - 1] \o ss[i]
    <3>1. TAKE i \in 1..(n + 1)
    <3>2. CASE i = n + 1 /\ n = 0  BY <3>2
    <3>3. CASE i = n + 1 /\ n # 0
      <4>1. last = f[n] \o ss[n + 1]  BY <3>3
      <4>2. ~(i <= n) /\ i - 1 <= n /\ i - 1 \in 1..(n + 1) /\ i - 1 = n  BY <3>3
      <4>. HIDE DEF last
      <4>3. g[i] = last /\ g[i - 1] = f[n]  BY <3>1, <4>2
      <4>. QED BY <3>3, <4>1, <4>3
    <3>4. CASE i # n + 1
      <4>1. i \in 1..n /\ g[i] = f[i] /\ (i # 1 => g[i - 1] = f[i - 1])  BY <3>4
      <4>. QED BY <2>4, <4>1
    <3>. QED BY <3>2, <3>3, <3>4
  <2>6. g = [i \in 1..Len(ss) |-> IF i = 1 THEN ss[i] ELSE g[i - 1] \o ss[i]]
    BY <2>1, <2>5
  <2>. QED BY <2>6 DEF IsFlat
<1>3. Nat \subseteq T
  <2>. HIDE DEF T
  <2>. QED BY <1>1, <1>2, Induct
<1>. QED BY <1>3

\* One more sequence to join changes nothing of it.
LEMMA FlatPrefix ==
  ASSUME NEW S, NEW ss \in Seq(S), NEW s \in S, NEW f, NEW g,
         IsFlat(f, ss), IsFlat(g, Append(ss, s))
  PROVE  \A i \in 1..Len(ss) : g[i] = f[i]
<1>. DEFINE ts == Append(ss, s)
            T == {i \in 1..Len(ss) : g[i] # f[i]}
<1>0. Len(ts) = Len(ss) + 1 /\ \A i \in 1..Len(ss) : ts[i] = ss[i] /\ i \in 1..Len(ts)
  OBVIOUS
<1>1. SUFFICES ASSUME T # {} PROVE FALSE  OBVIOUS
<1>2. IsFlat(g, ts)  OBVIOUS
<1>. HIDE DEF ts
<1>. T \in SUBSET Nat  OBVIOUS
<1>3. PICK i \in T : \A j \in T : i <= j  BY <1>1, Least
<1>4. i \in 1..Len(ss) /\ i \in 1..Len(ts) /\ ts[i] = ss[i]  BY <1>0
<1>5. /\ f[i] = IF i = 1 THEN ss[i] ELSE f[i - 1] \o ss[i]
      /\ g[i] = IF i = 1 THEN ts[i] ELSE g[i - 1] \o ts[i]
  BY <1>2, <1>4, FlatAt
<1>6. i # 1 => i - 1 \in 1..Len(ss) /\ i - 1 \notin T  BY <1>3
<1>. QED BY <1>4, <1>5, <1>6

\* FlattenSeq is the end of it.
LEMMA FlattenIs ==
  ASSUME NEW S, NEW ss \in Seq(S)
  PROVE  \E f : IsFlat(f, ss) /\ FlattenSeq(ss) = IF Len(ss) = 0 THEN ss ELSE f[Len(ss)]
<1>. DEFINE f == CHOOSE f : IsFlat(f, ss)
<1>1. IsFlat(f, ss)  BY FlatExists
<1>2. FlattenSeq(ss) = IF Len(ss) = 0 THEN ss ELSE f[Len(ss)]
  BY Zenon DEF FlattenSeq, IsFlat
<1>. QED BY <1>1, <1>2

\* Nothing joined is nothing, and a last sequence is joined at the end.
LEMMA FlattenAppend ==
  ASSUME NEW S, NEW ss \in Seq(Seq(S)), NEW s \in Seq(S)
  PROVE  FlattenSeq(Append(ss, s)) = FlattenSeq(ss) \o s
<1>. DEFINE ts == Append(ss, s)
            n  == Len(ss)
<1>1. /\ ts \in Seq(Seq(S)) /\ Len(ts) = n + 1 /\ ts[n + 1] = s
      /\ \A k \in 1..n : ts[k] = ss[k]
  OBVIOUS
<1>. SUFFICES FlattenSeq(ts) = FlattenSeq(ss) \o s  OBVIOUS
<1>. HIDE DEF ts
<1>2. PICK f : IsFlat(f, ss) /\ FlattenSeq(ss) = IF n = 0 THEN ss ELSE f[n]
  BY FlattenIs
<1>3. PICK g : IsFlat(g, ts) /\ FlattenSeq(ts) = IF n + 1 = 0 THEN ts ELSE g[n + 1]
  BY <1>1, FlattenIs
<1>4. FlattenSeq(ts) = g[n + 1]  BY <1>3
<1>5. g[n + 1] = IF n = 0 THEN s ELSE g[n] \o s
  <2>1. g[n + 1] = IF n + 1 = 1 THEN ts[n + 1] ELSE g[n + 1 - 1] \o ts[n + 1]
    BY <1>1, <1>3, FlatAt
  <2>. QED BY <1>1, <2>1
<1>6. CASE n = 0
  <2>1. FlattenSeq(ss) = <<>>  BY <1>2, <1>6
  <2>. QED BY <1>4, <1>5, <1>6, <2>1
<1>7. CASE n # 0
  <2>1. \A i \in 1..n : g[i] = f[i]
    <3>. IsFlat(g, Append(ss, s))  BY <1>3 DEF ts
    <3>. QED BY <1>2, FlatPrefix
  <2>2. g[n] = FlattenSeq(ss)  BY <1>2, <1>7, <2>1
  <2>. QED BY <1>4, <1>5, <1>7, <2>2
<1>. QED BY <1>6, <1>7

\* Nothing joined is nothing.
LEMMA FlattenNone == FlattenSeq(<<>>) = <<>>
  BY Zenon, Len(<<>>) = 0 DEF FlattenSeq

\* The result is a sequence of the same elements.
LEMMA FlattenType ==
  ASSUME NEW S, NEW ss \in Seq(Seq(S))
  PROVE  FlattenSeq(ss) \in Seq(S)
<1>. DEFINE T == {ts \in Seq(Seq(S)) : FlattenSeq(ts) \in Seq(S)}
<1>0. <<>> \in Seq(Seq(S)) /\ <<>> \in Seq(S)  OBVIOUS
<1>1. <<>> \in T  BY <1>0, FlattenNone, Zenon
<1>2. ASSUME NEW ts \in Seq(Seq(S)), NEW s \in Seq(S), ts \in T PROVE Append(ts, s) \in T
  <2>1. FlattenSeq(Append(ts, s)) = FlattenSeq(ts) \o s  BY FlattenAppend
  <2>2. FlattenSeq(ts) \o s \in Seq(S)  BY <1>2
  <2>3. Append(ts, s) \in Seq(Seq(S))  OBVIOUS
  <2>. QED BY <2>1, <2>2, <2>3, Zenon
<1>3. Seq(Seq(S)) \subseteq T
  <2>. HIDE DEF T
  <2>. QED BY <1>1, <1>2, SeqInduct
<1>. QED BY <1>3

\* Joining two parts is joining the two results.
LEMMA FlattenConcat ==
  ASSUME NEW S, NEW a \in Seq(Seq(S)), NEW b \in Seq(Seq(S))
  PROVE  FlattenSeq(a \o b) = FlattenSeq(a) \o FlattenSeq(b)
<1>. DEFINE T == {ts \in Seq(Seq(S)) : FlattenSeq(a \o ts) = FlattenSeq(a) \o FlattenSeq(ts)}
<1>1. <<>> \in T
  <2>1. a \o <<>> = a /\ FlattenSeq(a) \o <<>> = FlattenSeq(a)  BY FlattenType
  <2>2. <<>> \in Seq(Seq(S))  OBVIOUS
  <2>. QED BY <2>1, <2>2, FlattenNone, Zenon
<1>2. ASSUME NEW ts \in Seq(Seq(S)), NEW s \in Seq(S), ts \in T PROVE Append(ts, s) \in T
  <2>1. a \o Append(ts, s) = Append(a \o ts, s) /\ a \o ts \in Seq(Seq(S))  OBVIOUS
  <2>2. FlattenSeq(a \o Append(ts, s)) = FlattenSeq(a \o ts) \o s  BY <2>1, FlattenAppend
  <2>3. FlattenSeq(Append(ts, s)) = FlattenSeq(ts) \o s  BY FlattenAppend
  <2>4. FlattenSeq(a) \in Seq(S) /\ FlattenSeq(ts) \in Seq(S)  BY FlattenType
  <2>5. (FlattenSeq(a) \o FlattenSeq(ts)) \o s = FlattenSeq(a) \o (FlattenSeq(ts) \o s)
    BY <2>4
  <2>6. Append(ts, s) \in Seq(Seq(S))  OBVIOUS
  <2>7. FlattenSeq(a \o ts) = FlattenSeq(a) \o FlattenSeq(ts)  BY <1>2
  <2>8. FlattenSeq(a \o Append(ts, s)) = FlattenSeq(a) \o FlattenSeq(Append(ts, s))
    BY <2>2, <2>3, <2>5, <2>7
  <2>. QED BY <2>6, <2>8, Zenon
<1>3. Seq(Seq(S)) \subseteq T
  <2>. HIDE DEF T
  <2>. QED BY <1>1, <1>2, SeqInduct
<1>. QED BY <1>3

-----------------------------------------------------------------------------
(* The roster.                                                             *)

\* What a rollup lists.
AnAgent  == Agent(Nat, Nat)
APlugin  == Plugin(STRING, STRING)
OwnPubs(s) == \A j, k \in 1..Len(s) : s[j].pub = s[k].pub => j = k

\* No state is none of those with a group of their own.
LEMMA NoStateApart == NoState \notin {"blocked", "working", "idle"}
  BY Zenon DEF NoState

\* A group is one of five.
LEMMA Ranked ==
  ASSUME NEW a \in AnAgent
  PROVE  GroupRank(a) \in 0..4
  BY NoStateApart DEF AnAgent, Agent, State, GroupRank

\* Before is an order, and total over handles.
LEMMA BeforeOrders ==
  ASSUME NEW a \in AnAgent, NEW b \in AnAgent
  PROVE  /\ ~Before(a, a)
         /\ Before(a, b) => ~Before(b, a)
         /\ a.pub # b.pub => Before(a, b) \/ Before(b, a)
<1>1. GroupRank(a) \in Nat /\ GroupRank(b) \in Nat  BY Ranked
<1>2. a.since \in Nat /\ b.since \in Nat /\ a.pub \in Nat /\ b.pub \in Nat
  BY DEF AnAgent, Agent
<1>. QED BY <1>1, <1>2 DEF Before

\* It is transitive.
LEMMA BeforeChains ==
  ASSUME NEW a \in AnAgent, NEW b \in AnAgent, NEW c \in AnAgent, Before(a, b), Before(b, c)
  PROVE  Before(a, c)
<1>1. GroupRank(a) \in Nat /\ GroupRank(b) \in Nat /\ GroupRank(c) \in Nat  BY Ranked
<1>2. a.since \in Nat /\ b.since \in Nat /\ c.since \in Nat
  BY DEF AnAgent, Agent
<1>3. a.pub \in Nat /\ b.pub \in Nat /\ c.pub \in Nat
  BY DEF AnAgent, Agent
<1>. QED BY <1>1, <1>2, <1>3 DEF Before

\* There is an order to put agents of different handles in: each behind as many
\* as are before it.
LEMMA SortExists ==
  ASSUME NEW s \in Seq(AnAgent), OwnPubs(s)
  PROVE  \E put \in Bijection(1..Len(s), 1..Len(s)) : Sorted(s, put)
<1>. DEFINE n == Len(s)
            Ahead(i) == {j \in 1..n : Before(s[j], s[i])}
            place == [i \in 1..n |-> Cardinality(Ahead(i)) + 1]
<1>1. n \in Nat /\ \A i \in 1..n : s[i] \in AnAgent  OBVIOUS
<1>. HIDE DEF n
<1>2. IsFiniteSet(1..n) /\ Cardinality(1..n) = n  BY <1>1, FS_Interval
<1>3. ASSUME NEW i \in 1..n
      PROVE  IsFiniteSet(Ahead(i)) /\ Cardinality(Ahead(i)) \in 0..(n - 1)
  <2>1. i \notin Ahead(i)  BY <1>1, BeforeOrders
  <2>2. Ahead(i) \in SUBSET (1..n) /\ Ahead(i) # 1..n  BY <2>1
  <2>. HIDE DEF Ahead
  <2>3. IsFiniteSet(Ahead(i)) /\ Cardinality(Ahead(i)) <= n /\ Cardinality(Ahead(i)) # n
    BY <1>2, <2>2, FS_Subset
  <2>4. Cardinality(Ahead(i)) \in Nat  BY <2>3, FS_CardinalityType
  <2>. QED BY <1>1, <2>3, <2>4
<1>4. ASSUME NEW i \in 1..n, NEW k \in 1..n, Before(s[i], s[k])
      PROVE  place[i] < place[k]
  <2>1. i \in Ahead(k) /\ i \notin Ahead(i)  BY <1>1, <1>4, BeforeOrders
  <2>2. Ahead(i) \in SUBSET Ahead(k)
    <3>1. SUFFICES ASSUME NEW j \in 1..n, Before(s[j], s[i]) PROVE Before(s[j], s[k])  OBVIOUS
    <3>. QED BY <1>1, <1>4, <3>1, BeforeChains
  <2>. HIDE DEF Ahead
  <2>3. /\ Cardinality(Ahead(i)) <= Cardinality(Ahead(k))
        /\ Cardinality(Ahead(i)) # Cardinality(Ahead(k))
    BY <1>3, <2>1, <2>2, FS_Subset
  <2>4. Cardinality(Ahead(i)) \in Nat /\ Cardinality(Ahead(k)) \in Nat  BY <1>3
  <2>5. place[i] = Cardinality(Ahead(i)) + 1 /\ place[k] = Cardinality(Ahead(k)) + 1  OBVIOUS
  <2>. QED BY <2>3, <2>4, <2>5
<1>5. place \in [1..n -> 1..n]
  <2>1. \A i \in 1..n : Cardinality(Ahead(i)) + 1 \in 1..n
    <3>. HIDE DEF Ahead
    <3>. QED BY <1>1, <1>3
  <2>. HIDE DEF Ahead
  <2>. QED BY <2>1
<1>6. \A i, k \in 1..n : place[i] = place[k] => i = k
  <2>1. SUFFICES ASSUME NEW i \in 1..n, NEW k \in 1..n, place[i] = place[k], i # k PROVE FALSE
    BY Zenon
  <2>2. s[i].pub # s[k].pub  BY <2>1 DEF OwnPubs, n
  <2>3. Before(s[i], s[k]) \/ Before(s[k], s[i])  BY <1>1, <2>2, BeforeOrders
  <2>4. place[i] \in 1..n /\ place[k] \in 1..n  BY <1>5
  <2>. HIDE DEF place
  <2>. QED BY <1>4, <2>1, <2>3, <2>4
<1>. HIDE DEF place
<1>7. place \in Injection(1..n, 1..n)  BY <1>5, <1>6, Fun_IsInj
<1>8. place \in Bijection(1..n, 1..n)  BY <1>2, <1>7, FS_Injection DEF Bijection
<1>. DEFINE put == Inverse(place, 1..n, 1..n)
<1>9. put \in Bijection(1..n, 1..n) /\ \A i \in 1..n : put[place[i]] = i  BY <1>8, Fun_BijInverse
<1>. HIDE DEF put
<1>10. \A k \in 1..n : put[k] \in 1..n /\ place[put[k]] = k
  <2>1. \A k \in 1..n : \E i \in 1..n : place[i] = k  BY <1>8 DEF Bijection, Surjection
  <2>. QED BY <1>9, <2>1
<1>11. Sorted(s, put)
  <2>1. SUFFICES ASSUME NEW j \in 1..n, NEW k \in 1..n, j < k, Before(s[put[k]], s[put[j]])
                 PROVE  FALSE
    BY DEF Sorted, n
  <2>2. place[put[k]] < place[put[j]]  BY <1>4, <1>10, <2>1
  <2>. QED BY <1>10, <2>1, <2>2
<1>. QED BY <1>9, <1>11 DEF n

\* A list of agents in order: those of s, each once.
InOrder(r, s) ==
    /\ r \in Seq(AnAgent) /\ Len(r) = Len(s) /\ ToSet(r) = ToSet(s) /\ OwnPubs(r)
    /\ \A j, k \in 1..Len(r) : j < k => Before(r[j], r[k])

\* Roster is one.
LEMMA RosterInOrder ==
  ASSUME NEW s \in Seq(AnAgent), OwnPubs(s)
  PROVE  InOrder(Roster(s), s)
<1>. DEFINE n == Len(s)
            put == CHOOSE put \in Bijection(1..n, 1..n) : Sorted(s, put)
            r == [k \in 1..n |-> s[put[k]]]
<1>1. n \in Nat /\ \A i \in 1..n : s[i] \in AnAgent  OBVIOUS
<1>2. put \in Bijection(1..n, 1..n) /\ Sorted(s, put)  BY SortExists
<1>3. Roster(s) = r  BY Zenon DEF Roster
<1>. HIDE DEF put
<1>4. /\ \A k \in 1..n : put[k] \in 1..n
      /\ \A j, k \in 1..n : put[j] = put[k] => j = k
      /\ \A i \in 1..n : \E k \in 1..n : put[k] = i
  BY <1>2 DEF Bijection, Injection, Surjection, IsInjective
<1>5. \A k \in 1..n : r[k] = s[put[k]] /\ r[k] \in AnAgent  BY <1>1, <1>4
<1>6. r \in Seq(AnAgent) /\ Len(r) = n /\ DOMAIN r = 1..n  BY <1>1, <1>4
<1>. HIDE DEF r
<1>7. OwnPubs(r)
  <2>1. SUFFICES ASSUME NEW j \in 1..n, NEW k \in 1..n, r[j].pub = r[k].pub PROVE j = k
    BY <1>6 DEF OwnPubs
  <2>2. /\ put[j] \in 1..Len(s) /\ put[k] \in 1..Len(s)
        /\ s[put[j]].pub = s[put[k]].pub
    BY <1>4, <1>5, <2>1
  <2>3. put[j] = put[k]  BY <2>2 DEF OwnPubs
  <2>. QED BY <1>4, <2>3
<1>8. ToSet(r) = ToSet(s)
  <2>1. DOMAIN s = 1..n  OBVIOUS
  <2>2. \A i \in 1..n : s[i] \in ToSet(s)  BY <2>1 DEF ToSet
  <2>3. \A i \in 1..n : s[i] \in ToSet(r)
    <3>1. TAKE i \in 1..n
    <3>2. PICK k \in 1..n : put[k] = i  BY <1>4
    <3>. QED BY <1>5, <1>6, <3>2 DEF ToSet
  <2>4. \A k \in 1..n : r[k] \in ToSet(s)  BY <1>4, <1>5, <2>2, Zenon
  <2>. QED BY <1>6, <2>1, <2>3, <2>4 DEF ToSet
<1>9. ASSUME NEW j \in 1..n, NEW k \in 1..n, j < k PROVE Before(r[j], r[k])
  <2>1. ~Before(r[k], r[j])  BY <1>2, <1>5, <1>9 DEF Sorted
  <2>2. r[j].pub # r[k].pub  BY <1>6, <1>7, <1>9 DEF OwnPubs
  <2>. QED BY <1>5, <2>1, <2>2, BeforeOrders
<1>. QED BY <1>3, <1>6, <1>7, <1>8, <1>9 DEF InOrder

\* There is only one.
LEMMA OneOrder ==
  ASSUME NEW r, NEW q, NEW s, InOrder(r, s), InOrder(q, s)
  PROVE  r = q
<1>. DEFINE n == Len(r)
            T == {k \in 1..n : r[k] # q[k]}
<1>1. /\ r \in Seq(AnAgent) /\ q \in Seq(AnAgent) /\ Len(q) = n /\ n \in Nat
      /\ DOMAIN r = 1..n /\ DOMAIN q = 1..n
  BY DEF InOrder
<1>2. \A k \in 1..n : r[k] \in AnAgent /\ q[k] \in AnAgent  BY <1>1
<1>3. \A j, k \in 1..n : j < k => Before(r[j], r[k]) /\ Before(q[j], q[k])
  BY <1>1 DEF InOrder
<1>4. \A k \in 1..n : (\E j \in 1..n : q[j] = r[k]) /\ (\E j \in 1..n : r[j] = q[k])
  <2>1. ToSet(r) = ToSet(q)  BY DEF InOrder
  <2>. QED BY <1>1, <2>1 DEF ToSet
<1>. HIDE DEF n
<1>5. SUFFICES ASSUME T # {} PROVE FALSE  BY <1>1
<1>. T \in SUBSET Nat  BY <1>1
<1>6. PICK k \in T : \A j \in T : k <= j  BY <1>5, Least
<1>7. k \in 1..n /\ r[k] # q[k] /\ \A j \in 1..n : j < k => r[j] = q[j]  BY <1>6
<1>8. PICK i \in 1..n : q[i] = r[k]  BY <1>4, <1>7
<1>9. PICK j \in 1..n : r[j] = q[k]  BY <1>4, <1>7
<1>10. i > k
  <2>1. i # k  BY <1>7, <1>8
  <2>2. ~(i < k)
    <3>1. SUFFICES ASSUME i < k PROVE FALSE  OBVIOUS
    <3>2. r[i] = r[k] /\ Before(r[i], r[k])  BY <1>3, <1>7, <1>8, <3>1
    <3>. QED BY <1>2, <1>7, <3>2, BeforeOrders
  <2>. QED BY <1>7, <2>1, <2>2
<1>11. j > k
  <2>1. j # k  BY <1>7, <1>9
  <2>2. ~(j < k)
    <3>1. SUFFICES ASSUME j < k PROVE FALSE  OBVIOUS
    <3>2. q[j] = q[k] /\ Before(q[j], q[k])  BY <1>3, <1>7, <1>9, <3>1
    <3>. QED BY <1>2, <1>7, <3>2, BeforeOrders
  <2>. QED BY <1>7, <2>1, <2>2
<1>12. Before(q[k], r[k]) /\ Before(r[k], q[k])  BY <1>3, <1>7, <1>8, <1>9, <1>10, <1>11
<1>. QED BY <1>2, <1>7, <1>12, BeforeOrders

\* Reading the list of agents backwards changes neither the agents nor their handles.
LEMMA Reversed ==
  ASSUME NEW s \in Seq(AnAgent), OwnPubs(s)
  PROVE  /\ Reverse(s) \in Seq(AnAgent) /\ OwnPubs(Reverse(s))
         /\ Len(Reverse(s)) = Len(s) /\ ToSet(Reverse(s)) = ToSet(s)
<1>. DEFINE n == Len(s)
            r == Reverse(s)
<1>1. n \in Nat /\ DOMAIN s = 1..n /\ \A i \in 1..n : s[i] \in AnAgent  OBVIOUS
<1>2. \A i \in 1..n : n - i + 1 \in 1..n /\ n - (n - i + 1) + 1 = i  BY <1>1
<1>3. r = [i \in 1..n |-> s[n - i + 1]]  BY DEF Reverse
<1>4. r \in Seq(AnAgent) /\ Len(r) = n /\ DOMAIN r = 1..n /\ \A i \in 1..n : r[i] = s[n - i + 1]
  BY <1>1, <1>2, <1>3
<1>. HIDE DEF r
<1>5. OwnPubs(r)
  <2>1. SUFFICES ASSUME NEW j \in 1..n, NEW k \in 1..n, r[j].pub = r[k].pub PROVE j = k
    BY <1>4 DEF OwnPubs
  <2>2. /\ n - j + 1 \in 1..Len(s) /\ n - k + 1 \in 1..Len(s)
        /\ s[n - j + 1].pub = s[n - k + 1].pub
    BY <1>2, <1>4, <2>1
  <2>3. n - j + 1 = n - k + 1
    <3>. HIDE DEF n
    <3>. QED BY <2>2 DEF OwnPubs
  <2>. QED BY <1>1, <2>3
<1>6. ToSet(r) = ToSet(s)
  <2>1. \A i \in 1..n : r[i] \in ToSet(s)  BY <1>1, <1>2, <1>4 DEF ToSet
  <2>2. \A i \in 1..n : s[i] = r[n - i + 1]  BY <1>1, <1>2, <1>4
  <2>3. \A i \in 1..n : s[i] \in ToSet(r)  BY <1>2, <1>4, <2>2 DEF ToSet
  <2>. QED BY <1>1, <1>4, <2>1, <2>3 DEF ToSet
<1>. QED BY <1>4, <1>5, <1>6 DEF r

\* NeedsYouFirst holds of every rollup.
LEMMA RosterNeedsYouFirst ==
  ASSUME agents \in Seq(AnAgent), OwnPubs(agents)
  PROVE  NeedsYouFirst
<1>. DEFINE r == Roster(agents)
<1>1. InOrder(r, agents)  BY RosterInOrder
<1>2. r = Roster(Reverse(agents))
  <2>1. InOrder(Roster(Reverse(agents)), Reverse(agents))  BY Reversed, RosterInOrder
  <2>2. InOrder(Roster(Reverse(agents)), agents)  BY <2>1, Reversed DEF InOrder
  <2>. QED BY <1>1, <2>2, OneOrder
<1>. HIDE DEF r
<1>3. ASSUME NEW j \in 1..Len(r), NEW k \in 1..Len(r), j < k
      PROVE  /\ r[k].state = "blocked" => r[j].state = "blocked"
             /\ ~(r[j].state = "idle" /\ r[j].seen /\ r[k].state = "idle" /\ ~r[k].seen)
             /\ r[j].state = r[k].state /\ r[j].seen = r[k].seen => r[j].since >= r[k].since
  <2>1. r[j] \in AnAgent /\ r[k] \in AnAgent /\ Before(r[j], r[k])  BY <1>1, <1>3 DEF InOrder
  <2>2. GroupRank(r[j]) \in Nat /\ GroupRank(r[k]) \in Nat  BY <2>1, Ranked
  <2>3. r[j].since \in Nat /\ r[k].since \in Nat  BY <2>1 DEF AnAgent, Agent
  <2>4. GroupRank(r[j]) <= GroupRank(r[k])  BY <2>1, <2>2 DEF Before
  <2>5. r[k].state = "blocked" => r[j].state = "blocked"
    BY <2>1, <2>4, NoStateApart DEF GroupRank, AnAgent, Agent, State
  <2>6. ~(r[j].state = "idle" /\ r[j].seen /\ r[k].state = "idle" /\ ~r[k].seen)
    BY <2>1, <2>4 DEF GroupRank, AnAgent, Agent
  <2>7. r[j].state = r[k].state /\ r[j].seen = r[k].seen => r[j].since >= r[k].since
    <3>1. SUFFICES ASSUME r[j].state = r[k].state, r[j].seen = r[k].seen
                   PROVE  r[j].since >= r[k].since
      OBVIOUS
    <3>2. GroupRank(r[j]) = GroupRank(r[k])  BY <3>1 DEF GroupRank
    <3>. QED BY <2>1, <2>2, <2>3, <3>2 DEF Before
  <2>. QED BY <2>5, <2>6, <2>7
<1>4. ToSet(r) = ToSet(agents)  BY <1>1 DEF InOrder
<1>. QED BY <1>2, <1>3, <1>4 DEF NeedsYouFirst, r

-----------------------------------------------------------------------------
(* The agents screen: its pieces.                                          *)

\* What stands on it.
StateTitle == {"blocked", "working", "idle", "unknown"}
Title == StateTitle \cup {"agent plugins", "plugins", "agents"}
Shown == Title \cup AnAgent \cup APlugin
Entry == [draw : {"heading", "row", "rule", "none"}, of : Shown]

\* Every row has, in the same piece, its heading above it; or it is of an agent
\* of no state above all headings; the last heading is name; there is none; the
\* headings; and none of them twice.
WellHeaded(s) ==
    \A k \in 1..Len(s) : s[k].draw = "row" =>
        \E j \in 1..k : /\ IsHeading(s[j]) /\ s[j].of = Home(s[k].of)
                        /\ \A i \in (j + 1)..k : ~IsHeading(s[i])
HeadedOrTop(s) ==
    \A k \in 1..Len(s) : s[k].draw = "row" =>
        \/ \E j \in 1..k : /\ IsHeading(s[j]) /\ s[j].of = Home(s[k].of)
                           /\ \A i \in (j + 1)..k : ~IsHeading(s[i])
        \/ Stateless(s[k].of) /\ \A i \in 1..k : ~IsHeading(s[i])
Bare(s) == \A k \in 1..Len(s) : ~IsHeading(s[k])
Under(s, name) ==
    \E j \in 1..Len(s) : /\ IsHeading(s[j]) /\ s[j].of = name
                         /\ \A i \in (j + 1)..Len(s) : ~IsHeading(s[i])
Titles(s)  == {s[k].of : k \in {j \in 1..Len(s) : IsHeading(s[j])}}
NoTwice(s) == \A j, k \in 1..Len(s) : IsHeading(s[j]) /\ IsHeading(s[k]) /\ s[j].of = s[k].of => j = k

\* The entries of two pieces.
LEMMA Joined ==
  ASSUME NEW S, NEW a \in Seq(S), NEW b \in Seq(S)
  PROVE  /\ a \o b \in Seq(S) /\ Len(a \o b) = Len(a) + Len(b)
         /\ \A k \in 1..Len(a) : (a \o b)[k] = a[k]
         /\ \A k \in 1..Len(b) : (a \o b)[Len(a) + k] = b[k]
         /\ \A k \in 1..Len(a \o b) : k \in 1..Len(a) \/ (k - Len(a) \in 1..Len(b) /\ (a \o b)[k] = b[k - Len(a)])
  OBVIOUS

\* Two pieces one below the other.
LEMMA HeadedConcat ==
  ASSUME NEW a \in Seq(Entry), NEW b \in Seq(Entry), HeadedOrTop(a), WellHeaded(b)
  PROVE  HeadedOrTop(a \o b)
<1>. DEFINE c == a \o b
            m == Len(a)
<1>1. /\ c \in Seq(Entry) /\ Len(c) = m + Len(b) /\ m \in Nat /\ Len(b) \in Nat
      /\ \A k \in 1..m : c[k] = a[k]
      /\ \A k \in 1..Len(b) : c[m + k] = b[k]
      /\ \A k \in 1..Len(c) : k \in 1..m \/ (k - m \in 1..Len(b) /\ c[k] = b[k - m])
  OBVIOUS
<1>. HIDE DEF c, m
<1>2. SUFFICES ASSUME NEW k \in 1..Len(c), c[k].draw = "row"
               PROVE  \/ \E j \in 1..k : /\ IsHeading(c[j]) /\ c[j].of = Home(c[k].of)
                                         /\ \A i \in (j + 1)..k : ~IsHeading(c[i])
                      \/ Stateless(c[k].of) /\ \A i \in 1..k : ~IsHeading(c[i])
  BY DEF HeadedOrTop, c
<1>3. CASE k \in 1..m
  <2>1. \/ \E j \in 1..k : /\ IsHeading(a[j]) /\ a[j].of = Home(a[k].of)
                           /\ \A i \in (j + 1)..k : ~IsHeading(a[i])
        \/ Stateless(a[k].of) /\ \A i \in 1..k : ~IsHeading(a[i])
    BY <1>1, <1>2, <1>3 DEF HeadedOrTop, m
  <2>2. \A i \in 1..k : c[i] = a[i]  BY <1>1, <1>3
  <2>3. k \in 1..k /\ c[k] = a[k]  BY <1>3, <2>2
  <2>4. ASSUME NEW j \in 1..k, IsHeading(a[j]), a[j].of = Home(a[k].of),
               \A i \in (j + 1)..k : ~IsHeading(a[i])
        PROVE  \E i \in 1..k : /\ IsHeading(c[i]) /\ c[i].of = Home(c[k].of)
                              /\ \A l \in (i + 1)..k : ~IsHeading(c[l])
    <3>1. \A i \in (j + 1)..k : i \in 1..k /\ c[i] = a[i]  BY <2>2
    <3>2. \A i \in (j + 1)..k : ~IsHeading(c[i])  BY <2>4, <3>1
    <3>. QED BY <2>2, <2>3, <2>4, <3>2
  <2>5. ASSUME Stateless(a[k].of), \A i \in 1..k : ~IsHeading(a[i])
        PROVE  Stateless(c[k].of) /\ \A i \in 1..k : ~IsHeading(c[i])
    BY <2>2, <2>3, <2>5
  <2>. QED BY <2>1, <2>4, <2>5
<1>4. CASE k - m \in 1..Len(b) /\ c[k] = b[k - m]
  <2>1. PICK j \in 1..(k - m) : /\ IsHeading(b[j]) /\ b[j].of = Home(b[k - m].of)
                                /\ \A i \in (j + 1)..(k - m) : ~IsHeading(b[i])
    BY <1>2, <1>4 DEF WellHeaded
  <2>2. j + m \in 1..k /\ c[j + m] = b[j]
    <3>1. j \in 1..Len(b) /\ j + m = m + j /\ j + m \in 1..k  BY <1>1, <1>4
    <3>2. c[m + j] = b[j]  BY <1>1, <3>1
    <3>. QED BY <3>1, <3>2
  <2>3. \A i \in (j + m + 1)..k : i - m \in (j + 1)..(k - m) /\ c[i] = b[i - m]
    <3>1. TAKE i \in (j + m + 1)..k
    <3>2. i - m \in (j + 1)..(k - m) /\ i - m \in 1..Len(b)  BY <1>1, <1>4
    <3>3. c[m + (i - m)] = b[i - m]  BY <1>1, <3>2
    <3>. QED BY <1>1, <3>2, <3>3
  <2>4. \A i \in (j + m + 1)..k : ~IsHeading(c[i])
    <3>1. TAKE i \in (j + m + 1)..k
    <3>2. c[i] = b[i - m] /\ ~IsHeading(b[i - m])  BY <2>1, <2>3
    <3>. QED BY <3>2
  <2>5. IsHeading(c[j + m]) /\ c[j + m].of = Home(c[k].of)  BY <1>4, <2>1, <2>2
  <2>6. \E i \in 1..k : IsHeading(c[i]) /\ c[i].of = Home(c[k].of) /\ \A l \in (i + 1)..k : ~IsHeading(c[l])
    BY <2>2, <2>4, <2>5
  <2>. QED BY <2>6
<1>. QED BY <1>1, <1>2, <1>3, <1>4

\* A row under the last heading.
LEMMA RowUnder ==
  ASSUME NEW a \in Seq(Entry), NEW e \in Entry, e.draw = "row", HeadedOrTop(a), Under(a, Home(e.of))
  PROVE  HeadedOrTop(Append(a, e)) /\ Under(Append(a, e), Home(e.of))
<1>. DEFINE c == Append(a, e)
            m == Len(a)
<1>1. /\ Len(c) = m + 1 /\ m \in Nat /\ c[m + 1] = e
      /\ \A k \in 1..m : c[k] = a[k]
  OBVIOUS
<1>. HIDE DEF c, m
<1>2. PICK j \in 1..m : /\ IsHeading(a[j]) /\ a[j].of = Home(e.of)
                        /\ \A i \in (j + 1)..m : ~IsHeading(a[i])
  BY DEF Under, m
<1>3. ~IsHeading(e)  BY DEF IsHeading
<1>4. \A i \in (j + 1)..(m + 1) : ~IsHeading(c[i])
  <2>1. TAKE i \in (j + 1)..(m + 1)
  <2>2. CASE i = m + 1  BY <1>1, <1>3, <2>2
  <2>3. CASE i \in 1..m  BY <1>1, <1>2, <2>3
  <2>. QED BY <1>1, <2>2, <2>3
<1>5. IsHeading(c[j]) /\ c[j].of = Home(e.of) /\ j \in 1..Len(c)  BY <1>1, <1>2
<1>6. Under(c, Home(e.of))  BY <1>1, <1>4, <1>5 DEF Under
<1>7. ASSUME NEW k \in 1..Len(c), c[k].draw = "row"
      PROVE  \/ \E i \in 1..k : /\ IsHeading(c[i]) /\ c[i].of = Home(c[k].of)
                                /\ \A l \in (i + 1)..k : ~IsHeading(c[l])
             \/ Stateless(c[k].of) /\ \A i \in 1..k : ~IsHeading(c[i])
  <2>1. CASE k = m + 1  BY <1>1, <1>4, <1>5, <2>1
  <2>2. CASE k \in 1..m
    <3>1. \/ \E i \in 1..k : /\ IsHeading(a[i]) /\ a[i].of = Home(a[k].of)
                             /\ \A l \in (i + 1)..k : ~IsHeading(a[l])
          \/ Stateless(a[k].of) /\ \A i \in 1..k : ~IsHeading(a[i])
      BY <1>1, <1>7, <2>2 DEF HeadedOrTop, m
    <3>2. \A l \in 1..k : c[l] = a[l]  BY <1>1, <2>2
    <3>3. k \in 1..k /\ c[k] = a[k]  BY <2>2, <3>2
    <3>4. ASSUME NEW i \in 1..k, IsHeading(a[i]), a[i].of = Home(a[k].of),
                 \A l \in (i + 1)..k : ~IsHeading(a[l])
          PROVE  \E h \in 1..k : /\ IsHeading(c[h]) /\ c[h].of = Home(c[k].of)
                                /\ \A l \in (h + 1)..k : ~IsHeading(c[l])
      <4>1. \A l \in (i + 1)..k : l \in 1..k /\ c[l] = a[l]  BY <3>2
      <4>2. \A l \in (i + 1)..k : ~IsHeading(c[l])  BY <3>4, <4>1
      <4>. QED BY <3>2, <3>3, <3>4, <4>2
    <3>5. ASSUME Stateless(a[k].of), \A l \in 1..k : ~IsHeading(a[l])
          PROVE  Stateless(c[k].of) /\ \A l \in 1..k : ~IsHeading(c[l])
      BY <3>2, <3>3, <3>5
    <3>. QED BY <3>1, <3>4, <3>5
  <2>. QED BY <1>1, <2>1, <2>2
<1>. QED BY <1>6, <1>7 DEF HeadedOrTop, c

\* A row of an agent of no state, above all headings.
LEMMA RowAtTop ==
  ASSUME NEW a \in Seq(Entry), NEW e \in Entry, e.draw = "row", HeadedOrTop(a), Bare(a), Stateless(e.of)
  PROVE  HeadedOrTop(Append(a, e)) /\ Bare(Append(a, e))
<1>. DEFINE c == Append(a, e)
            m == Len(a)
<1>1. /\ Len(c) = m + 1 /\ m \in Nat /\ c[m + 1] = e
      /\ \A k \in 1..m : c[k] = a[k]
  OBVIOUS
<1>. HIDE DEF c, m
<1>2. ~IsHeading(e)  BY DEF IsHeading
<1>3. Bare(c)
  <2>1. \A k \in 1..Len(c) : k = m + 1 \/ k \in 1..m  BY <1>1
  <2>2. \A k \in 1..m : ~IsHeading(a[k])  BY DEF Bare, m
  <2>. QED BY <1>1, <1>2, <2>1, <2>2 DEF Bare
<1>4. ASSUME NEW k \in 1..Len(c), c[k].draw = "row" PROVE Stateless(c[k].of)
  <2>1. CASE k = m + 1  BY <1>1, <2>1
  <2>2. CASE k \in 1..m
    <3>1. c[k] = a[k] /\ a[k].draw = "row"  BY <1>1, <1>4, <2>2
    <3>2. \A j \in 1..k : ~IsHeading(a[j])  BY <1>1, <2>2 DEF Bare, m
    <3>. QED BY <2>2, <3>1, <3>2 DEF HeadedOrTop, m
  <2>. QED BY <1>1, <2>1, <2>2
<1>5. \A k \in 1..Len(c), i \in 1..Len(c) : ~IsHeading(c[i])  BY <1>3 DEF Bare
<1>6. HeadedOrTop(c)
  <2>1. \A k \in 1..Len(c) : \A i \in 1..k : i \in 1..Len(c)  BY <1>1
  <2>. QED BY <1>4, <1>5, <2>1 DEF HeadedOrTop
<1>. QED BY <1>3, <1>6 DEF c

\* A row under its heading is that or above them all.
LEMMA HeadedIsEither ==
  ASSUME NEW s, WellHeaded(s)
  PROVE  HeadedOrTop(s)
  BY DEF WellHeaded, HeadedOrTop

\* No heading twice in two pieces that share none.
LEMMA NoTwiceConcat ==
  ASSUME NEW a \in Seq(Entry), NEW b \in Seq(Entry), NoTwice(a), NoTwice(b),
         Titles(a) \cap Titles(b) = {}
  PROVE  NoTwice(a \o b)
<1>. DEFINE c == a \o b
            m == Len(a)
<1>1. /\ m \in Nat
      /\ \A k \in 1..m : c[k] = a[k]
      /\ \A k \in 1..Len(c) : k \in 1..m \/ (k - m \in 1..Len(b) /\ c[k] = b[k - m])
  OBVIOUS
<1>. HIDE DEF c, m
<1>2. SUFFICES ASSUME NEW j \in 1..Len(c), NEW k \in 1..Len(c),
                      IsHeading(c[j]), IsHeading(c[k]), c[j].of = c[k].of
               PROVE  j = k
  BY DEF NoTwice, c
<1>3. \A i \in 1..m : IsHeading(a[i]) => a[i].of \in Titles(a)  BY DEF Titles, m
<1>4. \A i \in 1..Len(b) : IsHeading(b[i]) => b[i].of \in Titles(b)  BY DEF Titles
<1>5. CASE j \in 1..m /\ k \in 1..m
  BY <1>1, <1>2, <1>5 DEF NoTwice, m
<1>6. CASE j - m \in 1..Len(b) /\ c[j] = b[j - m] /\ k - m \in 1..Len(b) /\ c[k] = b[k - m]
  <2>1. j - m = k - m  BY <1>2, <1>6 DEF NoTwice
  <2>. QED BY <1>1, <2>1
<1>7. CASE j \in 1..m /\ k - m \in 1..Len(b) /\ c[k] = b[k - m]
  BY <1>1, <1>2, <1>3, <1>4, <1>7
<1>8. CASE k \in 1..m /\ j - m \in 1..Len(b) /\ c[j] = b[j - m]
  BY <1>1, <1>2, <1>3, <1>4, <1>8
<1>. QED BY <1>1, <1>5, <1>6, <1>7, <1>8

\* The headings of two pieces.
LEMMA TitlesConcat ==
  ASSUME NEW a \in Seq(Entry), NEW b \in Seq(Entry)
  PROVE  Titles(a \o b) \subseteq Titles(a) \cup Titles(b)
<1>. DEFINE c == a \o b
            m == Len(a)
<1>1. /\ \A k \in 1..m : c[k] = a[k]
      /\ \A k \in 1..Len(c) : k \in 1..m \/ (k - m \in 1..Len(b) /\ c[k] = b[k - m])
  OBVIOUS
<1>. HIDE DEF c, m
<1>2. SUFFICES ASSUME NEW k \in 1..Len(c), IsHeading(c[k]) PROVE c[k].of \in Titles(a) \cup Titles(b)
  BY DEF Titles, c
<1>3. CASE k \in 1..m  BY <1>1, <1>2, <1>3 DEF Titles, m
<1>4. CASE k - m \in 1..Len(b) /\ c[k] = b[k - m]  BY <1>2, <1>4 DEF Titles
<1>. QED BY <1>1, <1>3, <1>4

\* The rows of two pieces.
LEMMA RowsConcat ==
  ASSUME NEW a \in Seq(Entry), NEW b \in Seq(Entry)
  PROVE  RowsOf(a \o b) = RowsOf(a) \o RowsOf(b)
<1>. DEFINE Piece(s) == [k \in 1..Len(s) |-> IF s[k].draw = "row" THEN <<s[k].of>> ELSE <<>>]
<1>1. ASSUME NEW s \in Seq(Entry) PROVE Piece(s) \in Seq(Seq(Shown)) /\ Len(Piece(s)) = Len(s)
  <2>0. \A k \in 1..Len(s) : s[k] \in Entry  OBVIOUS
  <2>1. \A k \in 1..Len(s) : s[k].of \in Shown
    <3>1. \A e \in Entry : e.of \in Shown  BY DEF Entry
    <3>. QED BY <2>0, <3>1
  <2>2. \A k \in 1..Len(s) : (IF s[k].draw = "row" THEN <<s[k].of>> ELSE <<>>) \in Seq(Shown)
    BY <2>1
  <2>. QED BY <2>2
<1>2. Piece(a \o b) = Piece(a) \o Piece(b)
  <2>1. a \o b \in Seq(Entry) /\ Len(a \o b) = Len(a) + Len(b)  OBVIOUS
  <2>2. /\ \A k \in 1..Len(a) : (a \o b)[k] = a[k]
        /\ \A k \in 1..Len(a \o b) : k \notin 1..Len(a) => (a \o b)[k] = b[k - Len(a)]
    OBVIOUS
  <2>3. \A k \in 1..Len(a \o b) : Piece(a \o b)[k] = (Piece(a) \o Piece(b))[k]
    BY <1>1, <2>1, <2>2
  <2>4. Piece(a \o b) \in Seq(Seq(Shown)) /\ Piece(a) \o Piece(b) \in Seq(Seq(Shown))  BY <1>1, <2>1
  <2>5. Len(Piece(a \o b)) = Len(a \o b) /\ Len(Piece(a) \o Piece(b)) = Len(a \o b)  BY <1>1, <2>1
  <2>. HIDE DEF Piece
  <2>. QED BY <2>3, <2>4, <2>5, SameSeq
<1>3. Piece(a) \in Seq(Seq(Shown)) /\ Piece(b) \in Seq(Seq(Shown))  BY <1>1
<1>. QED BY <1>2, <1>3, FlattenConcat DEF RowsOf

\* The entries.
LEMMA Entries ==
  /\ \A x \in AnAgent \cup APlugin : Row(x) \in Entry /\ Row(x).draw = "row" /\ Row(x).of = x
  /\ \A n \in Title : Heading(n) \in Entry /\ Heading(n).draw = "heading" /\ Heading(n).of = n
  /\ Rule \in Entry /\ Rule.draw = "rule" /\ NoneYet \in Entry /\ NoneYet.draw = "none"
<1>1. ASSUME NEW x \in AnAgent \cup APlugin
      PROVE  Row(x) \in Entry /\ Row(x).draw = "row" /\ Row(x).of = x
  <2>1. x \in Shown  BY DEF Shown
  <2>. QED BY <2>1 DEF Entry, Row
<1>2. ASSUME NEW n \in Title
      PROVE  Heading(n) \in Entry /\ Heading(n).draw = "heading" /\ Heading(n).of = n
  <2>1. n \in Shown  BY DEF Shown
  <2>. QED BY <2>1 DEF Entry, Heading
<1>3. Rule \in Entry /\ Rule.draw = "rule" /\ NoneYet \in Entry /\ NoneYet.draw = "none"
  <2>1. "plugins" \in Title /\ "agents" \in Title  BY DEF Title
  <2>2. "plugins" \in Shown /\ "agents" \in Shown  BY <2>1, Zenon DEF Shown
  <2>. QED BY <2>2 DEF Entry, Rule, NoneYet
<1>. QED BY <1>1, <1>2, <1>3

\* Where an agent and a plugin pane belong.
LEMMA Homes ==
  /\ \A x \in AnAgent : Home(x) = StateGroupTitle(x.state)
  /\ \A x \in APlugin : Home(x) = IF x.kind = "agent" THEN "agent plugins" ELSE "plugins"
  BY DEF AnAgent, Agent, APlugin, Plugin, Home

\* One entry.
LEMMA OneEntry ==
  ASSUME NEW e \in Entry
  PROVE  /\ <<e>> \in Seq(Entry) /\ Len(<<e>>) = 1 /\ <<e>>[1] = e
         /\ RowsOf(<<e>>) = IF e.draw = "row" THEN <<e.of>> ELSE <<>>
         /\ e.draw # "row" => WellHeaded(<<e>>)
         /\ NoTwice(<<e>>)
         /\ Titles(<<e>>) = IF e.draw = "heading" THEN {e.of} ELSE {}
<1>1. <<e>> \in Seq(Entry) /\ Len(<<e>>) = 1 /\ <<e>>[1] = e  OBVIOUS
<1>2. e.draw # "row" => WellHeaded(<<e>>)  BY <1>1 DEF WellHeaded
<1>3. NoTwice(<<e>>)  BY <1>1 DEF NoTwice
<1>4. Titles(<<e>>) = IF e.draw = "heading" THEN {e.of} ELSE {}
  BY <1>1 DEF Titles, IsHeading
<1>5. RowsOf(<<e>>) = IF e.draw = "row" THEN <<e.of>> ELSE <<>>
  <2>. DEFINE piece == IF e.draw = "row" THEN <<e.of>> ELSE <<>>
  <2>1. piece \in Seq(Shown)
    <3>1. e.of \in Shown  BY DEF Entry
    <3>. QED BY <3>1
  <2>. HIDE DEF piece
  <2>2. [k \in 1..1 |-> piece] = Append(<<>>, piece) /\ <<>> \in Seq(Seq(Shown))  BY <2>1
  <2>3. FlattenSeq(Append(<<>>, piece)) = piece
    <3>1. <<>> \o piece = piece  BY <2>1
    <3>. QED BY <2>1, <2>2, <3>1, FlattenAppend, FlattenNone
  <2>4. RowsOf(<<e>>) = FlattenSeq([k \in 1..1 |-> piece])
    <3>1. [k \in 1..1 |-> piece] = [k \in 1..Len(<<e>>) |-> IF <<e>>[k].draw = "row" THEN <<<<e>>[k].of>> ELSE <<>>]
      BY <1>1 DEF piece
    <3>. QED BY <3>1 DEF RowsOf
  <2>. QED BY <2>2, <2>3, <2>4 DEF piece
<1>. QED BY <1>1, <1>2, <1>3, <1>4, <1>5

\* Nothing.
LEMMA NoEntry ==
  /\ <<>> \in Seq(Entry) /\ WellHeaded(<<>>) /\ NoTwice(<<>>)
  /\ Titles(<<>>) = {} /\ RowsOf(<<>>) = <<>>
<1>1. <<>> \in Seq(Entry) /\ Len(<<>>) = 0  OBVIOUS
<1>2. RowsOf(<<>>) = <<>>
  <2>1. [k \in 1..Len(<<>>) |-> IF <<>>[k].draw = "row" THEN <<<<>>[k].of>> ELSE <<>>] = <<>>
    BY <1>1
  <2>. QED BY <2>1, FlattenNone DEF RowsOf
<1>. QED BY <1>1, <1>2 DEF WellHeaded, NoTwice, Titles

-----------------------------------------------------------------------------
(* The agents screen: the agents.                                          *)

\* The headings of the agents.
LEMMA StateTitles ==
  \A a \in AnAgent : StateGroupTitle(a.state) \in StateTitle /\ StateGroupTitle(a.state) \in Title
<1>1. \A s \in State : StateGroupTitle(s) \in StateTitle  BY DEF State, StateGroupTitle, StateTitle
<1>2. \A a \in AnAgent : a.state \in State  BY DEF AnAgent, Agent
<1>3. StateTitle \subseteq Title  BY DEF Title
<1>. QED BY <1>1, <1>2, <1>3

\* No agents, no rows.
LEMMA StateRowsNone == StateRows(<<>>) = <<>>
<1>1. \A r : Len(r) = 0 => StateRows(r) = FlattenSeq(<<>>)  BY DEF StateRows
<1>. QED BY <1>1, Len(<<>>) = 0, FlattenNone

\* What one more agent adds.
LEMMA StateRowsAppend ==
  ASSUME NEW r \in Seq(AnAgent), NEW a \in AnAgent
  PROVE  StateRows(Append(r, a)) =
            StateRows(r) \o (IF a.state # LastState(r, Len(r) + 1)
                             THEN <<Heading(StateGroupTitle(a.state)), Row(a)>> ELSE <<Row(a)>>)
<1>. DEFINE q == Append(r, a)
            n == Len(r)
            Piece(s, k) == IF s[k].state # LastState(s, k)
                           THEN <<Heading(StateGroupTitle(s[k].state)), Row(s[k])>> ELSE <<Row(s[k])>>
            last == IF a.state # LastState(r, n + 1)
                    THEN <<Heading(StateGroupTitle(a.state)), Row(a)>> ELSE <<Row(a)>>
<1>1. q \in Seq(AnAgent) /\ Len(q) = n + 1 /\ n \in Nat /\ q[n + 1] = a /\ \A k \in 1..n : q[k] = r[k]
  OBVIOUS
<1>2. ASSUME NEW s \in Seq(AnAgent), NEW k \in 1..Len(s) PROVE Piece(s, k) \in Seq(Entry)
  <2>1. s[k] \in AnAgent  OBVIOUS
  <2>2. StateGroupTitle(s[k].state) \in Title  BY <2>1, StateTitles
  <2>3. Row(s[k]) \in Entry /\ Heading(StateGroupTitle(s[k].state)) \in Entry
    BY <2>1, <2>2, Entries
  <2>. QED BY <2>3
<1>. HIDE DEF q
<1>3. Piece(q, n + 1) = last
  <2>1. LastState(q, n + 1) = LastState(r, n + 1)  BY <1>1 DEF LastState
  <2>. QED BY <1>1, <2>1
<1>4. \A k \in 1..n : Piece(q, k) = Piece(r, k)
  <2>1. \A k \in 1..n : q[k] = r[k] /\ (k # 1 => q[k - 1] = r[k - 1])  BY <1>1
  <2>2. \A k \in 1..n : LastState(q, k) = LastState(r, k)  BY <2>1 DEF LastState
  <2>. QED BY <2>1, <2>2
<1>5. last \in Seq(Entry)
  <2>. HIDE DEF Piece, last
  <2>1. n + 1 \in 1..Len(q)  BY <1>1
  <2>. QED BY <1>1, <1>2, <1>3, <2>1
<1>6. [k \in 1..n |-> Piece(r, k)] \in Seq(Seq(Entry))  BY <1>2
<1>7. /\ StateRows(q) = FlattenSeq([k \in 1..Len(q) |-> Piece(q, k)])
      /\ StateRows(r) = FlattenSeq([k \in 1..n |-> Piece(r, k)])
  BY DEF StateRows
<1>. HIDE DEF Piece, last
<1>8. [k \in 1..Len(q) |-> Piece(q, k)] = Append([k \in 1..n |-> Piece(r, k)], last)
  BY <1>1, <1>3, <1>4, <1>5, <1>6
<1>9. StateRows(q) = StateRows(r) \o last  BY <1>5, <1>6, <1>7, <1>8, FlattenAppend
<1>. QED BY <1>9 DEF q, last

\* The agents, under their headings or at the top.
LEMMA StateRowsRead ==
  ASSUME NEW r \in Seq(AnAgent)
  PROVE  /\ StateRows(r) \in Seq(Entry) /\ HeadedOrTop(StateRows(r)) /\ RowsOf(StateRows(r)) = r
         /\ Titles(StateRows(r)) \subseteq {StateGroupTitle(r[k].state) : k \in 1..Len(r)}
<1>. DEFINE Read(q) ==
              /\ StateRows(q) \in Seq(Entry) /\ HeadedOrTop(StateRows(q)) /\ RowsOf(StateRows(q)) = q
              /\ Titles(StateRows(q)) \subseteq {StateGroupTitle(q[k].state) : k \in 1..Len(q)}
              /\ \/ Len(q) # 0 /\ Under(StateRows(q), StateGroupTitle(q[Len(q)].state))
                 \/ LastState(q, Len(q) + 1) = NoState /\ Bare(StateRows(q))
            T == {q \in Seq(AnAgent) : Read(q)}
<1>1. <<>> \in T
  <2>1. <<>> \in Seq(AnAgent) /\ Len(<<>>) = 0  OBVIOUS
  <2>2. LastState(<<>>, Len(<<>>) + 1) = NoState  BY <2>1 DEF LastState
  <2>3. HeadedOrTop(<<>>) /\ Bare(<<>>)  BY <2>1 DEF HeadedOrTop, Bare
  <2>. QED BY <2>1, <2>2, <2>3, StateRowsNone, NoEntry
<1>2. ASSUME NEW q \in Seq(AnAgent), NEW a \in AnAgent, q \in T PROVE Append(q, a) \in T
  <2>. DEFINE s == StateRows(q)
              h == Heading(StateGroupTitle(a.state))
              e == Row(a)
              p == Append(q, a)
              n == Len(q)
  <2>1. Read(q)  BY <1>2
  <2>2. s \in Seq(Entry) /\ HeadedOrTop(s) /\ RowsOf(s) = q  BY <2>1
  <2>3. /\ p \in Seq(AnAgent) /\ Len(p) = n + 1 /\ p[n + 1] = a /\ n \in Nat
        /\ \A k \in 1..n : p[k] = q[k] /\ q[k] \in AnAgent
    OBVIOUS
  <2>4. /\ h \in Entry /\ h.draw = "heading" /\ h.of = StateGroupTitle(a.state)
        /\ e \in Entry /\ e.draw = "row" /\ e.of = a /\ Home(a) = StateGroupTitle(a.state)
    <3>1. StateGroupTitle(a.state) \in Title /\ a \in AnAgent \cup APlugin  BY StateTitles
    <3>. QED BY <3>1, Entries, Homes
  <2>5. p = q \o <<a>>  OBVIOUS
  <2>6. StateRows(p) = s \o (IF a.state # LastState(q, n + 1) THEN <<h, e>> ELSE <<e>>)
    BY StateRowsAppend
  <2>7. {StateGroupTitle(q[k].state) : k \in 1..n} \cup {StateGroupTitle(a.state)}
           \subseteq {StateGroupTitle(p[k].state) : k \in 1..Len(p)}
    BY <2>3
  <2>8. Titles(s) \subseteq {StateGroupTitle(q[k].state) : k \in 1..n}  BY <2>1
  <2>9. \/ n # 0 /\ Under(s, StateGroupTitle(q[n].state))
        \/ LastState(q, n + 1) = NoState /\ Bare(s)
    BY <2>1
  <2>14. LastState(p, Len(p) + 1) = a.state  BY <2>3 DEF LastState
  <2>15. a.state = NoState => Stateless(a)  BY DEF Stateless, AnAgent, Agent
  <2>. HIDE DEF Read, s, h, e, p
  <2>10. ASSUME NEW z \in Seq(Entry), HeadedOrTop(z), RowsOf(z) = q,
                Under(z, StateGroupTitle(a.state)) \/ (a.state = NoState /\ Bare(z)),
                Titles(z) \subseteq {StateGroupTitle(p[k].state) : k \in 1..Len(p)},
                StateRows(p) = Append(z, e)
         PROVE  Read(p)
    <3>1. Append(z, e) = z \o <<e>> /\ Append(z, e) \in Seq(Entry)  BY <2>4
    <3>2. <<e>> \in Seq(Entry) /\ RowsOf(<<e>>) = <<a>> /\ Titles(<<e>>) = {}  BY <2>4, OneEntry
    <3>3. RowsOf(Append(z, e)) = p  BY <2>5, <2>10, <3>1, <3>2, RowsConcat
    <3>4. Titles(Append(z, e)) \subseteq {StateGroupTitle(p[k].state) : k \in 1..Len(p)}
      <4>1. Titles(Append(z, e)) \subseteq Titles(z) \cup {}  BY <3>1, <3>2, TitlesConcat
      <4>. QED BY <2>10, <4>1
    <3>5. /\ HeadedOrTop(Append(z, e))
          /\ Under(Append(z, e), StateGroupTitle(a.state)) \/ (a.state = NoState /\ Bare(Append(z, e)))
      <4>1. CASE Under(z, StateGroupTitle(a.state))  BY <2>4, <2>10, <4>1, RowUnder
      <4>2. CASE a.state = NoState /\ Bare(z)  BY <2>4, <2>10, <2>15, <4>2, RowAtTop
      <4>. QED BY <2>10, <4>1, <4>2
    <3>6. p[Len(p)] = a /\ Len(p) # 0  BY <2>3
    <3>. QED BY <2>10, <2>14, <3>1, <3>3, <3>4, <3>5, <3>6 DEF Read
  <2>11. ASSUME a.state # LastState(q, n + 1) PROVE Read(p)
    <3>. DEFINE z == Append(s, h)
    <3>1. StateRows(p) = Append(z, e) /\ z \in Seq(Entry)
      <4>1. StateRows(p) = s \o <<h, e>>  BY <2>6, <2>11
      <4>2. s \o <<h, e>> = Append(z, e)  BY <2>2, <2>4
      <4>. QED BY <2>2, <2>4, <4>1, <4>2
    <3>2. z = s \o <<h>>  BY <2>2, <2>4
    <3>3. /\ <<h>> \in Seq(Entry) /\ RowsOf(<<h>>) = <<>> /\ WellHeaded(<<h>>)
          /\ Titles(<<h>>) = {StateGroupTitle(a.state)}
      BY <2>4, OneEntry
    <3>4. HeadedOrTop(z)  BY <2>2, <3>2, <3>3, HeadedConcat
    <3>5. RowsOf(z) = q
      <4>1. RowsOf(z) = q \o <<>>  BY <2>2, <3>2, <3>3, RowsConcat
      <4>. QED BY <4>1
    <3>6. Titles(z) \subseteq Titles(s) \cup {StateGroupTitle(a.state)}  BY <2>2, <3>2, <3>3, TitlesConcat
    <3>7. Titles(z) \subseteq {StateGroupTitle(p[k].state) : k \in 1..Len(p)}  BY <2>7, <2>8, <3>6
    <3>8. Under(z, StateGroupTitle(a.state))
      <4>1. Len(z) = Len(s) + 1 /\ Len(s) \in Nat /\ z[Len(s) + 1] = h  BY <2>2, <2>4
      <4>2. Len(z) \in 1..Len(z) /\ IsHeading(z[Len(z)]) /\ z[Len(z)].of = StateGroupTitle(a.state)
        BY <2>4, <4>1 DEF IsHeading
      <4>. HIDE DEF z
      <4>. QED BY <4>1, <4>2 DEF Under
    <3>. HIDE DEF z
    <3>. QED BY <2>10, <3>1, <3>4, <3>5, <3>7, <3>8
  <2>12. ASSUME a.state = LastState(q, n + 1) PROVE Read(p)
    <3>1. StateRows(p) = Append(s, e)
      <4>1. StateRows(p) = s \o <<e>>  BY <2>6, <2>12
      <4>. QED BY <2>2, <2>4, <4>1
    <3>2. Under(s, StateGroupTitle(a.state)) \/ (a.state = NoState /\ Bare(s))
      <4>1. n # 0 => LastState(q, n + 1) = q[n].state  BY <2>3 DEF LastState
      <4>. QED BY <2>9, <2>12, <4>1
    <3>3. Titles(s) \subseteq {StateGroupTitle(p[k].state) : k \in 1..Len(p)}  BY <2>7, <2>8
    <3>. QED BY <2>2, <2>10, <3>1, <3>2, <3>3
  <2>13. Read(p)  BY <2>11, <2>12
  <2>. QED BY <2>3, <2>13 DEF p
<1>3. Seq(AnAgent) \subseteq T
  <2>. HIDE DEF T
  <2>. QED BY <1>1, <1>2, SeqInduct
<1>. QED BY <1>3

\* Groups, of the agents one by one.
LEMMA Grouped ==
  ASSUME NEW r \in Seq(AnAgent), Groups(ToSet(r)), NEW j \in 1..Len(r), NEW k \in 1..Len(r)
  PROVE  /\ ~r[j].seen => r[j].state \in {"idle", "blocked"}
         /\ StateGroupTitle(r[j].state) = StateGroupTitle(r[k].state) => r[j].state = r[k].state
<1>1. r[j] \in ToSet(r) /\ r[k] \in ToSet(r)  BY DEF ToSet
<1>. QED BY <1>1 DEF Groups

\* In the order of the roster an agent between two of one heading is of their state.
LEMMA Between ==
  ASSUME NEW r \in Seq(AnAgent), Groups(ToSet(r)),
         \A j, k \in 1..Len(r) : j < k => Before(r[j], r[k]),
         NEW i \in 1..Len(r), NEW j \in 1..Len(r), NEW k \in 1..Len(r), i <= j, j < k,
         StateGroupTitle(r[i].state) = StateGroupTitle(r[k].state)
  PROVE  r[j].state = r[k].state
<1>1. r[i] \in AnAgent /\ r[j] \in AnAgent /\ r[k] \in AnAgent  OBVIOUS
<1>2. GroupRank(r[i]) \in Nat /\ GroupRank(r[j]) \in Nat /\ GroupRank(r[k]) \in Nat
  BY <1>1, Ranked
<1>3. GroupRank(r[i]) <= GroupRank(r[j]) /\ GroupRank(r[j]) <= GroupRank(r[k])
  <2>1. Before(r[j], r[k])  OBVIOUS
  <2>2. i = j \/ Before(r[i], r[j])  OBVIOUS
  <2>. QED BY <1>2, <2>1, <2>2 DEF Before
<1>4. ASSUME NEW x \in {i, j, k}
      PROVE  /\ r[x].state \in State /\ r[x].seen \in BOOLEAN
             /\ ~r[x].seen => r[x].state \in {"idle", "blocked"}
             /\ GroupRank(r[x]) = CASE r[x].state = "blocked" -> 0 [] r[x].state = "working" -> 1
                                    [] r[x].state = "idle" -> (IF r[x].seen THEN 3 ELSE 2)
                                    [] OTHER -> 4
  <2>1. r[x].state \in State /\ r[x].seen \in BOOLEAN  BY <1>1 DEF AnAgent, Agent
  <2>2. ~r[x].seen => r[x].state \in {"idle", "blocked"}  BY Grouped
  <2>. QED BY <2>1, <2>2 DEF GroupRank, State
<1>5. /\ r[i].state = r[k].state
      /\ StateGroupTitle(r[j].state) = StateGroupTitle(r[k].state) => r[j].state = r[k].state
  BY Grouped
<1>. QED BY <1>3, <1>4, <1>5, NoStateApart DEF State, StateGroupTitle

\* No heading of the agents comes twice.
LEMMA StateRowsNoTwice ==
  ASSUME NEW r \in Seq(AnAgent), Groups(ToSet(r)),
         \A j, k \in 1..Len(r) : j < k => Before(r[j], r[k])
  PROVE  NoTwice(StateRows(r))
<1>. DEFINE Sort(q) == \A j, k \in 1..Len(q) : j < k => Before(q[j], q[k])
            T == {q \in Seq(AnAgent) : Groups(ToSet(q)) /\ Sort(q) => NoTwice(StateRows(q))}
<1>1. <<>> \in T
  <2>1. <<>> \in Seq(AnAgent)  OBVIOUS
  <2>. QED BY <2>1, StateRowsNone, NoEntry
<1>2. ASSUME NEW q \in Seq(AnAgent), NEW a \in AnAgent, q \in T PROVE Append(q, a) \in T
  <2>. DEFINE s == StateRows(q)
              h == Heading(StateGroupTitle(a.state))
              e == Row(a)
              p == Append(q, a)
              n == Len(q)
  <2>1. p \in Seq(AnAgent)  OBVIOUS
  <2>2. SUFFICES ASSUME Groups(ToSet(p)), Sort(p) PROVE NoTwice(StateRows(p))
    BY <2>1
  <2>3. /\ Len(p) = n + 1 /\ p[n + 1] = a /\ n \in Nat
        /\ \A k \in 1..n : p[k] = q[k] /\ q[k] \in AnAgent
    OBVIOUS
  <2>4. NoTwice(s)
    <3>1. Sort(q)
      <4>1. \A k \in 1..n : k \in 1..Len(p)  BY <2>3
      <4>. QED BY <2>2, <2>3, <4>1
    <3>2. ToSet(q) \subseteq ToSet(p)
      <4>1. DOMAIN q = 1..n /\ DOMAIN p = 1..(n + 1)  OBVIOUS
      <4>. HIDE DEF p
      <4>. QED BY <2>3, <4>1 DEF ToSet
    <3>3. Groups(ToSet(q))  BY <2>2, <3>2 DEF Groups
    <3>. QED BY <1>2, <3>1, <3>3
  <2>5. /\ h \in Entry /\ h.draw = "heading" /\ h.of = StateGroupTitle(a.state)
        /\ e \in Entry /\ e.draw = "row"
    <3>1. StateGroupTitle(a.state) \in Title /\ a \in AnAgent \cup APlugin  BY StateTitles
    <3>. QED BY <3>1, Entries
  <2>6. StateRows(p) = s \o (IF a.state # LastState(q, n + 1) THEN <<h, e>> ELSE <<e>>)
    BY StateRowsAppend
  <2>7. s \in Seq(Entry) /\ Titles(s) \subseteq {StateGroupTitle(q[k].state) : k \in 1..n}
    BY StateRowsRead
  <2>8. n # 0 /\ a.state # q[n].state => StateGroupTitle(a.state) \notin Titles(s)
    <3>1. SUFFICES ASSUME n # 0, NEW k \in 1..n, StateGroupTitle(q[k].state) = StateGroupTitle(a.state)
                   PROVE  q[n].state = a.state
      BY <2>7
    <3>2. p[k] = q[k] /\ p[n] = q[n] /\ p[n + 1] = a  BY <2>3, <3>1
    <3>3. k \in 1..Len(p) /\ n \in 1..Len(p) /\ n + 1 \in 1..Len(p) /\ k <= n /\ n < n + 1
      BY <2>3, <3>1
    <3>4. \A l, m \in 1..Len(p) : l < m => Before(p[l], p[m])  BY <2>2
    <3>. HIDE DEF p, n
    <3>5. StateGroupTitle(p[k].state) = StateGroupTitle(p[n + 1].state)  BY <3>1, <3>2
    <3>6. p[n].state = p[n + 1].state
      <4>. DEFINE m == n + 1
      <4>. HIDE DEF m
      <4>1. p[n].state = p[m].state
        <5>1. m \in 1..Len(p) /\ n < m /\ StateGroupTitle(p[k].state) = StateGroupTitle(p[m].state)
          BY <3>3, <3>5 DEF m
        <5>. QED BY <2>1, <2>2, <3>3, <3>4, <5>1, Between
      <4>. QED BY <4>1 DEF m
    <3>. QED BY <3>2, <3>6
  <2>13. n # 0 => LastState(q, n + 1) = q[n].state  BY <2>3 DEF LastState
  <2>9. n = 0 => s = <<>>
    <3>1. n = 0 => q = <<>>  OBVIOUS
    <3>. QED BY <3>1, StateRowsNone
  <2>. HIDE DEF s, h, e, p
  <2>10. /\ <<e>> \in Seq(Entry) /\ NoTwice(<<e>>) /\ Titles(<<e>>) = {}
         /\ <<h>> \in Seq(Entry) /\ NoTwice(<<h>>) /\ Titles(<<h>>) = {StateGroupTitle(a.state)}
    BY <2>5, OneEntry
  <2>11. CASE a.state # LastState(q, n + 1)
    <3>0. s \o <<h>> \in Seq(Entry)  BY <2>7, <2>10
    <3>1. NoTwice(s \o <<h>>)
      <4>1. Titles(s) \cap Titles(<<h>>) = {}
        <5>1. CASE n = 0  BY <2>9, <5>1, NoEntry
        <5>2. CASE n # 0  BY <2>8, <2>10, <2>11, <2>13, <5>2
        <5>. QED BY <5>1, <5>2
      <4>. QED BY <2>4, <2>7, <2>10, <4>1, NoTwiceConcat
    <3>2. NoTwice((s \o <<h>>) \o <<e>>)
      <4>1. Titles(s \o <<h>>) \cap Titles(<<e>>) = {}  BY <2>10
      <4>. QED BY <2>10, <3>0, <3>1, <4>1, NoTwiceConcat
    <3>3. (s \o <<h>>) \o <<e>> = s \o <<h, e>>
      <4>1. s \o <<h>> = Append(s, h) /\ Append(s, h) \in Seq(Entry)  BY <2>5, <2>7
      <4>2. Append(s, h) \o <<e>> = Append(Append(s, h), e)  BY <2>5, <4>1
      <4>3. s \o <<h, e>> = Append(Append(s, h), e)  BY <2>5, <2>7
      <4>. QED BY <4>1, <4>2, <4>3
    <3>. QED BY <2>6, <2>11, <3>2, <3>3
  <2>12. CASE a.state = LastState(q, n + 1)
    <3>1. NoTwice(s \o <<e>>)  BY <2>4, <2>7, <2>10, NoTwiceConcat
    <3>. QED BY <2>6, <2>12, <3>1
  <2>. QED BY <2>11, <2>12
<1>3. Seq(AnAgent) \subseteq T
  <2>. HIDE DEF T
  <2>. QED BY <1>1, <1>2, SeqInduct
<1>. QED BY <1>3

-----------------------------------------------------------------------------
(* The agents screen: the plugin panes.                                    *)

\* SplitPlugins: each pane goes to one of the two halves.
LEMMA Split ==
  ASSUME NEW s \in Seq(APlugin)
  PROVE  /\ AgentPlugins(s) \in Seq(APlugin) /\ ToolPlugins(s) \in Seq(APlugin)
         /\ Len(AgentPlugins(s)) + Len(ToolPlugins(s)) = Len(s)
         /\ ToSet(AgentPlugins(s)) = {p \in ToSet(s) : p.kind = "agent"}
         /\ ToSet(ToolPlugins(s)) = {p \in ToSet(s) : p.kind # "agent"}
<1>. DEFINE Halves(q) ==
              /\ AgentPlugins(q) \in Seq(APlugin) /\ ToolPlugins(q) \in Seq(APlugin)
              /\ Len(AgentPlugins(q)) + Len(ToolPlugins(q)) = Len(q)
              /\ ToSet(AgentPlugins(q)) = {p \in ToSet(q) : p.kind = "agent"}
              /\ ToSet(ToolPlugins(q)) = {p \in ToSet(q) : p.kind # "agent"}
            T == {q \in Seq(APlugin) : Halves(q)}
<1>1. <<>> \in T
  <2>1. <<>> \in Seq(APlugin) /\ Len(<<>>) = 0 /\ DOMAIN <<>> = {}  OBVIOUS
  <2>2. \A q : Len(q) = 0 => AgentPlugins(q) = FlattenSeq(<<>>) /\ ToolPlugins(q) = FlattenSeq(<<>>)
    BY DEF AgentPlugins, ToolPlugins
  <2>3. AgentPlugins(<<>>) = <<>> /\ ToolPlugins(<<>>) = <<>>  BY <2>1, <2>2, FlattenNone
  <2>4. ToSet(<<>>) = {}  BY <2>1 DEF ToSet
  <2>5. /\ ToSet(AgentPlugins(<<>>)) = {p \in ToSet(<<>>) : p.kind = "agent"}
        /\ ToSet(ToolPlugins(<<>>)) = {p \in ToSet(<<>>) : p.kind # "agent"}
    BY <2>3, <2>4
  <2>6. Len(AgentPlugins(<<>>)) + Len(ToolPlugins(<<>>)) = Len(<<>>)  BY <2>1, <2>3
  <2>7. AgentPlugins(<<>>) \in Seq(APlugin) /\ ToolPlugins(<<>>) \in Seq(APlugin)  BY <2>1, <2>3
  <2>. QED BY <2>1, <2>5, <2>6, <2>7, Zenon
<1>2. ASSUME NEW q \in Seq(APlugin), NEW x \in APlugin, q \in T PROVE Append(q, x) \in T
  <2>. DEFINE p == Append(q, x)
              n == Len(q)
              A(e) == IF e.kind = "agent" THEN <<e>> ELSE <<>>
              B(e) == IF e.kind = "agent" THEN <<>> ELSE <<e>>
  <2>1. /\ p \in Seq(APlugin) /\ Len(p) = n + 1 /\ p[n + 1] = x /\ n \in Nat
        /\ \A k \in 1..n : p[k] = q[k] /\ q[k] \in APlugin
        /\ DOMAIN q = 1..n /\ DOMAIN p = 1..(n + 1)
    OBVIOUS
  <2>. HIDE DEF p
  <2>2. ToSet(p) = ToSet(q) \cup {x}  BY <2>1 DEF ToSet
  <2>3. \A e \in APlugin : A(e) \in Seq(APlugin) /\ B(e) \in Seq(APlugin)  OBVIOUS
  <2>4. AgentPlugins(p) = AgentPlugins(q) \o A(x) /\ ToolPlugins(p) = ToolPlugins(q) \o B(x)
    <3>1. /\ AgentPlugins(p) = FlattenSeq([k \in 1..Len(p) |-> A(p[k])])
          /\ AgentPlugins(q) = FlattenSeq([k \in 1..n |-> A(q[k])])
          /\ ToolPlugins(p) = FlattenSeq([k \in 1..Len(p) |-> B(p[k])])
          /\ ToolPlugins(q) = FlattenSeq([k \in 1..n |-> B(q[k])])
      BY DEF AgentPlugins, ToolPlugins
    <3>. HIDE DEF A, B
    <3>. DEFINE as == [k \in 1..n |-> A(q[k])]
                bs == [k \in 1..n |-> B(q[k])]
    <3>2. as \in Seq(Seq(APlugin)) /\ bs \in Seq(Seq(APlugin))
      <4>1. \A k \in 1..n : A(q[k]) \in Seq(APlugin) /\ B(q[k]) \in Seq(APlugin)
        BY <2>1, <2>3
      <4>. HIDE DEF n
      <4>2. as \in Seq(Seq(APlugin))  BY <2>1, <4>1
      <4>3. bs \in Seq(Seq(APlugin))  BY <2>1, <4>1
      <4>. QED BY <4>2, <4>3
    <3>3. /\ [k \in 1..Len(p) |-> A(p[k])] = Append(as, A(x))
          /\ [k \in 1..Len(p) |-> B(p[k])] = Append(bs, B(x))
      <4>1. A(x) \in Seq(APlugin) /\ B(x) \in Seq(APlugin)  BY <2>3
      <4>2. [k \in 1..Len(p) |-> A(p[k])] = Append(as, A(x))  BY <2>1, <3>2, <4>1
      <4>3. [k \in 1..Len(p) |-> B(p[k])] = Append(bs, B(x))  BY <2>1, <3>2, <4>1
      <4>. QED BY <4>2, <4>3
    <3>. HIDE DEF as, bs
    <3>4. FlattenSeq(Append(as, A(x))) = FlattenSeq(as) \o A(x)  BY <2>3, <3>2, FlattenAppend
    <3>5. FlattenSeq(Append(bs, B(x))) = FlattenSeq(bs) \o B(x)  BY <2>3, <3>2, FlattenAppend
    <3>. QED BY <3>1, <3>3, <3>4, <3>5 DEF as, bs
  <2>5. Halves(q)  BY <1>2
  <2>6. ASSUME NEW z \in Seq(APlugin)
        PROVE  /\ z \o <<x>> \in Seq(APlugin) /\ Len(z \o <<x>>) = Len(z) + 1
               /\ ToSet(z \o <<x>>) = ToSet(z) \cup {x} /\ z \o <<>> = z
    <3>1. z \o <<>> = z  OBVIOUS
    <3>2. z \o <<x>> \in Seq(APlugin) /\ Len(z \o <<x>>) = Len(z) + 1  OBVIOUS
    <3>3. <<x>> \in Seq(APlugin) /\ ToSet(<<x>>) = {x}  BY DEF ToSet
    <3>4. ToSet(z \o <<x>>) = ToSet(z) \cup ToSet(<<x>>)
      <4>. DEFINE w == <<x>>
      <4>1. w \in Seq(APlugin)  BY <3>3
      <4>. HIDE DEF w
      <4>2. ToSet(z \o w) = ToSet(z) \cup ToSet(w)  BY <4>1, ToSetConcat
      <4>. QED BY <4>2 DEF w
    <3>. QED BY <3>1, <3>2, <3>3, <3>4
  <2>7. CASE x.kind = "agent"
    <3>1. AgentPlugins(p) = AgentPlugins(q) \o <<x>> /\ ToolPlugins(p) = ToolPlugins(q) \o <<>>
      BY <2>4, <2>7
    <3>2. ToolPlugins(p) = ToolPlugins(q)  BY <2>5, <2>6, <3>1
    <3>3. Len(AgentPlugins(p)) = Len(AgentPlugins(q)) + 1 /\ AgentPlugins(p) \in Seq(APlugin)
          /\ ToSet(AgentPlugins(p)) = ToSet(AgentPlugins(q)) \cup {x}
      BY <2>5, <2>6, <3>1
    <3>4. Len(AgentPlugins(q)) \in Nat /\ Len(ToolPlugins(q)) \in Nat  BY <2>5
    <3>5. Halves(p)  BY <2>1, <2>2, <2>5, <2>7, <3>2, <3>3, <3>4
    <3>. QED BY <2>1, <3>5 DEF p
  <2>8. CASE x.kind # "agent"
    <3>1. ToolPlugins(p) = ToolPlugins(q) \o <<x>> /\ AgentPlugins(p) = AgentPlugins(q) \o <<>>
      BY <2>4, <2>8
    <3>2. AgentPlugins(p) = AgentPlugins(q)  BY <2>5, <2>6, <3>1
    <3>3. Len(ToolPlugins(p)) = Len(ToolPlugins(q)) + 1 /\ ToolPlugins(p) \in Seq(APlugin)
          /\ ToSet(ToolPlugins(p)) = ToSet(ToolPlugins(q)) \cup {x}
      BY <2>5, <2>6, <3>1
    <3>4. Len(AgentPlugins(q)) \in Nat /\ Len(ToolPlugins(q)) \in Nat  BY <2>5
    <3>5. Halves(p)  BY <2>1, <2>2, <2>5, <2>8, <3>2, <3>3, <3>4
    <3>. QED BY <2>1, <3>5 DEF p
  <2>. QED BY <2>7, <2>8
<1>3. Seq(APlugin) \subseteq T
  <2>. HIDE DEF T
  <2>. QED BY <1>1, <1>2, SeqInduct
<1>. QED BY <1>3

\* A section of plugin panes: one heading, where they all belong.
LEMMA PluginRowsRead ==
  ASSUME NEW name \in Title, NEW s \in Seq(APlugin), \A p \in ToSet(s) : Home(p) = name
  PROVE  /\ PluginRows(name, s) \in Seq(Entry) /\ WellHeaded(PluginRows(name, s))
         /\ RowsOf(PluginRows(name, s)) = s /\ NoTwice(PluginRows(name, s))
         /\ Titles(PluginRows(name, s)) \subseteq {name}
<1>. DEFINE Piece(q, k) == IF k > 1 /\ q[k].plugin # q[k - 1].plugin THEN <<Rule, Row(q[k])>> ELSE <<Row(q[k])>>
            Body(q) == FlattenSeq([k \in 1..Len(q) |-> Piece(q, k)])
            Plain(q) == /\ Body(q) \in Seq(Entry) /\ RowsOf(Body(q)) = q
                        /\ \A k \in 1..Len(Body(q)) :
                              /\ ~IsHeading(Body(q)[k])
                              /\ Body(q)[k].draw = "row" => Body(q)[k].of \in ToSet(q)
            T == {q \in Seq(APlugin) : Plain(q)}
<1>1. <<>> \in T
  <2>1. <<>> \in Seq(APlugin) /\ Len(<<>>) = 0  OBVIOUS
  <2>2. \A q : Len(q) = 0 => Body(q) = FlattenSeq(<<>>)  OBVIOUS
  <2>3. Body(<<>>) = <<>>  BY <2>1, <2>2, FlattenNone
  <2>. HIDE DEF Body
  <2>4. \A k \in 1..Len(Body(<<>>)) : FALSE  BY <2>1, <2>3
  <2>5. Body(<<>>) \in Seq(Entry) /\ RowsOf(Body(<<>>)) = <<>>  BY <2>3, NoEntry
  <2>6. Plain(<<>>)  BY <2>4, <2>5, Zenon
  <2>. QED BY <2>1, <2>6
<1>2. ASSUME NEW q \in Seq(APlugin), NEW x \in APlugin, q \in T PROVE Append(q, x) \in T
  <2>. DEFINE p == Append(q, x)
              n == Len(q)
              b == Body(q)
              last == IF n > 0 /\ x.plugin # q[n].plugin THEN <<Rule, Row(x)>> ELSE <<Row(x)>>
  <2>1. /\ p \in Seq(APlugin) /\ Len(p) = n + 1 /\ p[n + 1] = x /\ n \in Nat
        /\ \A k \in 1..n : p[k] = q[k] /\ q[k] \in APlugin
    OBVIOUS
  <2>2. p = q \o <<x>> /\ <<x>> \in Seq(APlugin) /\ ToSet(<<x>>) = {x}  BY DEF ToSet
  <2>3. Plain(q)  BY <1>2
  <2>. HIDE DEF p
  <2>4. ToSet(q) \subseteq ToSet(p) /\ x \in ToSet(p)
    <3>1. ToSet(p) = ToSet(q) \cup ToSet(<<x>>)
      <4>. DEFINE w == <<x>>
      <4>1. w \in Seq(APlugin)  BY <2>2
      <4>. HIDE DEF w
      <4>2. ToSet(q \o w) = ToSet(q) \cup ToSet(w)  BY <4>1, ToSetConcat
      <4>. QED BY <2>2, <4>2 DEF w
    <3>. QED BY <2>2, <3>1
  <2>5. Rule \in Entry /\ Rule.draw = "rule" /\ Row(x) \in Entry /\ Row(x).draw = "row" /\ Row(x).of = x
    <3>1. x \in AnAgent \cup APlugin  OBVIOUS
    <3>. QED BY <3>1, Entries
  <2>6. Body(p) = b \o last
    <3>1. \A y \in APlugin : Row(y) \in Entry /\ Rule \in Entry
      <4>1. \A y \in APlugin : y \in AnAgent \cup APlugin  OBVIOUS
      <4>. QED BY <4>1, Entries
    <3>2. \A k \in 1..n : Piece(q, k) \in Seq(Entry)  BY <2>1, <3>1
    <3>3. \A k \in 1..n : Piece(p, k) = Piece(q, k)
      <4>1. \A k \in 1..n : p[k] = q[k] /\ (k > 1 => p[k - 1] = q[k - 1])  BY <2>1
      <4>. QED BY <4>1
    <3>4. Piece(p, n + 1) = last  BY <2>1
    <3>5. last \in Seq(Entry)  BY <2>5
    <3>. DEFINE ps == [k \in 1..n |-> Piece(q, k)]
    <3>. HIDE DEF Piece, last
    <3>6. ps \in Seq(Seq(Entry))  BY <2>1, <3>2
    <3>7. [k \in 1..Len(p) |-> Piece(p, k)] = Append(ps, last)  BY <2>1, <3>3, <3>4, <3>5, <3>6
    <3>. HIDE DEF ps
    <3>8. FlattenSeq(Append(ps, last)) = FlattenSeq(ps) \o last  BY <3>5, <3>6, FlattenAppend
    <3>. QED BY <3>7, <3>8 DEF ps
  <2>. HIDE DEF Body
  <2>7. b \in Seq(Entry) /\ RowsOf(b) = q  BY <2>3
  <2>8. /\ <<Rule>> \in Seq(Entry) /\ RowsOf(<<Rule>>) = <<>>
        /\ <<Row(x)>> \in Seq(Entry) /\ RowsOf(<<Row(x)>>) = <<x>>
    BY <2>5, OneEntry
  <2>9. last \in Seq(Entry) /\ RowsOf(last) = <<x>>
    <3>1. CASE last = <<Row(x)>>  BY <2>8, <3>1
    <3>2. CASE last = <<Rule, Row(x)>>
      <4>. DEFINE u == <<Rule>>
                  v == <<Row(x)>>
      <4>1. u \in Seq(Entry) /\ v \in Seq(Entry) /\ RowsOf(u) = <<>> /\ RowsOf(v) = <<x>>  BY <2>8
      <4>2. <<Rule, Row(x)>> = u \o v  BY <2>5, <2>8, Joins
      <4>. HIDE DEF u, v
      <4>3. RowsOf(u \o v) = <<>> \o <<x>> /\ u \o v \in Seq(Entry)  BY <4>1, RowsConcat
      <4>4. <<>> \o <<x>> = <<x>>  BY <2>2
      <4>. QED BY <3>2, <4>2, <4>3, <4>4
    <3>. QED BY <3>1, <3>2
  <2>10. \A k \in 1..Len(last) : last[k] = Row(x) \/ last[k] = Rule  OBVIOUS
  <2>. HIDE DEF b, last
  <2>11. Body(p) \in Seq(Entry) /\ RowsOf(Body(p)) = p
    <3>1. b \o last \in Seq(Entry)  BY <2>7, <2>9
    <3>2. RowsOf(b \o last) = RowsOf(b) \o RowsOf(last)  BY <2>7, <2>9, RowsConcat
    <3>. QED BY <2>2, <2>6, <2>7, <2>9, <3>1, <3>2
  <2>12. ASSUME NEW k \in 1..Len(Body(p))
         PROVE  ~IsHeading(Body(p)[k]) /\ (Body(p)[k].draw = "row" => Body(p)[k].of \in ToSet(p))
    <3>1. CASE k \in 1..Len(b)
      <4>1. Body(p)[k] = b[k]  BY <2>6, <2>7, <2>9, <3>1
      <4>. QED BY <2>3, <2>4, <3>1, <4>1 DEF b
    <3>2. CASE k \notin 1..Len(b)
      <4>1. k - Len(b) \in 1..Len(last) /\ Body(p)[k] = last[k - Len(b)]
        BY <2>6, <2>7, <2>9, <2>12, <3>2
      <4>2. Body(p)[k] = Row(x) \/ Body(p)[k] = Rule  BY <2>10, <4>1
      <4>. QED BY <2>4, <2>5, <4>2 DEF IsHeading
    <3>. QED BY <3>1, <3>2
  <2>13. Plain(p)  BY <2>11, <2>12
  <2>. QED BY <2>1, <2>13 DEF p
<1>3. Seq(APlugin) \subseteq T
  <2>. HIDE DEF T
  <2>. QED BY <1>1, <1>2, SeqInduct
<1>4. Plain(s)  BY <1>3
<1>. DEFINE h == Heading(name)
            b == Body(s)
            r == PluginRows(name, s)
<1>5. CASE s = <<>>
  <2>1. r = <<>>  BY <1>5 DEF PluginRows
  <2>. QED BY <1>5, <2>1, NoEntry
<1>6. CASE s # <<>>
  <2>1. r = <<h>> \o b  BY <1>6 DEF PluginRows
  <2>2. h \in Entry /\ h.draw = "heading" /\ h.of = name  BY Entries
  <2>. HIDE DEF Body, r, h
  <2>3. /\ b \in Seq(Entry) /\ RowsOf(b) = s
        /\ \A k \in 1..Len(b) : ~IsHeading(b[k]) /\ (b[k].draw = "row" => b[k].of \in ToSet(s))
    BY <1>4
  <2>. HIDE DEF b
  <2>4. /\ <<h>> \in Seq(Entry) /\ RowsOf(<<h>>) = <<>>  BY <2>2, OneEntry
  <2>5. RowsOf(r) = s /\ r \in Seq(Entry)
    <3>. DEFINE w == <<h>>
    <3>1. w \in Seq(Entry) /\ RowsOf(w) = <<>> /\ r = w \o b  BY <2>1, <2>4
    <3>. HIDE DEF w
    <3>2. r \in Seq(Entry)  BY <2>3, <3>1
    <3>3. RowsOf(w \o b) = RowsOf(w) \o RowsOf(b)  BY <2>3, <3>1, RowsConcat
    <3>4. <<>> \o s = s  OBVIOUS
    <3>. QED BY <2>3, <3>1, <3>2, <3>3, <3>4
  <2>6. /\ Len(r) = Len(b) + 1 /\ Len(b) \in Nat /\ r[1] = h
        /\ \A k \in 1..Len(r) : k # 1 => k - 1 \in 1..Len(b) /\ r[k] = b[k - 1]
    BY <2>1, <2>2, <2>3
  <2>7. IsHeading(r[1]) /\ r[1].of = name /\ \A k \in 1..Len(r) : k # 1 => ~IsHeading(r[k])
    BY <2>2, <2>3, <2>6 DEF IsHeading
  <2>8. NoTwice(r)  BY <2>7 DEF NoTwice
  <2>9. Titles(r) \subseteq {name}  BY <2>7 DEF Titles
  <2>10. WellHeaded(r)
    <3>1. SUFFICES ASSUME NEW k \in 1..Len(r), r[k].draw = "row"
                   PROVE  IsHeading(r[1]) /\ r[1].of = Home(r[k].of) /\ 1 \in 1..k
                          /\ \A i \in 2..k : ~IsHeading(r[i])
      BY DEF WellHeaded
    <3>2. k # 1  BY <2>2, <2>6, <3>1
    <3>3. r[k].of \in ToSet(s)  BY <2>3, <2>6, <3>1, <3>2
    <3>4. \A i \in 2..k : i \in 1..Len(r) /\ i # 1  BY <2>6, <3>1
    <3>. QED BY <2>7, <3>1, <3>3, <3>4
  <2>. QED BY <2>5, <2>8, <2>9, <2>10 DEF r
<1>. QED BY <1>5, <1>6

-----------------------------------------------------------------------------
(* The agents screen.                                                      *)

\* The heading above a row is the one it belongs to, if there is any.
LEMMA AboveIsHome ==
  ASSUME NEW s \in Seq(Entry), HeadedOrTop(s), NEW k \in 1..Len(s), s[k].draw = "row"
  PROVE  IF \E j \in 1..k : IsHeading(s[j]) THEN Above(s, k) = Home(s[k].of) ELSE Stateless(s[k].of)
<1>. DEFINE Nearest(j) == IsHeading(s[j]) /\ \A i \in (j + 1)..k : ~IsHeading(s[i])
<1>5. CASE \A i \in 1..k : ~IsHeading(s[i])  BY <1>5 DEF HeadedOrTop
<1>6. SUFFICES ASSUME ~\A i \in 1..k : ~IsHeading(s[i])
               PROVE  Above(s, k) = Home(s[k].of)
  BY <1>5
<1>1. PICK j \in 1..k : Nearest(j) /\ s[j].of = Home(s[k].of)  BY <1>6 DEF HeadedOrTop
<1>2. \A i \in 1..k : Nearest(i) => i = j
  <2>1. SUFFICES ASSUME NEW i \in 1..k, Nearest(i), i # j PROVE FALSE  OBVIOUS
  <2>2. k \in Nat  OBVIOUS
  <2>3. i \in (j + 1)..k \/ j \in (i + 1)..k  BY <2>1, <2>2
  <2>. QED BY <1>1, <2>1, <2>3
<1>3. Above(s, k) = s[CHOOSE i \in 1..k : Nearest(i)].of  BY Zenon DEF Above
<1>. HIDE DEF Nearest
<1>4. (CHOOSE i \in 1..k : Nearest(i)) = j  BY <1>1, <1>2
<1>. QED BY <1>1, <1>3, <1>4

\* UnderItsOwnHeading holds of every rollup.
LEMMA RosterUnderItsOwnHeading ==
  ASSUME agents \in Seq(AnAgent), OwnPubs(agents), plugins \in Seq(APlugin)
  PROVE  UnderItsOwnHeading
<1>. DEFINE none == IF agents = <<>> /\ AgentPlugins(plugins) = <<>> THEN <<NoneYet>> ELSE <<>>
            r  == Roster(agents)
            st == StateRows(r)
            ap == AgentPlugins(plugins)
            tp == ToolPlugins(plugins)
            pa == PluginRows("agent plugins", ap)
            pt == PluginRows("plugins", tp)
            s  == AgentsScreen(agents, plugins)
<1>1. s = ((none \o st) \o pa) \o pt  BY DEF AgentsScreen
<1>2. InOrder(r, agents)  BY RosterInOrder
<1>3. /\ ap \in Seq(APlugin) /\ tp \in Seq(APlugin) /\ Len(ap) + Len(tp) = Len(plugins)
      /\ ToSet(ap) = {p \in ToSet(plugins) : p.kind = "agent"}
      /\ ToSet(tp) = {p \in ToSet(plugins) : p.kind # "agent"}
  BY Split
<1>. HIDE DEF r, ap, tp
<1>4. none \in Seq(Entry) /\ WellHeaded(none) /\ RowsOf(none) = <<>> /\ NoTwice(none) /\ Titles(none) = {}
  <2>1. NoneYet \in Entry /\ NoneYet.draw = "none"  BY Entries
  <2>. DEFINE w == <<NoneYet>>
  <2>2. w \in Seq(Entry) /\ WellHeaded(w) /\ RowsOf(w) = <<>> /\ NoTwice(w) /\ Titles(w) = {}
    BY <2>1, OneEntry
  <2>3. none = w \/ none = <<>>  OBVIOUS
  <2>. HIDE DEF w, none
  <2>. QED BY <2>2, <2>3, NoEntry
<1>5. r \in Seq(AnAgent) /\ Len(r) = Len(agents) /\ ToSet(r) = ToSet(agents)
  BY <1>2 DEF InOrder
<1>6. /\ st \in Seq(Entry) /\ HeadedOrTop(st) /\ RowsOf(st) = r
      /\ Titles(st) \subseteq {StateGroupTitle(r[k].state) : k \in 1..Len(r)}
  BY <1>5, StateRowsRead
<1>7. Titles(st) \subseteq StateTitle
  <2>1. \A k \in 1..Len(r) : StateGroupTitle(r[k].state) \in StateTitle
    <3>1. \A k \in 1..Len(r) : r[k] \in AnAgent  BY <1>5
    <3>. QED BY <3>1, StateTitles
  <2>. QED BY <1>6, <2>1
<1>8. Groups(ToSet(agents)) => NoTwice(st)
  <2>1. SUFFICES ASSUME Groups(ToSet(agents)) PROVE NoTwice(st)  OBVIOUS
  <2>2. \A j, k \in 1..Len(r) : j < k => Before(r[j], r[k])  BY <1>2 DEF InOrder
  <2>. QED BY <1>5, <2>1, <2>2, StateRowsNoTwice
<1>9. /\ pa \in Seq(Entry) /\ WellHeaded(pa) /\ RowsOf(pa) = ap /\ NoTwice(pa)
      /\ Titles(pa) \subseteq {"agent plugins"}
  <2>1. \A p \in ToSet(ap) : p \in APlugin  BY <1>3 DEF ToSet
  <2>2. \A p \in ToSet(ap) : p.kind = "agent"  BY <1>3
  <2>3. \A p \in ToSet(ap) : Home(p) = "agent plugins"  BY <2>1, <2>2, Homes
  <2>4. "agent plugins" \in Title  BY DEF Title
  <2>. QED BY <1>3, <2>3, <2>4, PluginRowsRead
<1>10. /\ pt \in Seq(Entry) /\ WellHeaded(pt) /\ RowsOf(pt) = tp /\ NoTwice(pt)
       /\ Titles(pt) \subseteq {"plugins"}
  <2>1. \A p \in ToSet(tp) : p \in APlugin  BY <1>3 DEF ToSet
  <2>2. \A p \in ToSet(tp) : p.kind # "agent"  BY <1>3
  <2>3. \A p \in ToSet(tp) : Home(p) = "plugins"  BY <2>1, <2>2, Homes
  <2>4. "plugins" \in Title  BY DEF Title
  <2>. QED BY <1>3, <2>3, <2>4, PluginRowsRead
<1>30. none = <<>> \/ st = <<>>
  <2>1. agents # <<>> => none = <<>>  OBVIOUS
  <2>2. agents = <<>> => r = <<>>  BY <1>5
  <2>. QED BY <2>1, <2>2, StateRowsNone
<1>. DEFINE a == none \o st
            b == a \o pa
<1>. HIDE DEF none, st, pa, pt, s
<1>11. a \in Seq(Entry)  BY <1>4, <1>6
<1>12. HeadedOrTop(a)
  <2>1. a = none \/ a = st  BY <1>4, <1>6, <1>30
  <2>2. HeadedOrTop(none)  BY <1>4, HeadedIsEither
  <2>. HIDE DEF a
  <2>. QED BY <1>6, <2>1, <2>2
<1>13. RowsOf(a) = r
  <2>1. RowsOf(a) = RowsOf(none) \o RowsOf(st)  BY <1>4, <1>6, RowsConcat
  <2>2. <<>> \o r = r  BY <1>5
  <2>. QED BY <1>4, <1>6, <2>1, <2>2
<1>14. Titles(a) \subseteq StateTitle
  <2>1. Titles(a) \subseteq Titles(none) \cup Titles(st)  BY <1>4, <1>6, TitlesConcat
  <2>. QED BY <1>4, <1>7, <2>1
<1>15. Groups(ToSet(agents)) => NoTwice(a)  BY <1>4, <1>6, <1>8, NoTwiceConcat
<1>. HIDE DEF a
<1>16. b \in Seq(Entry)
  <2>1. pa \in Seq(Entry)  BY <1>9
  <2>. QED BY <1>11, <2>1
<1>17. HeadedOrTop(b)  BY <1>9, <1>11, <1>12, HeadedConcat
<1>18. RowsOf(b) = r \o ap  BY <1>9, <1>11, <1>13, RowsConcat
<1>19. Titles(b) \subseteq StateTitle \cup {"agent plugins"}
  <2>1. Titles(b) \subseteq Titles(a) \cup Titles(pa)  BY <1>9, <1>11, TitlesConcat
  <2>. QED BY <1>9, <1>14, <2>1
<1>20. Groups(ToSet(agents)) => NoTwice(b)
  <2>1. Titles(a) \cap Titles(pa) = {}  BY <1>9, <1>14 DEF StateTitle
  <2>. QED BY <1>9, <1>11, <1>15, <2>1, NoTwiceConcat
<1>. HIDE DEF b
<1>21. s = b \o pt /\ s \in Seq(Entry)  BY <1>1, <1>10, <1>16 DEF a, b
<1>22. HeadedOrTop(s)  BY <1>10, <1>16, <1>17, <1>21, HeadedConcat
<1>23. RowsOf(s) = (r \o ap) \o tp
  <2>1. RowsOf(b \o pt) = RowsOf(b) \o RowsOf(pt)  BY <1>10, <1>16, RowsConcat
  <2>. QED BY <1>10, <1>18, <1>21, <2>1
<1>24. Groups(ToSet(agents)) => NoTwice(s)
  <2>1. Titles(b) \cap Titles(pt) = {}  BY <1>10, <1>19 DEF StateTitle
  <2>. QED BY <1>10, <1>16, <1>20, <1>21, <2>1, NoTwiceConcat
<1>. DEFINE All == AnAgent \cup APlugin
<1>25. r \in Seq(All) /\ ap \in Seq(All) /\ tp \in Seq(All)  BY <1>3, <1>5
<1>. HIDE DEF All
<1>26. r \o ap \in Seq(All)  BY <1>25
<1>27. Len(RowsOf(s)) = Len(agents) + Len(plugins)
  <2>1. Len(RowsOf(s)) = Len(r) + Len(ap) + Len(tp)  BY <1>23, <1>25
  <2>2. Len(ap) \in Nat /\ Len(tp) \in Nat /\ Len(r) \in Nat  BY <1>25
  <2>3. Len(ap) + Len(tp) = Len(plugins) /\ Len(r) = Len(agents)  BY <1>3, <1>5
  <2>. QED BY <2>1, <2>2, <2>3
<1>28. ToSet(RowsOf(s)) = ToSet(agents) \cup ToSet(plugins)
  <2>1. ToSet(r \o ap) = ToSet(r) \cup ToSet(ap)  BY <1>25, ToSetConcat
  <2>2. ToSet((r \o ap) \o tp) = ToSet(r \o ap) \cup ToSet(tp)
    <3>. DEFINE u == r \o ap
    <3>1. u \in Seq(All)  BY <1>26
    <3>. HIDE DEF u
    <3>2. ToSet(u \o tp) = ToSet(u) \cup ToSet(tp)  BY <1>25, <3>1, ToSetConcat
    <3>. QED BY <3>2 DEF u
  <2>3. ToSet(ap) \cup ToSet(tp) = ToSet(plugins)  BY <1>3
  <2>. QED BY <1>5, <1>23, <2>1, <2>2, <2>3
<1>29. \A k \in 1..Len(s) : s[k].draw = "row" =>
          IF \E j \in 1..k : IsHeading(s[j]) THEN Above(s, k) = Home(s[k].of) ELSE Stateless(s[k].of)
  BY <1>21, <1>22, AboveIsHome
<1>. QED BY <1>24, <1>27, <1>28, <1>29 DEF UnderItsOwnHeading, NoTwice, s

\* RosterReads: on the agents screen of src/app/agents.go, for any rollup, who
\* needs the person is at the top in the order of session.go's Roster, whatever
\* order the desk sent, and each row stands under its own heading, once; only
\* agents of no state, at the very top, stand under none.
THEOREM RosterIsReadable == Spec => []RosterReads
<1>. DEFINE Sent == \/ agents = <<>> /\ plugins = <<>>
                    \/ \E r \in Rollups : agents = r[1] /\ plugins = r[2]
<1>1. Init => Sent  BY DEF Init
<1>2. Sent /\ [Next]_screensVars => Sent'
  <2>1. [Next]_screensVars => UNCHANGED <<agents, plugins>>  BY DEF Next, screensVars, rosterVars
  <2>. QED BY <2>1
<1>3. Sent => RosterReads
  <2>1. SUFFICES ASSUME NEW r \in Rollups, agents = r[1], plugins = r[2]
                 PROVE  NeedsYouFirst /\ UnderItsOwnHeading
    BY DEF RosterReads
  <2>2. agents \in Seq(AnAgent) /\ plugins \in Seq(APlugin) /\ OwnPubs(agents)
    BY <2>1, RollupsAssumption DEF AnAgent, APlugin, OwnPubs
  <2>. QED BY <2>2, RosterNeedsYouFirst, RosterUnderItsOwnHeading
<1>. QED BY <1>1, <1>2, <1>3, PTL DEF Spec

-----------------------------------------------------------------------------
(* The grid view: the loop over the cells of a row.                        *)

\* What the fold of Runs computes on the way to its result, for the subsets of
\* the first m cells.
Folded(f, s, row) ==
    IF s = {} THEN <<>> ELSE LET x == Max(s) IN Extends(f[s \ {x}], row[x])
IsFold(f, row, m) == f = [s \in SUBSET (1..m) |-> Folded(f, s, row)]

\* Its value for one of them.
LEMMA FoldAt ==
  ASSUME NEW f, NEW row, NEW m, IsFold(f, row, m), NEW s \in SUBSET (1..m)
  PROVE  f[s] = Folded(f, s, row)
  BY Zenon DEF IsFold

\* It is there.
LEMMA FoldExists ==
  ASSUME NEW row
  PROVE  \A m \in Nat : \E f : IsFold(f, row, m)
<1>. DEFINE T == {m \in Nat : \E f : IsFold(f, row, m)}
<1>1. 0 \in T
  <2>. DEFINE f == [s \in SUBSET (1..0) |-> <<>>]
  <2>1. \A s \in SUBSET (1..0) : s = {}  OBVIOUS
  <2>2. \A s \in SUBSET (1..0) : Folded(f, s, row) = <<>>  BY <2>1, Zenon DEF Folded
  <2>3. IsFold(f, row, 0)  BY <2>2, Zenon DEF IsFold
  <2>. QED BY <2>3
<1>2. ASSUME NEW m \in Nat, m \in T PROVE m + 1 \in T
  <2>1. PICK f : IsFold(f, row, m)  BY <1>2
  <2>. DEFINE Value(s) == IF m + 1 \in s THEN Extends(f[s \ {m + 1}], row[m + 1]) ELSE f[s]
              g == [s \in SUBSET (1..(m + 1)) |-> Value(s)]
  <2>2. ASSUME NEW s \in SUBSET (1..(m + 1)) PROVE g[s] = Folded(g, s, row)
    <3>1. CASE m + 1 \in s
      <4>1. s # {} /\ Max(s) = m + 1
        <5>1. \A k \in s : k <= m + 1  OBVIOUS
        <5>2. \A k \in s : (\A l \in s : k >= l) => k = m + 1  BY <3>1, <5>1
        <5>. QED BY <3>1, <5>1, <5>2 DEF Max
      <4>. DEFINE z == s \ {m + 1}
      <4>2. z \in SUBSET (1..m) /\ z \in SUBSET (1..(m + 1)) /\ m + 1 \notin z  OBVIOUS
      <4>3. g[s] = Extends(f[z], row[m + 1])  BY <3>1, Zenon
      <4>. HIDE DEF z
      <4>4. g[z] = f[z]  BY <4>2, Zenon
      <4>5. Folded(g, s, row) = Extends(g[z], row[m + 1])  BY <4>1, Zenon DEF Folded, z
      <4>. QED BY <4>3, <4>4, <4>5
    <3>2. CASE m + 1 \notin s
      <4>1. s \in SUBSET (1..m)  BY <3>2
      <4>2. g[s] = f[s]  BY <3>2, Zenon
      <4>3. f[s] = Folded(f, s, row)  BY <2>1, <4>1, FoldAt
      <4>. DEFINE z == s \ {Max(s)}
      <4>4. z \in SUBSET (1..(m + 1)) /\ m + 1 \notin z  BY <3>2
      <4>. HIDE DEF z
      <4>5. g[z] = f[z]  BY <4>4, Zenon
      <4>6. Folded(f, s, row) = Folded(g, s, row)  BY <4>5 DEF Folded, z
      <4>. QED BY <4>2, <4>3, <4>6
    <3>. QED BY <3>1, <3>2
  <2>. HIDE DEF Value
  <2>3. g = [s \in SUBSET (1..(m + 1)) |-> Folded(g, s, row)]
    <3>. DEFINE h == [s \in SUBSET (1..(m + 1)) |-> Folded(g, s, row)]
    <3>1. \A s \in SUBSET (1..(m + 1)) : g[s] = h[s]  BY <2>2, Zenon
    <3>2. \A s \in SUBSET (1..(m + 1)) : Value(s) = h[s]  BY <3>1, Zenon
    <3>3. \A s \in SUBSET (1..(m + 1)) : Value(s) = Folded(g, s, row)  BY <3>2, Zenon
    <3>. QED BY <3>3, Zenon
  <2>. HIDE DEF g
  <2>4. IsFold(g, row, m + 1)  BY <2>3, Zenon DEF IsFold
  <2>. QED BY <2>4
<1>3. Nat \subseteq T
  <2>. HIDE DEF T
  <2>. QED BY <1>1, <1>2, Induct
<1>. QED BY <1>3

\* Runs is its end.
LEMMA RunsFold ==
  ASSUME NEW S, NEW row \in Seq(S)
  PROVE  \E f : IsFold(f, row, Len(row)) /\ Runs(row) = f[1..Len(row)]
<1>. DEFINE n == Len(row)
            f == CHOOSE f : IsFold(f, row, n)
<1>1. n \in Nat /\ DOMAIN row = 1..n  OBVIOUS
<1>2. IsFold(f, row, n)  BY <1>1, FoldExists
<1>3. Runs(row) = f[1..n]
  <2>. DEFINE D == DOMAIN row
              e == CHOOSE e : e = [s \in SUBSET D |->
                                     IF s = {} THEN <<>> ELSE LET x == Max(s) IN Extends(e[s \ {x}], row[x])]
  <2>1. Runs(row) = e[D]  BY Zenon DEF Runs, FoldLeft, MapThenFoldSet
  <2>2. f = CHOOSE g : g = [s \in SUBSET (1..n) |->
                              IF s = {} THEN <<>> ELSE LET x == Max(s) IN Extends(g[s \ {x}], row[x])]
    BY Zenon DEF IsFold, Folded
  <2>. HIDE DEF n
  <2>3. e = f  BY <1>1, <2>2, Zenon
  <2>. QED BY <1>1, <2>1, <2>3
<1>. QED BY <1>2, <1>3

\* One more cell.
LEMMA RunsAppend ==
  ASSUME NEW S, NEW row \in Seq(S), NEW c \in S
  PROVE  Runs(<<>>) = <<>> /\ Runs(Append(row, c)) = Extends(Runs(row), c)
<1>. DEFINE p == Append(row, c)
            n == Len(row)
<1>1. ASSUME NEW m \in Nat, NEW f, NEW r, IsFold(f, r, m), NEW k \in 1..m
      PROVE  f[1..k] = Extends(f[1..(k - 1)], r[k])
  <2>. DEFINE s == 1..k
  <2>1. s \in SUBSET (1..m) /\ s # {}
    <3>1. \A i \in 1..k : i \in 1..m  OBVIOUS
    <3>2. k \in 1..k  OBVIOUS
    <3>. QED BY <3>1, <3>2
  <2>2. Max(s) = k
    <3>1. k \in s /\ (\A l \in s : k >= l) /\ \A j \in s : (\A l \in s : j >= l) => j = k  OBVIOUS
    <3>. HIDE DEF s
    <3>. QED BY <3>1 DEF Max
  <2>3. s \ {k} = 1..(k - 1)  OBVIOUS
  <2>. HIDE DEF s
  <2>4. f[s] = Folded(f, s, r)  BY <1>1, <2>1, FoldAt
  <2>5. Folded(f, s, r) = Extends(f[s \ {k}], r[k])  BY <2>1, <2>2 DEF Folded
  <2>. QED BY <2>3, <2>4, <2>5 DEF s
<1>2. ASSUME NEW m \in Nat, NEW f, NEW r, IsFold(f, r, m) PROVE f[1..0] = <<>>
  <2>1. {} \in SUBSET (1..m) /\ 1..0 = {}  OBVIOUS
  <2>2. f[{}] = Folded(f, {}, r)  BY <1>2, <2>1, FoldAt
  <2>3. Folded(f, {}, r) = <<>>  BY DEF Folded
  <2>. QED BY <2>1, <2>2, <2>3
<1>3. /\ n \in Nat /\ Len(p) = n + 1 /\ p \in Seq(S) /\ p[n + 1] = c
      /\ \A k \in 1..n : p[k] = row[k]
  OBVIOUS
<1>4. PICK f : IsFold(f, row, n) /\ Runs(row) = f[1..n]  BY RunsFold
<1>5. PICK g : IsFold(g, p, Len(p)) /\ Runs(p) = g[1..Len(p)]
  <2>. HIDE DEF p
  <2>. QED BY <1>3, RunsFold
<1>6. IsFold(g, p, n + 1) /\ Runs(p) = g[1..(n + 1)]  BY <1>3, <1>5
<1>. HIDE DEF p, n
<1>7. \A k \in Nat : k <= n => g[1..k] = f[1..k]
  <2>. DEFINE T == {k \in Nat : k <= n => g[1..k] = f[1..k]}
  <2>1. 0 \in T
    <3>1. n + 1 \in Nat  BY <1>3
    <3>2. g[1..0] = <<>> /\ f[1..0] = <<>>  BY <1>2, <1>3, <1>4, <1>6, <3>1
    <3>. QED BY <3>2
  <2>2. ASSUME NEW k \in Nat, k \in T PROVE k + 1 \in T
    <3>1. SUFFICES ASSUME k + 1 <= n PROVE g[1..(k + 1)] = f[1..(k + 1)]  BY <2>2
    <3>2. k + 1 \in 1..n /\ k + 1 \in 1..(n + 1) /\ n + 1 \in Nat /\ (k + 1) - 1 = k
      BY <1>3, <3>1
    <3>3. f[1..(k + 1)] = Extends(f[1..((k + 1) - 1)], row[k + 1])  BY <1>1, <1>3, <1>4, <3>2
    <3>4. g[1..(k + 1)] = Extends(g[1..((k + 1) - 1)], p[k + 1])
      <4>. DEFINE m == n + 1
                  j == k + 1
      <4>1. m \in Nat /\ j \in 1..m /\ IsFold(g, p, m)  BY <1>6, <3>2
      <4>. HIDE DEF m, j
      <4>2. g[1..j] = Extends(g[1..(j - 1)], p[j])  BY <1>1, <4>1
      <4>. QED BY <4>2 DEF j
    <3>5. g[1..k] = f[1..k]  BY <1>3, <2>2, <3>1
    <3>. QED BY <1>3, <3>2, <3>3, <3>4, <3>5
  <2>3. Nat \subseteq T
    <3>. HIDE DEF T
    <3>. QED BY <2>1, <2>2, Induct
  <2>. QED BY <2>3
<1>8. Runs(p) = Extends(Runs(row), c)
  <2>1. n + 1 \in 1..(n + 1) /\ n + 1 \in Nat /\ (n + 1) - 1 = n  BY <1>3
  <2>2. g[1..(n + 1)] = Extends(g[1..((n + 1) - 1)], p[n + 1])  BY <1>1, <1>6, <2>1
  <2>3. g[1..n] = f[1..n]  BY <1>3, <1>7
  <2>. QED BY <1>3, <1>4, <1>6, <2>1, <2>2, <2>3
<1>9. Runs(<<>>) = <<>>
  <2>1. <<>> \in Seq(S) /\ Len(<<>>) = 0  OBVIOUS
  <2>2. PICK h : IsFold(h, <<>>, 0) /\ Runs(<<>>) = h[1..0]  BY <2>1, RunsFold
  <2>. QED BY <1>2, <2>2
<1>. QED BY <1>8, <1>9 DEF p

-----------------------------------------------------------------------------
(* The grid view: what the runs of a row draw.                             *)

\* The types: a cell, a look, a run and what is seen in one place.
ACell == Cell(Glyph, Color, Color, SUBSET Modifier)
Tint  == Color \cup {Inherit}
Style == {"bold", "dim", "italic", "underline", "strike"}
ALook == [fg : Tint, bg : Tint, attr : SUBSET Style]
ARun  == [look : ALook, text : Seq(Glyph)]
AnInk == [glyph : Glyph \cup {" "}, bg : Tint, attr : SUBSET Style, fg : Tint]

\* A glyph in a look, "" being the grid's own colour; and nothing.
LookInk(g, look) ==
    Ink(g, IF look.fg = Inherit THEN DefFg ELSE look.fg,
        IF look.bg = Inherit THEN DefBg ELSE look.bg, look.attr)
Nothing == Ink(" ", DefFg, DefBg, {})

\* Neighbouring runs have different looks.
Differ(runs) == \A k \in 1..(Len(runs) - 1) : runs[k].look # runs[k + 1].look

\* They have these types.
LEMMA LookTyped ==
  ASSUME NEW c \in ACell
  PROVE  /\ Look(c) \in ALook
         /\ c.glyph \in Glyph /\ c.fg \in Color /\ c.bg \in Color /\ c.attr \subseteq Modifier
<1>1. c.glyph \in Glyph /\ c.fg \in Color /\ c.bg \in Color /\ c.attr \subseteq Modifier
  BY DEF ACell, Cell
<1>2. \A x \in Color : \A d : ColorOrInherit(x, d) \in Tint  BY DEF ColorOrInherit, Tint
<1>3. GridAttr(c.attr) \in SUBSET Style  BY DEF GridAttr, Style
<1>4. Look(c) \in ALook  BY <1>1, <1>2, <1>3 DEF Look, ALook
<1>. QED BY <1>1, <1>4

\* So has an ink.
LEMMA InkTyped ==
  ASSUME NEW g \in Glyph \cup {" "}, NEW f \in Tint, NEW b \in Tint, NEW m \in SUBSET Style
  PROVE  Ink(g, f, b, m) \in AnInk
<1>1. m \cap {"underline", "strike"} \in SUBSET Style  OBVIOUS
<1>2. Inherit \in Tint /\ " " \in Glyph \cup {" "}  BY DEF Tint
<1>. QED BY <1>1, <1>2 DEF Ink, AnInk

\* A look's ink.
LEMMA LookInkTyped ==
  ASSUME NEW g \in Glyph, NEW look \in ALook
  PROVE  LookInk(g, look) \in AnInk
<1>1. look.fg \in Tint /\ look.bg \in Tint /\ look.attr \in SUBSET Style  BY DEF ALook
<1>2. DefFg \in Tint /\ DefBg \in Tint  BY ColorAssumption DEF Tint
<1>. QED BY <1>1, <1>2, InkTyped DEF LookInk

\* The look of a cell shows its glyph as the cell does by itself.
LEMMA LookPaints ==
  ASSUME NEW c \in ACell
  PROVE  LookInk(c.glyph, Look(c)) = Resolved(c)
<1>. DEFINE rev == "reversed" \in c.attr
            f == IF rev THEN c.bg ELSE c.fg
            b == IF rev THEN c.fg ELSE c.bg
<1>1. f \in Color /\ b \in Color /\ c.attr \subseteq Modifier  BY LookTyped
<1>2. /\ Look(c).fg = ColorOrInherit(f, DefFg) /\ Look(c).bg = ColorOrInherit(b, DefBg)
      /\ Look(c).attr = GridAttr(c.attr)
  BY DEF Look
<1>3. Resolved(c) = Ink(c.glyph, f, b, c.attr \ {"reversed", "blink", "hidden"})
  BY DEF Resolved
<1>. HIDE DEF f, b
<1>4. (IF Look(c).fg = Inherit THEN DefFg ELSE Look(c).fg) = f
  BY <1>1, <1>2, ColorAssumption DEF ColorOrInherit
<1>5. (IF Look(c).bg = Inherit THEN DefBg ELSE Look(c).bg) = b
  BY <1>1, <1>2, ColorAssumption DEF ColorOrInherit
<1>6. GridAttr(c.attr) = c.attr \ {"reversed", "blink", "hidden"}
  BY <1>1 DEF GridAttr, Modifier
<1>. QED BY <1>2, <1>3, <1>4, <1>5, <1>6 DEF LookInk

\* What a run draws.
LEMMA RunDraws ==
  ASSUME NEW r \in ARun
  PROVE  /\ RunInks(r) \in Seq(AnInk) /\ Len(RunInks(r)) = Len(r.text)
         /\ \A k \in 1..Len(r.text) : RunInks(r)[k] = LookInk(r.text[k], r.look)
<1>1. r.look \in ALook /\ r.text \in Seq(Glyph)  BY DEF ARun
<1>2. RunInks(r) = [k \in 1..Len(r.text) |-> LookInk(r.text[k], r.look)]
  BY DEF RunInks, LookInk
<1>3. \A k \in 1..Len(r.text) : LookInk(r.text[k], r.look) \in AnInk
  <2>1. \A k \in 1..Len(r.text) : r.text[k] \in Glyph  BY <1>1
  <2>. QED BY <1>1, <2>1, LookInkTyped
<1>. QED BY <1>1, <1>2, <1>3

\* One more run.
LEMMA InksAppend ==
  ASSUME NEW runs \in Seq(ARun), NEW r \in ARun
  PROVE  /\ Inks(runs) \in Seq(AnInk)
         /\ Inks(Append(runs, r)) = Inks(runs) \o RunInks(r)
<1>. DEFINE n == Len(runs)
            p == Append(runs, r)
            s == [k \in 1..n |-> RunInks(runs[k])]
            z == RunInks(r)
<1>1. /\ Len(p) = n + 1 /\ n \in Nat /\ p[n + 1] = r
      /\ \A k \in 1..n : p[k] = runs[k] /\ runs[k] \in ARun
  OBVIOUS
<1>2. s \in Seq(Seq(AnInk)) /\ z \in Seq(AnInk)
  <2>1. \A k \in 1..n : RunInks(runs[k]) \in Seq(AnInk)  BY <1>1, RunDraws
  <2>. QED BY <1>1, <2>1, RunDraws
<1>3. Inks(runs) = FlattenSeq(s)  BY DEF Inks
<1>4. Inks(p) = FlattenSeq(Append(s, z))
  <2>. HIDE DEF p
  <2>1. [k \in 1..Len(p) |-> RunInks(p[k])] = Append(s, z)  BY <1>1, <1>2
  <2>. HIDE DEF s, z
  <2>. QED BY <2>1 DEF Inks
<1>. HIDE DEF s, z, p
<1>5. FlattenSeq(Append(s, z)) = FlattenSeq(s) \o z  BY <1>2, FlattenAppend
<1>6. FlattenSeq(s) \in Seq(AnInk)  BY <1>2, FlattenType
<1>. QED BY <1>3, <1>4, <1>5, <1>6 DEF p, z

\* The first elements of a sequence.
LEMMA Taken ==
  ASSUME NEW S, NEW s \in Seq(S), NEW n \in 0..Len(s)
  PROVE  /\ SubSeq(s, 1, n) \in Seq(S) /\ Len(SubSeq(s, 1, n)) = n
         /\ \A k \in 1..n : SubSeq(s, 1, n)[k] = s[k]
<1>1. \A k \in 1..n : s[k] \in S  OBVIOUS
<1>2. SubSeq(s, 1, n) = [k \in 1..n |-> s[k]]  OBVIOUS
<1>3. n \in Nat  OBVIOUS
<1>. QED BY <1>1, <1>2, <1>3

\* What runs draw.
LEMMA InksType ==
  ASSUME NEW runs \in Seq(ARun)
  PROVE  Inks(runs) \in Seq(AnInk)
<1>. DEFINE s == [k \in 1..Len(runs) |-> RunInks(runs[k])]
<1>1. s \in Seq(Seq(AnInk))
  <2>1. \A k \in 1..Len(runs) : RunInks(runs[k]) \in Seq(AnInk)  BY RunDraws
  <2>. QED BY <2>1
<1>2. Inks(runs) = FlattenSeq(s)  BY DEF Inks
<1>. HIDE DEF s
<1>. QED BY <1>1, <1>2, FlattenType

\* All but the last, and the last.
LEMMA FrontLast ==
  ASSUME NEW S, NEW s \in Seq(S), s # <<>>
  PROVE  /\ Len(s) \in Nat \ {0}
         /\ Front(s) \in Seq(S) /\ Last(s) \in S /\ Len(Front(s)) = Len(s) - 1
         /\ \A k \in 1..(Len(s) - 1) : Front(s)[k] = s[k]
         /\ s = Append(Front(s), Last(s)) /\ Last(s) = s[Len(s)]
         /\ \A x \in S : Front(s) \o <<x>> = Append(Front(s), x)
<1>. DEFINE f == Front(s)
            l == Last(s)
            n == Len(s)
<1>1. n \in Nat \ {0} /\ \A k \in 1..n : s[k] \in S  OBVIOUS
<1>2. /\ f \in Seq(S) /\ Len(f) = n - 1 /\ \A k \in 1..(n - 1) : f[k] = s[k]
  <2>1. n - 1 \in 0..Len(s)  BY <1>1
  <2>. QED BY <2>1, Taken DEF Front
<1>3. l \in S /\ l = s[n]  BY <1>1 DEF Last
<1>. HIDE DEF f, l
<1>4. \A x \in S : f \o <<x>> = Append(f, x)  BY <1>2
<1>5. s = Append(f, l)
  <2>. DEFINE p == Append(f, l)
  <2>1. p \in Seq(S) /\ Len(p) = n /\ p[n] = l /\ \A k \in 1..(n - 1) : p[k] = f[k]
    BY <1>1, <1>2, <1>3
  <2>. HIDE DEF p
  <2>2. \A k \in 1..n : s[k] = p[k]  BY <1>1, <1>2, <1>3, <2>1
  <2>3. s = p  BY <2>1, <2>2, SameSeq
  <2>. QED BY <2>3 DEF p
<1>. QED BY <1>1, <1>2, <1>3, <1>4, <1>5 DEF f, l

\* What one more cell adds to what is seen.
Bit(c) == IF c.glyph = "" THEN <<>> ELSE <<c.glyph>>
Seen(c) == IF c.glyph = "" THEN <<>> ELSE <<Resolved(c)>>

\* It has these types, and is what a run of it draws.
LEMMA BitDraws ==
  ASSUME NEW c \in ACell
  PROVE  /\ Bit(c) \in Seq(Glyph) /\ Seen(c) \in Seq(AnInk) /\ Len(Bit(c)) = Len(Seen(c))
         /\ \A k \in 1..Len(Bit(c)) : Bit(c)[k] \in Glyph /\ Seen(c)[k] = LookInk(Bit(c)[k], Look(c))
<1>1. c.glyph \in Glyph /\ Look(c) \in ALook  BY LookTyped
<1>2. LookInk(c.glyph, Look(c)) = Resolved(c) /\ Resolved(c) \in AnInk
  BY <1>1, LookPaints, LookInkTyped
<1>3. CASE c.glyph = ""
  <2>1. Bit(c) = <<>> /\ Seen(c) = <<>>  BY <1>3 DEF Bit, Seen
  <2>. QED BY <2>1
<1>4. CASE c.glyph # ""
  <2>1. Bit(c) = <<c.glyph>> /\ Seen(c) = <<Resolved(c)>>  BY <1>4 DEF Bit, Seen
  <2>2. \A k \in 1..1 : k = 1  OBVIOUS
  <2>. QED BY <1>1, <1>2, <2>1, <2>2
<1>. QED BY <1>3, <1>4

\* A run grown by a cell of its look draws that cell after it.
LEMMA GrownDraws ==
  ASSUME NEW r \in ARun, NEW c \in ACell, r.look = Look(c)
  PROVE  LET g == [look |-> Look(c), text |-> r.text \o Bit(c)]
         IN  g \in ARun /\ RunInks(g) = RunInks(r) \o Seen(c)
<1>. DEFINE g == [look |-> Look(c), text |-> r.text \o Bit(c)]
            m == Len(r.text)
            b == Bit(c)
            e == Seen(c)
            x == RunInks(g)
            y == RunInks(r) \o e
<1>1. /\ r.text \in Seq(Glyph) /\ b \in Seq(Glyph) /\ e \in Seq(AnInk) /\ Len(b) = Len(e)
      /\ Look(c) \in ALook /\ \A k \in 1..Len(b) : e[k] = LookInk(b[k], Look(c))
  BY BitDraws, LookTyped DEF ARun
<1>2. /\ RunInks(r) \in Seq(AnInk) /\ Len(RunInks(r)) = m
      /\ \A k \in 1..m : RunInks(r)[k] = LookInk(r.text[k], Look(c))
  BY RunDraws
<1>. HIDE DEF b, e
<1>3. /\ g.text \in Seq(Glyph) /\ Len(g.text) = m + Len(b) /\ g.look = Look(c)
      /\ \A k \in 1..m : g.text[k] = r.text[k]
      /\ \A k \in 1..Len(b) : g.text[m + k] = b[k]
  <2>1. g.text = r.text \o b /\ g.look = Look(c)  BY DEF b
  <2>. DEFINE t == r.text
  <2>2. t \in Seq(Glyph) /\ b \in Seq(Glyph)  BY <1>1
  <2>. HIDE DEF t
  <2>3. /\ t \o b \in Seq(Glyph) /\ Len(t \o b) = Len(t) + Len(b)
        /\ \A k \in 1..Len(t) : (t \o b)[k] = t[k]
        /\ \A k \in 1..Len(b) : (t \o b)[Len(t) + k] = b[k]
    BY <2>2, Concatenated
  <2>4. g.text = t \o b /\ m = Len(t) /\ r.text = t  BY <2>1 DEF t
  <2>. HIDE DEF g, m
  <2>. QED BY <2>1, <2>3, <2>4
<1>4. g \in ARun  BY <1>1, <1>3 DEF ARun
<1>5. /\ y \in Seq(AnInk) /\ Len(y) = m + Len(b)
      /\ \A k \in 1..m : y[k] = RunInks(r)[k]
      /\ \A k \in 1..Len(b) : y[m + k] = e[k]
  <2>. DEFINE t == RunInks(r)
  <2>1. t \in Seq(AnInk) /\ e \in Seq(AnInk) /\ Len(e) = Len(b) /\ m = Len(t) /\ y = t \o e
    BY <1>1, <1>2
  <2>. HIDE DEF t, y, m
  <2>2. /\ t \o e \in Seq(AnInk) /\ Len(t \o e) = Len(t) + Len(e)
        /\ \A k \in 1..Len(t) : (t \o e)[k] = t[k]
        /\ \A k \in 1..Len(e) : (t \o e)[Len(t) + k] = e[k]
    BY <2>1, Concatenated
  <2>. QED BY <2>1, <2>2 DEF t
<1>. HIDE DEF g
<1>6. x \in Seq(AnInk) /\ Len(x) = Len(g.text)
      /\ \A k \in 1..Len(g.text) : x[k] = LookInk(g.text[k], g.look)
  BY <1>4, RunDraws
<1>. HIDE DEF x, y
<1>7. m \in Nat /\ Len(b) \in Nat  BY <1>1
<1>. HIDE DEF m
<1>8. ASSUME NEW k \in 1..(m + Len(b)) PROVE x[k] = y[k]
  <2>1. CASE k <= m
    <3>1. k \in 1..m  BY <1>7, <2>1
    <3>. QED BY <1>2, <1>3, <1>5, <1>6, <3>1
  <2>2. CASE k > m
    <3>. DEFINE j == k - m
    <3>1. j \in 1..Len(b) /\ k = m + j  BY <1>7, <2>2
    <3>. HIDE DEF j
    <3>2. x[k] = LookInk(b[j], Look(c))  BY <1>3, <1>6, <3>1
    <3>3. y[k] = LookInk(b[j], Look(c))  BY <1>1, <1>5, <3>1
    <3>. QED BY <3>2, <3>3
  <2>. QED BY <1>7, <2>1, <2>2
<1>9. x = y  BY <1>3, <1>5, <1>6, <1>8, SameSeq
<1>. QED BY <1>4, <1>9 DEF g, x, y, e

\* Extends: one more cell joins the last run or starts the next, which looks
\* different, and is seen after all before it.
LEMMA ExtendsInks ==
  ASSUME NEW runs \in Seq(ARun), NEW c \in ACell, Differ(runs)
  PROVE  /\ Extends(runs, c) \in Seq(ARun) /\ Differ(Extends(runs, c))
         /\ Inks(Extends(runs, c)) = Inks(runs) \o Seen(c)
<1>. DEFINE n == Len(runs)
            fresh == [look |-> Look(c), text |-> Bit(c)]
            grown == [look |-> Look(c), text |-> Last(runs).text \o Bit(c)]
            joins == runs # <<>> /\ Last(runs).look = Look(c)
<1>1. Extends(runs, c) = IF joins THEN Front(runs) \o <<grown>> ELSE Append(runs, fresh)
  BY DEF Extends, Bit
<1>2. CASE joins
  <2>. DEFINE f == Front(runs)
              l == Last(runs)
              p == Append(f, grown)
  <2>1. /\ n \in Nat \ {0} /\ f \in Seq(ARun) /\ l \in ARun /\ Len(f) = n - 1
        /\ \A k \in 1..(n - 1) : f[k] = runs[k]
        /\ runs = Append(f, l) /\ l = runs[n]
        /\ \A x \in ARun : f \o <<x>> = Append(f, x)
    BY <1>2, FrontLast
  <2>2. l.look = Look(c)  BY <1>2
  <2>. HIDE DEF f, l
  <2>3. grown = [look |-> Look(c), text |-> l.text \o Bit(c)]  BY DEF l
  <2>. HIDE DEF grown
  <2>4. grown \in ARun /\ RunInks(grown) = RunInks(l) \o Seen(c)
    BY <2>1, <2>2, <2>3, GrownDraws
  <2>5. grown.look = l.look  BY <2>2, <2>3
  <2>6. Extends(runs, c) = p  BY <1>1, <1>2, <2>1, <2>4 DEF f
  <2>7. /\ p \in Seq(ARun) /\ Len(p) = n /\ p[n] = grown
        /\ \A k \in 1..(n - 1) : p[k] = runs[k]
    BY <2>1, <2>4
  <2>8. Inks(p) = Inks(runs) \o Seen(c)
    <3>1. Inks(p) = Inks(f) \o RunInks(grown)  BY <2>1, <2>4, InksAppend
    <3>2. Inks(runs) = Inks(f) \o RunInks(l)  BY <2>1, InksAppend
    <3>3. /\ Inks(f) \in Seq(AnInk) /\ RunInks(l) \in Seq(AnInk) /\ Seen(c) \in Seq(AnInk)
      BY <2>1, InksAppend, RunDraws, BitDraws
    <3>4. Inks(f) \o (RunInks(l) \o Seen(c)) = (Inks(f) \o RunInks(l)) \o Seen(c)  BY <3>3
    <3>. QED BY <2>4, <3>1, <3>2, <3>4
  <2>. HIDE DEF p
  <2>9. Differ(p)
    <3>1. SUFFICES ASSUME NEW k \in 1..(n - 1) PROVE p[k].look # p[k + 1].look
      BY <2>7 DEF Differ
    <3>2. runs[k].look # runs[k + 1].look  BY DEF Differ
    <3>3. p[k + 1].look = runs[k + 1].look
      <4>1. CASE k = n - 1  BY <2>1, <2>5, <2>7, <4>1
      <4>2. CASE k # n - 1
        <5>1. k + 1 \in 1..(n - 1)  BY <2>1, <4>2
        <5>. QED BY <2>7, <5>1
      <4>. QED BY <4>1, <4>2
    <3>. QED BY <2>7, <3>2, <3>3
  <2>. QED BY <2>6, <2>7, <2>8, <2>9
<1>3. CASE ~joins
  <2>. DEFINE p == Append(runs, fresh)
  <2>1. Extends(runs, c) = p  BY <1>1, <1>3
  <2>2. fresh \in ARun /\ fresh.look = Look(c)  BY BitDraws, LookTyped DEF ARun
  <2>3. RunInks(fresh) = Seen(c)
    <3>1. /\ RunInks(fresh) \in Seq(AnInk) /\ Len(RunInks(fresh)) = Len(Bit(c))
          /\ \A k \in 1..Len(Bit(c)) : RunInks(fresh)[k] = LookInk(Bit(c)[k], Look(c))
      BY <2>2, RunDraws
    <3>. QED BY <3>1, BitDraws, SameSeq
  <2>. HIDE DEF fresh
  <2>4. p \in Seq(ARun) /\ Len(p) = n + 1 /\ p[n + 1] = fresh /\ \A k \in 1..n : p[k] = runs[k]
    BY <2>2
  <2>5. Inks(p) = Inks(runs) \o Seen(c)  BY <2>2, <2>3, InksAppend
  <2>. HIDE DEF p
  <2>6. Differ(p)
    <3>1. SUFFICES ASSUME NEW k \in 1..n PROVE p[k].look # p[k + 1].look
      BY <2>4 DEF Differ
    <3>2. CASE k = n
      <4>1. runs # <<>>  BY <3>2
      <4>2. Last(runs) = runs[n]  BY <4>1, FrontLast
      <4>3. runs[n].look # Look(c)  BY <1>3, <4>1, <4>2
      <4>. QED BY <2>2, <2>4, <3>2, <4>3
    <3>3. CASE k # n
      <4>1. k \in 1..(n - 1) /\ k + 1 \in 1..n  BY <3>3
      <4>2. runs[k].look # runs[k + 1].look  BY <4>1 DEF Differ
      <4>. QED BY <2>4, <4>1, <4>2
    <3>. QED BY <3>2, <3>3
  <2>. QED BY <2>1, <2>4, <2>5, <2>6
<1>. QED BY <1>2, <1>3

\* The cells of a row that have a glyph, each as it is seen.
SeenCells(row) == [k \in 1..Len(GlyphCells(row)) |-> Resolved(GlyphCells(row)[k])]

\* A row of no cells: no runs, nothing seen.
LEMMA NoCells == Runs(<<>>) = <<>> /\ Inks(<<>>) = <<>> /\ SeenCells(<<>>) = <<>>
<1>. <<>> \in Seq({0}) /\ 0 \in {0} /\ Len(<<>>) = 0  OBVIOUS
<1>1. Runs(<<>>) = <<>>  BY RunsAppend
<1>2. Inks(<<>>) = <<>>
  <2>1. \A q : Len(q) = 0 => Inks(q) = FlattenSeq(<<>>)  BY DEF Inks
  <2>. QED BY <2>1, FlattenNone
<1>3. SeenCells(<<>>) = <<>>
  <2>1. \A q : Len(q) = 0 => GlyphCells(q) = FlattenSeq(<<>>)  BY DEF GlyphCells
  <2>2. GlyphCells(<<>>) = <<>>  BY <2>1, FlattenNone
  <2>. QED BY <2>2 DEF SeenCells
<1>. QED BY <1>1, <1>2, <1>3

\* They are cells.
LEMMA GlyphCellsType ==
  ASSUME NEW row \in Seq(ACell)
  PROVE  GlyphCells(row) \in Seq(ACell)
<1>. DEFINE A(e) == IF e.glyph = "" THEN <<>> ELSE <<e>>
            s == [k \in 1..Len(row) |-> A(row[k])]
<1>1. Len(row) \in Nat /\ \A k \in 1..Len(row) : row[k] \in ACell  OBVIOUS
<1>2. \A e \in ACell : A(e) \in Seq(ACell)
  <2>1. <<>> \in Seq(ACell) /\ \A e \in ACell : <<e>> \in Seq(ACell)  OBVIOUS
  <2>. QED BY <2>1
<1>3. GlyphCells(row) = FlattenSeq(s)  BY DEF GlyphCells
<1>. HIDE DEF A
<1>4. s \in Seq(Seq(ACell))  BY <1>1, <1>2
<1>. HIDE DEF s
<1>. QED BY <1>3, <1>4, FlattenType

\* The cells with a glyph, of one more cell.
LEMMA GlyphCellsAppend ==
  ASSUME NEW row \in Seq(ACell), NEW c \in ACell
  PROVE  /\ GlyphCells(row) \in Seq(ACell)
         /\ GlyphCells(Append(row, c)) = GlyphCells(row) \o (IF c.glyph = "" THEN <<>> ELSE <<c>>)
<1>. DEFINE n == Len(row)
            p == Append(row, c)
            A(e) == IF e.glyph = "" THEN <<>> ELSE <<e>>
            s == [k \in 1..n |-> A(row[k])]
<1>1. /\ Len(p) = n + 1 /\ n \in Nat /\ p[n + 1] = c
      /\ \A k \in 1..n : p[k] = row[k] /\ row[k] \in ACell
  OBVIOUS
<1>2. \A e \in ACell : A(e) \in Seq(ACell)
  <2>1. <<>> \in Seq(ACell) /\ \A e \in ACell : <<e>> \in Seq(ACell)  OBVIOUS
  <2>. QED BY <2>1
<1>3. GlyphCells(row) = FlattenSeq(s)  BY DEF GlyphCells
<1>4. \A q : GlyphCells(q) = FlattenSeq([k \in 1..Len(q) |-> A(q[k])])  BY DEF GlyphCells
<1>. HIDE DEF A, p
<1>5. s \in Seq(Seq(ACell)) /\ A(c) \in Seq(ACell)  BY <1>1, <1>2
<1>6. [k \in 1..Len(p) |-> A(p[k])] = Append(s, A(c))  BY <1>1, <1>2, <1>5
<1>. HIDE DEF s
<1>7. GlyphCells(p) = FlattenSeq(s) \o A(c)  BY <1>4, <1>5, <1>6, FlattenAppend
<1>8. FlattenSeq(s) \in Seq(ACell)  BY <1>5, FlattenType
<1>. QED BY <1>3, <1>7, <1>8 DEF p, A

\* One more cell.
LEMMA SeenAppend ==
  ASSUME NEW row \in Seq(ACell), NEW c \in ACell
  PROVE  /\ SeenCells(row) \in Seq(AnInk)
         /\ SeenCells(Append(row, c)) = SeenCells(row) \o Seen(c)
<1>. DEFINE p == Append(row, c)
            g == GlyphCells(row)
            h == GlyphCells(p)
            n == Len(g)
<1>0. h = g \o (IF c.glyph = "" THEN <<>> ELSE <<c>>)  BY GlyphCellsAppend
<1>1. g \in Seq(ACell)  BY GlyphCellsAppend
<1>2. \A e \in ACell : Resolved(e) \in AnInk  BY LookTyped, LookPaints, LookInkTyped
<1>. HIDE DEF p, g, h
<1>4. SeenCells(row) = [k \in 1..n |-> Resolved(g[k])] /\ SeenCells(p) = [k \in 1..Len(h) |-> Resolved(h[k])]
  BY DEF SeenCells, g, h
<1>5. SeenCells(row) \in Seq(AnInk) /\ Len(SeenCells(row)) = n
  <2>1. n \in Nat /\ \A k \in 1..n : g[k] \in ACell  BY <1>1
  <2>. HIDE DEF n
  <2>. QED BY <1>2, <1>4, <2>1
<1>6. CASE c.glyph = ""
  <2>1. h = g
    <3>1. h = g \o <<>>  BY <1>0, <1>6
    <3>. QED BY <1>1, <3>1
  <2>2. Seen(c) = <<>>  BY <1>6 DEF Seen
  <2>3. SeenCells(p) = SeenCells(row)  BY <1>4, <2>1
  <2>. HIDE DEF n
  <2>4. SeenCells(row) \o <<>> = SeenCells(row)  BY <1>5
  <2>. QED BY <1>5, <2>2, <2>3, <2>4 DEF p
<1>7. CASE c.glyph # ""
  <2>1. h = Append(g, c)
    <3>1. h = g \o <<c>>  BY <1>0, <1>7
    <3>2. g \o <<c>> = Append(g, c)  BY <1>1
    <3>. QED BY <3>1, <3>2
  <2>2. Len(h) = n + 1 /\ h[n + 1] = c /\ \A k \in 1..n : h[k] = g[k]  BY <1>1, <2>1, Appended
  <2>3. Seen(c) = <<Resolved(c)>>  BY <1>7 DEF Seen
  <2>4. n \in Nat  BY <1>1
  <2>. HIDE DEF n
  <2>5. /\ \A k \in 1..(n + 1) : SeenCells(p)[k] = Resolved(h[k])
        /\ \A k \in 1..n : SeenCells(row)[k] = Resolved(g[k])
    BY <1>4, <2>2
  <2>. DEFINE x == SeenCells(p)
              y == SeenCells(row) \o <<Resolved(c)>>
              r == Resolved(c)
  <2>6. r \in AnInk  BY <1>2
  <2>. HIDE DEF r
  <2>7. SeenCells(row) \o <<r>> = Append(SeenCells(row), r)  BY <1>5, <2>6
  <2>8. /\ y \in Seq(AnInk) /\ Len(y) = n + 1 /\ y[n + 1] = r
        /\ \A k \in 1..n : y[k] = SeenCells(row)[k]
    BY <1>5, <2>4, <2>6, <2>7 DEF r
  <2>9. \A k \in 1..(n + 1) : h[k] \in ACell
    <3>1. h \in Seq(ACell)  BY <1>1, <2>1
    <3>. QED BY <2>2, <3>1
  <2>10. x \in Seq(AnInk) /\ Len(x) = n + 1
    <3>1. \A k \in 1..(n + 1) : Resolved(h[k]) \in AnInk  BY <1>2, <2>9
    <3>2. x = [k \in 1..(n + 1) |-> Resolved(h[k])]  BY <1>4, <2>2
    <3>. HIDE DEF x
    <3>. QED BY <2>4, <3>1, <3>2
  <2>. HIDE DEF x, y
  <2>11. \A k \in 1..(n + 1) : x[k] = y[k]
    <3>1. TAKE k \in 1..(n + 1)
    <3>2. CASE k = n + 1  BY <2>2, <2>4, <2>5, <2>8, <3>2 DEF x, r
    <3>3. CASE k # n + 1
      <4>1. k \in 1..n  BY <2>4, <3>3
      <4>. QED BY <2>2, <2>4, <2>5, <2>8, <4>1 DEF x
    <3>. QED BY <3>2, <3>3
  <2>12. x = y  BY <2>8, <2>10, <2>11, SameSeq
  <2>. QED BY <1>5, <2>3, <2>12 DEF x, y, p
<1>. QED BY <1>6, <1>7

\* Runs: the runs of a row show each glyph as its cell does, and no two
\* neighbours look the same.
LEMMA RunsPaint ==
  ASSUME NEW row \in Seq(ACell)
  PROVE  Runs(row) \in Seq(ARun) /\ Inks(Runs(row)) = SeenCells(row) /\ Differ(Runs(row))
<1>. DEFINE Paints(q) == /\ Runs(q) \in Seq(ARun) /\ Inks(Runs(q)) = SeenCells(q)
                         /\ Differ(Runs(q))
            T == {q \in Seq(ACell) : Paints(q)}
<1>1. <<>> \in T
  <2>1. <<>> \in Seq(ACell) /\ <<>> \in Seq(ARun) /\ Len(<<>>) = 0  OBVIOUS
  <2>2. Differ(<<>>)  BY <2>1 DEF Differ
  <2>. QED BY <2>1, <2>2, NoCells, Zenon
<1>2. ASSUME NEW q \in Seq(ACell), NEW c \in ACell, q \in T PROVE Append(q, c) \in T
  <2>. DEFINE p == Append(q, c)
  <2>1. Runs(q) \in Seq(ARun) /\ Inks(Runs(q)) = SeenCells(q) /\ Differ(Runs(q))  BY <1>2
  <2>2. Runs(p) = Extends(Runs(q), c)  BY RunsAppend
  <2>3. SeenCells(p) = SeenCells(q) \o Seen(c)  BY SeenAppend
  <2>4. p \in Seq(ACell)  OBVIOUS
  <2>. HIDE DEF p
  <2>5. Paints(p)  BY <2>1, <2>2, <2>3, ExtendsInks
  <2>. QED BY <2>4, <2>5 DEF p
<1>3. Seq(ACell) \subseteq T
  <2>. HIDE DEF T
  <2>. QED BY <1>1, <1>2, SeqInduct
<1>. QED BY <1>3

-----------------------------------------------------------------------------
(* The grid view: the blank end of a row.                                  *)

\* What is seen in b is a and then nothing.
Covers(a, b) ==
    /\ a \in Seq(AnInk) /\ b \in Seq(AnInk) /\ Len(a) <= Len(b)
    /\ \A k \in 1..Len(a) : b[k] = a[k]
    /\ \A k \in (Len(a) + 1)..Len(b) : b[k] = Nothing

\* A run trimTrailingBlank drops when it is the last.
DrawsNothing(r) == ~Shows(r) /\ Inked(r.text) = {}

\* A blank of a run without a background or a line shows nothing.
LEMMA BlankShowsNothing ==
  ASSUME NEW r \in ARun, ~Shows(r)
  PROVE  LookInk(" ", r.look) = Nothing
<1>1. r.look.bg = Inherit /\ r.look.attr \cap {"underline", "strike"} = {}  BY DEF Shows
<1>. DEFINE f == IF r.look.fg = Inherit THEN DefFg ELSE r.look.fg
            m == r.look.attr
<1>2. LookInk(" ", r.look) = Ink(" ", f, DefBg, m)  BY <1>1 DEF LookInk
<1>3. m \cap {"underline", "strike"} = {}  BY <1>1
<1>. HIDE DEF f, m
<1>4. Ink(" ", f, DefBg, m) = [glyph |-> " ", bg |-> DefBg, attr |-> {}, fg |-> Inherit]
  BY <1>3 DEF Ink
<1>5. Nothing = [glyph |-> " ", bg |-> DefBg, attr |-> {}, fg |-> Inherit]
  <2>1. {} \cap {"underline", "strike"} = {}  OBVIOUS
  <2>. QED BY <2>1 DEF Nothing, Ink
<1>. QED BY <1>2, <1>4, <1>5

\* A run that shows nothing covers nothing.
LEMMA NothingDrawn ==
  ASSUME NEW r \in ARun, DrawsNothing(r)
  PROVE  \A k \in 1..Len(RunInks(r)) : RunInks(r)[k] = Nothing
<1>1. /\ Len(RunInks(r)) = Len(r.text)
      /\ \A k \in 1..Len(r.text) : RunInks(r)[k] = LookInk(r.text[k], r.look)
  BY RunDraws
<1>2. ~Shows(r) /\ \A k \in 1..Len(r.text) : r.text[k] = " "  BY DEF DrawsNothing, Inked
<1>3. LookInk(" ", r.look) = Nothing  BY <1>2, BlankShowsNothing
<1>. QED BY <1>1, <1>2, <1>3

\* The same is seen.
LEMMA CoversSame ==
  ASSUME NEW a \in Seq(AnInk)
  PROVE  Covers(a, a)
<1>1. Len(a) \in Nat  OBVIOUS
<1>2. (Len(a) + 1)..Len(a) = {}  BY <1>1
<1>. QED BY <1>1, <1>2 DEF Covers

\* One drop after the other.
LEMMA CoversChains ==
  ASSUME NEW a, NEW b, NEW c, Covers(a, b), Covers(b, c)
  PROVE  Covers(a, c)
<1>1. /\ Len(a) \in Nat /\ Len(b) \in Nat /\ Len(c) \in Nat
      /\ Len(a) <= Len(b) /\ Len(b) <= Len(c)
      /\ a \in Seq(AnInk) /\ c \in Seq(AnInk)
      /\ \A k \in 1..Len(a) : b[k] = a[k]
      /\ \A k \in (Len(a) + 1)..Len(b) : b[k] = Nothing
      /\ \A k \in 1..Len(b) : c[k] = b[k]
      /\ \A k \in (Len(b) + 1)..Len(c) : c[k] = Nothing
  BY DEF Covers
<1>2. \A k \in 1..Len(a) : c[k] = a[k]
  <2>1. \A k \in 1..Len(a) : k \in 1..Len(b)  BY <1>1
  <2>. QED BY <1>1, <2>1
<1>3. ASSUME NEW k \in (Len(a) + 1)..Len(c) PROVE c[k] = Nothing
  <2>1. CASE k <= Len(b)
    <3>1. k \in 1..Len(b) /\ k \in (Len(a) + 1)..Len(b)  BY <1>1, <2>1
    <3>. QED BY <1>1, <3>1
  <2>2. CASE k > Len(b)
    <3>1. k \in (Len(b) + 1)..Len(c)  BY <1>1, <2>2
    <3>. QED BY <1>1, <3>1
  <2>. QED BY <1>1, <2>1, <2>2
<1>4. Len(a) <= Len(c)  BY <1>1
<1>. QED BY <1>1, <1>2, <1>3, <1>4 DEF Covers

\* The same in front of both.
LEMMA CoversBehind ==
  ASSUME NEW x \in Seq(AnInk), NEW a, NEW b, Covers(a, b)
  PROVE  Covers(x \o a, x \o b)
<1>. DEFINE m == Len(x)
            n == Len(a)
            l == Len(b)
            u == x \o a
            v == x \o b
<1>1. /\ a \in Seq(AnInk) /\ b \in Seq(AnInk) /\ n <= l
      /\ \A k \in 1..n : b[k] = a[k]
      /\ \A k \in (n + 1)..l : b[k] = Nothing
  BY DEF Covers
<1>2. m \in Nat /\ n \in Nat /\ l \in Nat  BY <1>1
<1>3. /\ u \in Seq(AnInk) /\ Len(u) = m + n
      /\ \A k \in 1..m : u[k] = x[k]
      /\ \A k \in 1..n : u[m + k] = a[k]
  BY <1>1, Concatenated
<1>4. /\ v \in Seq(AnInk) /\ Len(v) = m + l
      /\ \A k \in 1..m : v[k] = x[k]
      /\ \A k \in 1..l : v[m + k] = b[k]
  BY <1>1, Concatenated
<1>. HIDE DEF u, v, m, n, l
<1>5. ASSUME NEW k \in 1..(m + n) PROVE v[k] = u[k]
  <2>1. CASE k <= m
    <3>1. k \in 1..m  BY <1>2, <2>1
    <3>. QED BY <1>3, <1>4, <3>1
  <2>2. CASE k > m
    <3>. DEFINE j == k - m
    <3>1. j \in 1..n /\ j \in 1..l /\ k = m + j  BY <1>1, <1>2, <2>2
    <3>. HIDE DEF j
    <3>2. u[k] = a[j] /\ v[k] = b[j]  BY <1>3, <1>4, <3>1
    <3>. QED BY <1>1, <3>1, <3>2
  <2>. QED BY <1>2, <2>1, <2>2
<1>6. ASSUME NEW k \in (m + n + 1)..(m + l) PROVE v[k] = Nothing
  <2>. DEFINE j == k - m
  <2>1. j \in (n + 1)..l /\ j \in 1..l /\ k = m + j  BY <1>1, <1>2
  <2>. HIDE DEF j
  <2>. QED BY <1>1, <1>4, <2>1
<1>7. m + n <= m + l  BY <1>1, <1>2
<1>8. Covers(u, v)  BY <1>3, <1>4, <1>5, <1>6, <1>7 DEF Covers
<1>. QED BY <1>8 DEF u, v

\* A last run that draws nothing may go.
LEMMA CoversDropped ==
  ASSUME NEW runs \in Seq(ARun), NEW r \in ARun, DrawsNothing(r)
  PROVE  Covers(Inks(runs), Inks(Append(runs, r)))
<1>. DEFINE x == Inks(runs)
            y == RunInks(r)
<1>1. /\ x \in Seq(AnInk) /\ y \in Seq(AnInk) /\ Inks(Append(runs, r)) = x \o y
  BY InksAppend, RunDraws
<1>2. \A k \in 1..Len(y) : y[k] = Nothing  BY NothingDrawn
<1>. HIDE DEF x, y
<1>3. Covers(<<>>, y)
  <2>1. <<>> \in Seq(AnInk) /\ Len(<<>>) = 0 /\ Len(y) \in Nat  BY <1>1
  <2>2. 0 <= Len(y) /\ 1..0 = {} /\ 0 + 1 = 1  BY <2>1
  <2>. QED BY <1>1, <1>2, <2>1, <2>2 DEF Covers
<1>4. Covers(x \o <<>>, x \o y)  BY <1>1, <1>3, CoversBehind
<1>5. x \o <<>> = x  BY <1>1
<1>. QED BY <1>1, <1>4, <1>5 DEF x

\* So may all of them at the end.
LEMMA CoversCut ==
  ASSUME NEW runs \in Seq(ARun), NEW m \in 0..Len(runs),
         \A k \in (m + 1)..Len(runs) : DrawsNothing(runs[k])
  PROVE  Covers(Inks(SubSeq(runs, 1, m)), Inks(runs))
<1>. DEFINE Cut(q) == \A j \in 0..Len(q) :
                (\A k \in (j + 1)..Len(q) : DrawsNothing(q[k]))
                    => Covers(Inks(SubSeq(q, 1, j)), Inks(q))
            T == {q \in Seq(ARun) : Cut(q)}
<1>0. ASSUME NEW q \in Seq(ARun)
      PROVE  SubSeq(q, 1, Len(q)) = q /\ Inks(q) \in Seq(AnInk) /\ Covers(Inks(q), Inks(q))
  <2>1. Len(q) \in 0..Len(q)  OBVIOUS
  <2>2. SubSeq(q, 1, Len(q)) = q
    <3>. DEFINE t == SubSeq(q, 1, Len(q))
    <3>1. t \in Seq(ARun) /\ Len(t) = Len(q) /\ \A k \in 1..Len(q) : t[k] = q[k]
      BY <2>1, Taken
    <3>. HIDE DEF t
    <3>2. t = q  BY <3>1, SameSeq
    <3>. QED BY <3>2 DEF t
  <2>3. Inks(q) \in Seq(AnInk)  BY InksType
  <2>. QED BY <2>2, <2>3, CoversSame
<1>1. <<>> \in T
  <2>1. <<>> \in Seq(ARun) /\ Len(<<>>) = 0 /\ 0..0 = {0}  OBVIOUS
  <2>2. SubSeq(<<>>, 1, 0) = <<>> /\ Covers(Inks(<<>>), Inks(<<>>))  BY <1>0, <2>1
  <2>. QED BY <2>1, <2>2
<1>2. ASSUME NEW q \in Seq(ARun), NEW r \in ARun, q \in T PROVE Append(q, r) \in T
  <2>. DEFINE p == Append(q, r)
              n == Len(q)
  <2>1. /\ p \in Seq(ARun) /\ Len(p) = n + 1 /\ p[n + 1] = r /\ n \in Nat
        /\ \A k \in 1..n : p[k] = q[k]
    BY Appended
  <2>2. Cut(q)  BY <1>2
  <2>3. DrawsNothing(r) => Covers(Inks(q), Inks(p))  BY CoversDropped
  <2>. HIDE DEF p
  <2>4. SUFFICES ASSUME NEW j \in 0..(n + 1),
                        \A k \in (j + 1)..(n + 1) : DrawsNothing(p[k])
                 PROVE  Covers(Inks(SubSeq(p, 1, j)), Inks(p))
    BY <2>1 DEF p
  <2>5. CASE j = n + 1  BY <1>0, <2>1, <2>5
  <2>6. CASE j # n + 1
    <3>1. j \in 0..n /\ n + 1 \in (j + 1)..(n + 1)  BY <2>1, <2>6
    <3>2. DrawsNothing(r)  BY <2>1, <2>4, <3>1
    <3>3. \A k \in (j + 1)..n : DrawsNothing(q[k])
      <4>1. \A k \in (j + 1)..n : k \in 1..n /\ k \in (j + 1)..(n + 1)  BY <2>1, <3>1
      <4>. QED BY <2>1, <2>4, <4>1
    <3>4. Covers(Inks(SubSeq(q, 1, j)), Inks(q))  BY <2>2, <3>1, <3>3
    <3>5. SubSeq(p, 1, j) = SubSeq(q, 1, j)
      <4>. DEFINE u == SubSeq(p, 1, j)
                  v == SubSeq(q, 1, j)
      <4>1. j \in 0..Len(p)  BY <2>1
      <4>2. u \in Seq(ARun) /\ Len(u) = j /\ \A k \in 1..j : u[k] = p[k]  BY <2>1, <4>1, Taken
      <4>3. v \in Seq(ARun) /\ Len(v) = j /\ \A k \in 1..j : v[k] = q[k]  BY <3>1, Taken
      <4>4. \A k \in 1..j : k \in 1..n  BY <2>1, <3>1
      <4>. HIDE DEF u, v
      <4>5. u = v  BY <2>1, <4>2, <4>3, <4>4, SameSeq
      <4>. QED BY <4>5 DEF u, v
    <3>. QED BY <2>3, <3>2, <3>4, <3>5, CoversChains
  <2>. QED BY <2>5, <2>6
<1>3. Seq(ARun) \subseteq T
  <2>. HIDE DEF T
  <2>. QED BY <1>1, <1>2, SeqInduct
<1>. QED BY <1>3

\* A last run without its blank end.
LEMMA Trimmed ==
  ASSUME NEW r \in ARun, ~Shows(r), Inked(r.text) # {}
  PROVE  LET t == [r EXCEPT !.text = SubSeq(@, 1, Max(Inked(@)))]
         IN  t \in ARun /\ t.look = r.look /\ Covers(RunInks(t), RunInks(r))
<1>. DEFINE t == [r EXCEPT !.text = SubSeq(@, 1, Max(Inked(@)))]
            n == Len(r.text)
            m == Max(Inked(r.text))
            cut == SubSeq(r.text, 1, m)
<1>1. r.look \in ALook /\ r.text \in Seq(Glyph)  BY DEF ARun
<1>2. n \in Nat /\ Inked(r.text) \in SUBSET (1..n)
  <2>1. Inked(r.text) \in SUBSET (1..n)  BY DEF Inked
  <2>2. n \in Nat  BY <1>1
  <2>. QED BY <2>1, <2>2
<1>3. m \in Inked(r.text) /\ \A k \in Inked(r.text) : k <= m  BY <1>2, MaxIn
<1>4. t = [look |-> r.look, text |-> cut]
  <2>1. t = [r EXCEPT !.text = cut]  OBVIOUS
  <2>. HIDE DEF cut, t
  <2>. QED BY <2>1 DEF ARun
<1>. HIDE DEF m, t, n
<1>5. m \in 1..n /\ m \in 0..Len(r.text)  BY <1>2, <1>3 DEF n
<1>6. cut \in Seq(Glyph) /\ Len(cut) = m /\ \A k \in 1..m : cut[k] = r.text[k]
  BY <1>1, <1>5, Taken
<1>. HIDE DEF cut
<1>7. t \in ARun /\ t.look = r.look /\ t.text = cut  BY <1>1, <1>4, <1>6 DEF ARun
<1>8. \A k \in (m + 1)..n : r.text[k] = " "
  <2>1. \A k \in (m + 1)..n : k \notin Inked(r.text) /\ k \in 1..n  BY <1>2, <1>3, <1>5
  <2>. QED BY <2>1 DEF Inked, n
<1>9. /\ RunInks(t) \in Seq(AnInk) /\ Len(RunInks(t)) = m
      /\ \A k \in 1..m : RunInks(t)[k] = LookInk(r.text[k], r.look)
  <2>1. /\ RunInks(t) \in Seq(AnInk) /\ Len(RunInks(t)) = Len(cut)
        /\ \A k \in 1..Len(cut) : RunInks(t)[k] = LookInk(cut[k], r.look)
    BY <1>7, RunDraws
  <2>. QED BY <1>6, <2>1
<1>10. /\ RunInks(r) \in Seq(AnInk) /\ Len(RunInks(r)) = n
       /\ \A k \in 1..n : RunInks(r)[k] = LookInk(r.text[k], r.look)
  BY RunDraws DEF n
<1>11. LookInk(" ", r.look) = Nothing  BY BlankShowsNothing
<1>12. /\ \A k \in 1..m : k \in 1..n
       /\ \A k \in (m + 1)..n : k \in 1..n
       /\ m <= n
  BY <1>2, <1>5
<1>13. Covers(RunInks(t), RunInks(r))
  <2>1. \A k \in 1..m : RunInks(r)[k] = RunInks(t)[k]  BY <1>9, <1>10, <1>12
  <2>2. \A k \in (m + 1)..n : RunInks(r)[k] = Nothing  BY <1>8, <1>10, <1>11, <1>12
  <2>. QED BY <1>9, <1>10, <1>12, <2>1, <2>2 DEF Covers
<1>. QED BY <1>7, <1>13 DEF t

\* trimTrailingBlank: what is dropped showed nothing, and the runs left differ
\* as they did.
LEMMA TrimPaints ==
  ASSUME NEW runs \in Seq(ARun), Differ(runs)
  PROVE  LET left == TrimTrailingBlank(runs)
         IN  Differ(left) /\ Covers(Inks(left), Inks(runs))
<1>. DEFINE n == Len(runs)
            kept == {k \in 1..n : Shows(runs[k]) \/ Inked(runs[k].text) # {}}
            m == IF kept = {} THEN 0 ELSE Max(kept)
            row == SubSeq(runs, 1, m)
            left == TrimTrailingBlank(runs)
            end == [Last(row) EXCEPT !.text = SubSeq(@, 1, Max(Inked(@)))]
<1>1. left = IF row = <<>> \/ Shows(Last(row)) THEN row ELSE Append(Front(row), end)
  BY DEF TrimTrailingBlank
<1>2. n \in Nat /\ kept \in SUBSET (1..n)  OBVIOUS
<1>3. /\ m \in 0..n /\ (m # 0 => m \in kept)
      /\ \A k \in (m + 1)..n : k \notin kept
  <2>1. CASE kept = {}
    <3>1. m = 0  BY <2>1
    <3>. HIDE DEF m, kept
    <3>. QED BY <1>2, <2>1, <3>1
  <2>2. CASE kept # {}
    <3>1. m = Max(kept)  BY <2>2
    <3>. HIDE DEF kept
    <3>2. Max(kept) \in kept /\ \A k \in kept : k <= Max(kept)  BY <1>2, <2>2, MaxIn
    <3>. HIDE DEF m
    <3>3. m \in 1..n  BY <1>2, <3>1, <3>2
    <3>. QED BY <1>2, <3>1, <3>2, <3>3
  <2>. QED BY <2>1, <2>2
<1>. HIDE DEF m, left, end
<1>4. row \in Seq(ARun) /\ Len(row) = m /\ \A k \in 1..m : row[k] = runs[k]
  BY <1>3, Taken
<1>5. Covers(Inks(row), Inks(runs))
  <2>1. \A k \in (m + 1)..n : k \in 1..n  BY <1>2, <1>3
  <2>2. \A k \in (m + 1)..n : DrawsNothing(runs[k])  BY <1>3, <2>1 DEF DrawsNothing
  <2>. QED BY <1>3, <2>2, CoversCut
<1>. HIDE DEF row
<1>6. Differ(row)
  <2>1. \A k \in 1..(m - 1) : k \in 1..m /\ k + 1 \in 1..m /\ k \in 1..(n - 1)  BY <1>2, <1>3
  <2>. QED BY <1>4, <2>1 DEF Differ
<1>7. CASE row = <<>> \/ Shows(Last(row))  BY <1>1, <1>5, <1>6, <1>7 DEF left
<1>8. CASE ~(row = <<>> \/ Shows(Last(row)))
  <2>. DEFINE f == Front(row)
              l == Last(row)
  <2>1. /\ Len(row) \in Nat \ {0}
        /\ f \in Seq(ARun) /\ l \in ARun /\ Len(f) = Len(row) - 1
        /\ \A k \in 1..(Len(row) - 1) : f[k] = row[k]
        /\ row = Append(f, l) /\ l = row[Len(row)]
    BY <1>4, <1>8, FrontLast
  <2>2. m \in Nat \ {0} /\ l = runs[m]
    <3>1. m \in 1..m  BY <1>3, <1>4, <2>1
    <3>. QED BY <1>4, <2>1, <3>1
  <2>3. ~Shows(l) /\ Inked(l.text) # {}
    <3>1. Shows(runs[m]) \/ Inked(runs[m].text) # {}  BY <1>3, <2>2
    <3>. QED BY <1>8, <2>2, <3>1
  <2>4. end = [l EXCEPT !.text = SubSeq(@, 1, Max(Inked(@)))]  BY DEF end
  <2>5. left = Append(f, end)  BY <1>1, <1>8
  <2>. HIDE DEF f, l
  <2>6. end \in ARun /\ end.look = l.look /\ Covers(RunInks(end), RunInks(l))
    BY <2>1, <2>3, <2>4, Trimmed
  <2>7. /\ Inks(left) = Inks(f) \o RunInks(end) /\ Inks(row) = Inks(f) \o RunInks(l)
        /\ Inks(f) \in Seq(AnInk)
    BY <2>1, <2>5, <2>6, InksAppend, InksType
  <2>8. Covers(Inks(left), Inks(row))  BY <2>6, <2>7, CoversBehind
  <2>9. Covers(Inks(left), Inks(runs))  BY <1>5, <2>8, CoversChains
  <2>10. Len(left) = m /\ left[m] = end /\ \A k \in 1..(m - 1) : left[k] = row[k]
    BY <1>4, <2>1, <2>2, <2>5, <2>6, Appended
  <2>11. \A k \in 1..m : left[k].look = row[k].look
    <3>1. TAKE k \in 1..m
    <3>2. CASE k = m  BY <1>4, <2>1, <2>6, <2>10, <3>2
    <3>3. CASE k # m
      <4>1. k \in 1..(m - 1)  BY <2>2, <3>3
      <4>. QED BY <2>10, <4>1
    <3>. QED BY <3>2, <3>3
  <2>12. Differ(left)
    <3>1. \A k \in 1..(m - 1) : k \in 1..m /\ k + 1 \in 1..m  BY <2>2
    <3>2. \A k \in 1..(m - 1) : row[k].look # row[k + 1].look  BY <1>4, <1>6 DEF Differ
    <3>3. \A k \in 1..(m - 1) : left[k].look # left[k + 1].look  BY <2>11, <3>1, <3>2
    <3>. QED BY <2>10, <3>3 DEF Differ
  <2>. QED BY <2>9, <2>12 DEF left
<1>. QED BY <1>7, <1>8

\* A row of cells is painted by its runs.
LEMMA RowPainted ==
  ASSUME NEW row \in Seq(ACell)
  PROVE  /\ Painted(GridRow(row), Len(GlyphCells(row))) = SeenCells(row)
         /\ Differ(GridRow(row))
<1>. DEFINE runs == Runs(row)
            left == TrimTrailingBlank(runs)
            x == Inks(left)
            y == SeenCells(row)
            n == Len(GlyphCells(row))
<1>1. runs \in Seq(ARun) /\ Inks(runs) = y /\ Differ(runs)  BY RunsPaint
<1>2. GridRow(row) = left  BY DEF GridRow
<1>3. y = [k \in 1..n |-> Resolved(GlyphCells(row)[k])]  BY DEF SeenCells
<1>. HIDE DEF runs
<1>4. Differ(left) /\ Covers(x, y)  BY <1>1, TrimPaints
<1>5. Painted(left, n) = [k \in 1..n |-> IF k <= Len(x) THEN x[k] ELSE Nothing]
  BY DEF Painted, Nothing
<1>6. n \in Nat  BY GlyphCellsType
<1>. HIDE DEF left, x, y, n
<1>7. Len(y) = n /\ y = [k \in 1..n |-> y[k]]  BY <1>3, <1>6
<1>8. \A k \in 1..n : y[k] = IF k <= Len(x) THEN x[k] ELSE Nothing
  <2>1. /\ \A k \in 1..Len(x) : y[k] = x[k]
        /\ \A k \in (Len(x) + 1)..n : y[k] = Nothing
        /\ Len(x) \in Nat
    <3>1. x \in Seq(AnInk)  BY <1>4 DEF Covers
    <3>2. Len(x) \in Nat  BY <3>1
    <3>3. /\ \A k \in 1..Len(x) : y[k] = x[k]
          /\ \A k \in (Len(x) + 1)..Len(y) : y[k] = Nothing
      BY <1>4, Zenon DEF Covers
    <3>4. Len(y) = n  BY <1>7, Zenon
    <3>. QED BY <3>2, <3>3, <3>4, Zenon
  <2>2. TAKE k \in 1..n
  <2>3. CASE k <= Len(x)
    <3>1. k \in 1..Len(x)  BY <1>6, <2>1, <2>3
    <3>. QED BY <2>1, <2>3, <3>1
  <2>4. CASE ~(k <= Len(x))
    <3>1. k \in (Len(x) + 1)..n  BY <1>6, <2>1, <2>4
    <3>. QED BY <2>1, <2>4, <3>1
  <2>. QED BY <2>3, <2>4
<1>9. Painted(left, n) = y  BY <1>5, <1>7, <1>8
<1>. QED BY <1>2, <1>4, <1>9 DEF y, n

\* PaintsTheCells: for any row a frame can hold, over any alphabet of glyphs and
\* colours, what gridRows of src/app/gridview.go hands to the pane screen draws
\* each glyph as its cell says, whatever was joined, inherited, swapped or
\* dropped at the end, and no two neighbouring runs could have been one.
THEOREM RowsArePainted == Spec => []PaintsTheCells
<1>. DEFINE Held == cells = <<>> \/ cells \in Rows
<1>1. Init => Held  BY DEF Init
<1>2. Held /\ [Next]_screensVars => Held'
  <2>1. [Next]_screensVars => UNCHANGED cells  BY DEF Next, screensVars
  <2>. QED BY <2>1
<1>3. Held => PaintsTheCells
  <2>1. SUFFICES ASSUME cells \in Rows PROVE PaintsTheCells  BY DEF PaintsTheCells
  <2>2. cells \in Seq(ACell)  BY <2>1, RowsAssumption DEF WellFormed, ACell
  <2>3. /\ Painted(GridRow(cells), Len(GlyphCells(cells))) = SeenCells(cells)
        /\ Differ(GridRow(cells))
    BY <2>2, RowPainted
  <2>. QED BY <2>3 DEF PaintsTheCells, SeenCells, Differ
<1>. QED BY <1>1, <1>2, <1>3, PTL DEF Spec
=============================================================================
