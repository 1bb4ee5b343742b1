---------------------------- MODULE StoreProofs -----------------------------
(***************************************************************************)
(* Theorems about Store, for any set of desks.                             *)
(*                                                                         *)
(* The inductive invariant IInv says what the operations may hold          *)
(* (TaskInv), that the file is the cache but for the row a put is in the   *)
(* middle of (LockInv), and, as long as nothing was torn or raced, that    *)
(* the operations under way are about different desks and work on the      *)
(* latest list (ApartInv, LatestInv), what each has done of its desk       *)
(* (PairInv, ForgetInv, SwitchInv), and what the rows are for the desks    *)
(* that are listed, saved and forgotten (RowsInv).                         *)
(***************************************************************************)
EXTENDS Store, SequenceTheorems, TLAPS

\* No write was torn by a kill, no two operations met on a desk.
Clean == ~torn /\ ~raced

\* The access the thread makes next in the cache: a put is made in the cache
\* before it holds the lock.
Coming(t) == IF lock = t THEN task[t].n + 1 ELSE task[t].n

\* What the thread's operation is.
Pairing(t)    == task[t].op = "pair"
Forgetting(t) == task[t].op = "forget"

\* Only a pairing runs beside the UI executor; a desk that is forgotten is not
\* in the list that is to be written.
TaskInv ==
    /\ task["pair"].op \in {"none", "pair"} /\ task["ui"].op \in {"none", "forget", "switch"}
    /\ \A t \in Thread : task[t].op # "none" => task[t].e \in Endpoint /\ task[t].n \in 1..Len(Steps(task[t].op))
    /\ \A t \in Thread : task[t].op = "none" => task[t] = Idle
    /\ \A t \in Thread : IsInjective(task[t].list)
    /\ \A t \in Thread : Forgetting(t) /\ task[t].n >= 2 => ~Contains(task[t].list, task[t].e)

\* The file is the cache, but for the row that a put has deleted and is to
\* insert.
LockInv ==
    /\ lock = Nobody /\ ~torn => mem = file
    /\ \A t \in Thread : lock = t =>
          /\ At(t, {"pin", "token", "list", "active"}) /\ ~Deletes(t)
          /\ ~torn => mem = Inserted(t) /\ file = Without(mem, Row(t), Subject(t))

\* Two operations are never about one desk.
ApartInv ==
    Clean => \A t, u \in Thread : t # u /\ task[t].op # "none" /\ task[u].op # "none" => task[t].e # task[u].e

\* A list about to be written was made from the list that is there.
LatestInv ==
    Clean => \A t \in Thread : At(t, {"list"}) /\ lock # t =>
        task[t].list = IF Pairing(t) THEN Added(mem.list, task[t].e) ELSE Kept(mem.list, task[t].e)

\* A pairing stores the pin, the token and the entry, in that order.
PairOk(t) ==
    /\ task[t].e \notin forgot
    /\ Coming(t) >= 2 => task[t].e \in mem.pins
    /\ Coming(t) >= 3 => task[t].e \in mem.tokens
    /\ Coming(t) >= 5 => Contains(mem.list, task[t].e)

\* Of every pairing under way.
PairInv == Clean => \A t \in Thread : Pairing(t) => PairOk(t)

\* A forget drops the entry, the token and the pin, in that order, and the desk
\* it makes active was listed.
ForgetOk(t) ==
    /\ task[t].e \notin saved
    /\ task[t].n >= 2 => \A e \in forgot : ~Contains(task[t].list, e)
    /\ Coming(t) >= 3 => ~Contains(mem.list, task[t].e)
    /\ Coming(t) >= 4 => task[t].e \notin mem.tokens
    /\ Coming(t) >= 5 => task[t].e \notin mem.pins
    /\ Coming(t) >= 6 => mem.active # task[t].e

\* Of every forget under way.
ForgetInv == Clean => \A t \in Thread : Forgetting(t) => ForgetOk(t)

\* A desk that is switched to was not forgotten.
SwitchInv == Clean => \A t \in Thread : task[t].op = "switch" => task[t].e \notin forgot

\* A desk is listed with its token and its pin; one that was saved is listed,
\* one that was forgotten is nowhere.
RowsInv ==
    Clean =>
        /\ \A e \in Endpoint : Contains(mem.list, e) => e \in mem.tokens /\ e \in mem.pins
        /\ \A e \in saved : Contains(mem.list, e)
        /\ \A e \in forgot : ~Contains(mem.list, e) /\ e \notin mem.tokens /\ e \notin mem.pins /\ mem.active # e

\* The inductive invariant.
IInv == TypeOK /\ TaskInv /\ LockInv /\ ApartInv /\ LatestInv /\ PairInv /\ ForgetInv /\ SwitchInv /\ RowsInv

-----------------------------------------------------------------------------
(* Lists and rows.                                                         *)

\* Nothing is in the empty list; the head of another is in it.
LEMMA Heads ==
    /\ <<>> \in Seq(Endpoint) /\ IsInjective(<<>>) /\ \A x : ~Contains(<<>>, x)
    /\ \A s \in Seq(Endpoint) : s # <<>> => Contains(s, Head(s)) /\ Head(s) \in Endpoint
<1>1. <<>> \in Seq(Endpoint) /\ Len(<<>>) = 0 /\ DOMAIN <<>> = {}
  OBVIOUS
<1>2. \A x : ~Contains(<<>>, x)
  BY <1>1 DEF Contains
<1>3. ASSUME NEW s \in Seq(Endpoint), s # <<>> PROVE Contains(s, Head(s)) /\ Head(s) \in Endpoint
  <2>1. Len(s) \in Nat \ {0} /\ Head(s) = s[1]
    BY <1>3, EmptySeq
  <2>2. 1 \in 1..Len(s) /\ Head(s) \in Endpoint
    BY <1>3, <2>1, HeadTailProperties
  <2>. QED BY <2>1, <2>2 DEF Contains
<1>. QED BY <1>1, <1>2, <1>3 DEF IsInjective

\* AddEndpoint keeps one entry a desk.
LEMMA AddedList ==
    ASSUME NEW s \in Seq(Endpoint), IsInjective(s), NEW e \in Endpoint
    PROVE  /\ Added(s, e) \in Seq(Endpoint) /\ IsInjective(Added(s, e))
           /\ \A x : Contains(Added(s, e), x) <=> Contains(s, x) \/ x = e
<1>1. CASE Contains(s, e)
  BY <1>1 DEF Added
<1>2. CASE ~Contains(s, e)
  <2> DEFINE z == Append(s, e)
  <2>1. Added(s, e) = z
    BY <1>2 DEF Added
  <2>2. /\ z \in Seq(Endpoint) /\ Len(s) \in Nat /\ Len(z) = Len(s) + 1
        /\ z[Len(s) + 1] = e /\ \A i \in 1..Len(s) : z[i] = s[i]
    OBVIOUS
  <2>3. DOMAIN s = 1..Len(s) /\ DOMAIN z = 1..Len(z)
    BY <2>2, LenProperties
  <2> HIDE DEF z
  <2>4. \A i \in 1..Len(z) : i \in 1..Len(s) \/ i = Len(s) + 1
    BY <2>2
  <2>5. \A i \in 1..Len(s) : i \in 1..Len(z) /\ s[i] # e
    BY <1>2, <2>2 DEF Contains
  <2>6. IsInjective(z)
    BY <2>2, <2>3, <2>4, <2>5 DEF IsInjective
  <2>7. Len(s) + 1 \in 1..Len(z)
    BY <2>2
  <2>8. \A x : Contains(z, x) <=> Contains(s, x) \/ x = e
    BY <2>2, <2>4, <2>5, <2>7 DEF Contains
  <2>. QED BY <2>1, <2>2, <2>6, <2>8
<1>. QED BY <1>1, <1>2

\* RemoveEndpoint drops the desk and keeps the others.
LEMMA KeptList ==
    ASSUME NEW s \in Seq(Endpoint), IsInjective(s), NEW e
    PROVE  /\ Kept(s, e) \in Seq(Endpoint) /\ IsInjective(Kept(s, e))
           /\ \A x : Contains(Kept(s, e), x) <=> Contains(s, x) /\ x # e
<1>1. CASE ~Contains(s, e)
  BY <1>1 DEF Kept
<1>2. CASE Contains(s, e)
  <2> DEFINE k == CHOOSE i \in 1..Len(s) : s[i] = e
             n == Len(s)
             z == RemoveAt(s, k)
             a == SubSeq(s, 1, k - 1)
             b == SubSeq(s, k + 1, n)
  <2>1. k \in 1..n /\ s[k] = e /\ n \in Nat
    BY <1>2 DEF Contains
  <2>2. Kept(s, e) = z
    BY <1>2 DEF Kept
  <2>3. z = a \o b
    BY DEF RemoveAt
  <2>4. \A i \in 1..n : s[i] \in Endpoint
    BY ElementOfSeq
  <2> HIDE DEF k, z, n
  <2>5. /\ a \in Seq(Endpoint) /\ Len(a) = k - 1
        /\ \A i \in 1..k - 1 : a[i] = s[i]
    <3>1. /\ SubSeq(s, 1, k - 1) \in Seq(Endpoint)
          /\ Len(SubSeq(s, 1, k - 1)) = IF 1 <= k - 1 THEN (k - 1) - 1 + 1 ELSE 0
          /\ \A i \in 1 .. (k - 1) - 1 + 1 : SubSeq(s, 1, k - 1)[i] = s[1 + i - 1]
      BY <2>1, <2>4, SubSeqProperties
    <3>2. (IF 1 <= k - 1 THEN (k - 1) - 1 + 1 ELSE 0) = k - 1
      BY <2>1
    <3>3. \A i \in 1..k - 1 : i \in 1 .. (k - 1) - 1 + 1 /\ 1 + i - 1 = i
      BY <2>1
    <3>. QED BY <3>1, <3>2, <3>3
  <2>6. /\ b \in Seq(Endpoint) /\ Len(b) = n - k
        /\ \A i \in 1..n - k : b[i] = s[k + i]
    <3>1. /\ SubSeq(s, k + 1, n) \in Seq(Endpoint)
          /\ Len(SubSeq(s, k + 1, n)) = IF k + 1 <= n THEN n - (k + 1) + 1 ELSE 0
          /\ \A i \in 1 .. n - (k + 1) + 1 : SubSeq(s, k + 1, n)[i] = s[(k + 1) + i - 1]
      <4>1. k + 1 \in Int /\ n \in Int /\ \A i \in k + 1 .. n : s[i] \in Endpoint
        BY <2>1, <2>4
      <4>. QED BY <4>1, SubSeqProperties
    <3>2. (IF k + 1 <= n THEN n - (k + 1) + 1 ELSE 0) = n - k
      BY <2>1
    <3>3. \A i \in 1..n - k : i \in 1 .. n - (k + 1) + 1 /\ (k + 1) + i - 1 = k + i
      BY <2>1
    <3>. QED BY <3>1, <3>2, <3>3
  <2> HIDE DEF a, b
  <2>7. /\ z \in Seq(Endpoint) /\ Len(z) = n - 1
        /\ \A i \in 1..n - 1 : z[i] = IF i < k THEN s[i] ELSE s[i + 1]
    <3>1. /\ a \o b \in Seq(Endpoint)
          /\ Len(a \o b) = Len(a) + Len(b)
          /\ \A i \in 1 .. Len(a) + Len(b) : (a \o b)[i] = IF i <= Len(a) THEN a[i] ELSE b[i - Len(a)]
      BY <2>5, <2>6, ConcatProperties
    <3>2. Len(a) + Len(b) = n - 1
      BY <2>1, <2>5, <2>6
    <3>3. ASSUME NEW i \in 1..n - 1, i < k PROVE z[i] = s[i]
      <4>1. i <= Len(a) /\ i \in 1..k - 1
        BY <2>1, <2>5, <3>3
      <4>. QED BY <2>3, <2>5, <3>1, <3>2, <4>1
    <3>4. ASSUME NEW i \in 1..n - 1, ~(i < k) PROVE z[i] = s[i + 1]
      <4>1. ~(i <= Len(a)) /\ i - Len(a) \in 1..n - k /\ k + (i - Len(a)) = i + 1
        BY <2>1, <2>5, <3>4
      <4>. QED BY <2>3, <2>6, <3>1, <3>2, <4>1
    <3>. QED BY <2>3, <3>1, <3>2, <3>3, <3>4
  <2>8. DOMAIN s = 1..n /\ DOMAIN z = 1..n - 1
    BY <2>7, LenProperties DEF n
  <2>9. \A i, j \in 1..n : s[i] = s[j] => i = j
    BY <2>8 DEF IsInjective
  <2>10. IsInjective(z)
    <3>1. ASSUME NEW i \in 1..n - 1, NEW j \in 1..n - 1, z[i] = z[j] PROVE i = j
      <4>1. i \in 1..n /\ j \in 1..n /\ i + 1 \in 1..n /\ j + 1 \in 1..n
        BY <2>1
      <4>2. CASE i < k /\ j < k
        BY <2>7, <2>9, <3>1, <4>1, <4>2
      <4>3. CASE i < k /\ ~(j < k)
        <5>1. i = j + 1
          BY <2>7, <2>9, <3>1, <4>1, <4>3
        <5>. QED BY <2>1, <4>3, <5>1
      <4>4. CASE ~(i < k) /\ j < k
        <5>1. j = i + 1
          BY <2>7, <2>9, <3>1, <4>1, <4>4
        <5>. QED BY <2>1, <4>4, <5>1
      <4>5. CASE ~(i < k) /\ ~(j < k)
        <5>1. i + 1 = j + 1
          BY <2>7, <2>9, <3>1, <4>1, <4>5
        <5>. QED BY <2>1, <5>1
      <4>. QED BY <2>1, <4>2, <4>3, <4>4, <4>5
    <3>. QED BY <2>8, <3>1 DEF IsInjective
  <2>11. ASSUME NEW x PROVE Contains(z, x) <=> Contains(s, x) /\ x # e
    <3>1. ASSUME NEW i \in 1..n - 1, z[i] = x PROVE Contains(s, x) /\ x # e
      <4>1. CASE i < k
        <5>1. i \in 1..n /\ i # k /\ s[i] = x
          BY <2>1, <2>7, <3>1, <4>1
        <5>. QED BY <2>1, <2>9, <5>1 DEF Contains, n
      <4>2. CASE ~(i < k)
        <5>1. i + 1 \in 1..n /\ i + 1 # k /\ s[i + 1] = x
          BY <2>1, <2>7, <3>1, <4>2
        <5>. QED BY <2>1, <2>9, <5>1 DEF Contains, n
      <4>. QED BY <4>1, <4>2
    <3>2. ASSUME NEW i \in 1..n, s[i] = x, x # e PROVE Contains(z, x)
      <4>1. i # k
        BY <2>1, <3>2
      <4>2. CASE i < k
        <5>1. i \in 1..n - 1 /\ z[i] = x
          BY <2>1, <2>7, <3>2, <4>2
        <5>. QED BY <2>7, <5>1 DEF Contains
      <4>3. CASE i > k
        <5>1. i - 1 \in 1..n - 1 /\ ~(i - 1 < k) /\ (i - 1) + 1 = i
          BY <2>1, <4>3
        <5>2. z[i - 1] = x
          BY <2>7, <3>2, <5>1
        <5>. QED BY <2>7, <5>1, <5>2 DEF Contains
      <4>. QED BY <2>1, <4>1, <4>2, <4>3
    <3>3. Contains(z, x) => \E i \in 1..n - 1 : z[i] = x
      BY <2>7 DEF Contains
    <3>4. Contains(s, x) => \E i \in 1..n : s[i] = x
      BY DEF Contains, n
    <3>. QED BY <3>1, <3>2, <3>3, <3>4
  <2>. QED BY <2>2, <2>7, <2>10, <2>11
<1>. QED BY <1>1, <1>2

\* The kinds of row.
RowName == {"list", "active", "token", "pin"}

\* What a put does to the rows.
LEMMA WithRow ==
    ASSUME NEW r \in Rows, NEW k \in RowName, NEW e \in Endpoint, NEW s
    PROVE  /\ With(r, k, e, s).list = (IF k = "list" THEN s ELSE r.list)
           /\ With(r, k, e, s).active = (IF k = "active" THEN e ELSE r.active)
<1>1. CASE k = "list"
  BY <1>1 DEF With, Rows
<1>2. CASE k = "active"
  BY <1>2 DEF With, Rows
<1>3. CASE k = "token"
  BY <1>3 DEF With, Rows
<1>4. CASE k = "pin"
  BY <1>4 DEF With, Rows
<1>. QED BY <1>1, <1>2, <1>3, <1>4 DEF RowName

\* The same of the tokens.
LEMMA WithTokens ==
    ASSUME NEW r \in Rows, NEW k \in RowName, NEW e \in Endpoint, NEW s
    PROVE  /\ k = "token" => With(r, k, e, s).tokens = r.tokens \cup {e}
           /\ k # "token" => With(r, k, e, s).tokens = r.tokens
<1>1. CASE k = "list"
  BY <1>1 DEF With, Rows
<1>2. CASE k = "active"
  BY <1>2 DEF With, Rows
<1>3. CASE k = "token"
  BY <1>3 DEF With, Rows
<1>4. CASE k = "pin"
  BY <1>4 DEF With, Rows
<1>. QED BY <1>1, <1>2, <1>3, <1>4 DEF RowName

\* And of the pins.
LEMMA WithPins ==
    ASSUME NEW r \in Rows, NEW k \in RowName, NEW e \in Endpoint, NEW s
    PROVE  /\ k = "pin" => With(r, k, e, s).pins = r.pins \cup {e}
           /\ k # "pin" => With(r, k, e, s).pins = r.pins
<1>1. CASE k = "list"
  BY <1>1 DEF With, Rows
<1>2. CASE k = "active"
  BY <1>2 DEF With, Rows
<1>3. CASE k = "token"
  BY <1>3 DEF With, Rows
<1>4. CASE k = "pin"
  BY <1>4 DEF With, Rows
<1>. QED BY <1>1, <1>2, <1>3, <1>4 DEF RowName

\* A put keeps the rows well typed.
LEMMA WithType ==
    ASSUME NEW r \in Rows, NEW k \in RowName, NEW e \in Endpoint, NEW s \in Seq(Endpoint)
    PROVE  With(r, k, e, s) \in Rows
<1>1. CASE k = "list"
  BY <1>1 DEF With, Rows
<1>2. CASE k = "active"
  BY <1>2 DEF With, Rows
<1>3. CASE k = "token"
  BY <1>3 DEF With, Rows
<1>4. CASE k = "pin"
  BY <1>4 DEF With, Rows
<1>. QED BY <1>1, <1>2, <1>3, <1>4 DEF RowName

\* What a del does to the rows.
LEMMA WithoutRow ==
    ASSUME NEW r \in Rows, NEW k \in RowName, NEW e \in Endpoint
    PROVE  /\ Without(r, k, e) \in Rows
           /\ Without(r, k, e).list = (IF k = "list" THEN <<>> ELSE r.list)
           /\ Without(r, k, e).active = (IF k = "active" THEN NoEndpoint ELSE r.active)
           /\ Without(r, k, e).tokens = (IF k = "token" THEN r.tokens \ {e} ELSE r.tokens)
           /\ Without(r, k, e).pins = (IF k = "pin" THEN r.pins \ {e} ELSE r.pins)
<1>1. <<>> \in Seq(Endpoint)
  OBVIOUS
<1>2. CASE k = "list"
  BY <1>1, <1>2 DEF Without, Rows
<1>3. CASE k = "active"
  BY <1>3 DEF Without, Rows
<1>4. CASE k = "token"
  BY <1>4 DEF Without, Rows
<1>5. CASE k = "pin"
  BY <1>5 DEF Without, Rows
<1>. QED BY <1>2, <1>3, <1>4, <1>5 DEF RowName

\* The INSERT makes up for the DELETE.
LEMMA PutBack ==
    ASSUME NEW r \in Rows, NEW k \in RowName, NEW e \in Endpoint, NEW s \in Seq(Endpoint)
    PROVE  /\ With(Without(r, k, e), k, e, s) = With(r, k, e, s)
           /\ Without(With(r, k, e, s), k, e) = Without(r, k, e)
<1>1. CASE k = "list"
  BY <1>1 DEF With, Without, Rows
<1>2. CASE k = "active"
  BY <1>2 DEF With, Without, Rows
<1>3. CASE k = "token"
  <2>1. (r.tokens \ {e}) \cup {e} = r.tokens \cup {e} /\ (r.tokens \cup {e}) \ {e} = r.tokens \ {e}
    OBVIOUS
  <2>. QED BY <1>3, <2>1 DEF With, Without, Rows
<1>4. CASE k = "pin"
  <2>1. (r.pins \ {e}) \cup {e} = r.pins \cup {e} /\ (r.pins \cup {e}) \ {e} = r.pins \ {e}
    OBVIOUS
  <2>. QED BY <1>4, <2>1 DEF With, Without, Rows
<1>. QED BY <1>1, <1>2, <1>3, <1>4 DEF RowName


-----------------------------------------------------------------------------
(* Operations.                                                             *)

\* The accesses of an operation, by number.
LEMMA RowTable ==
    ASSUME TypeOK, TaskInv, NEW t \in Thread, task[t].op # "none"
    PROVE  /\ task[t].e \in Endpoint /\ task[t].n \in 1..5 /\ task[t].n \in 1..Len(Steps(task[t].op))
           /\ task[t].list \in Seq(Endpoint) /\ IsInjective(task[t].list)
           /\ \/ /\ task[t].op = "pair" /\ t = "pair" /\ Len(Steps(task[t].op)) = 5
                 /\ Row(t) = CASE task[t].n = 1 -> "pin" [] task[t].n = 2 -> "token" [] task[t].n = 3 -> "read"
                               [] task[t].n = 4 -> "list" [] task[t].n = 5 -> "active"
              \/ /\ task[t].op = "forget" /\ t = "ui" /\ Len(Steps(task[t].op)) = 5
                 /\ Row(t) = CASE task[t].n = 1 -> "read" [] task[t].n = 2 -> "list" [] task[t].n = 3 -> "token"
                               [] task[t].n = 4 -> "pin" [] task[t].n = 5 -> "active"
              \/ /\ task[t].op = "switch" /\ t = "ui" /\ Len(Steps(task[t].op)) = 2 /\ task[t].n \in 1..2
                 /\ Row(t) = CASE task[t].n = 1 -> "read" [] task[t].n = 2 -> "active"
<1>1. /\ task[t].e \in Endpoint /\ task[t].n \in 1..Len(Steps(task[t].op))
      /\ task[t].list \in Seq(Endpoint) /\ IsInjective(task[t].list) /\ task[t].n \in 1..5
  BY DEF TypeOK, TaskInv, Task
<1>2. (t = "pair" /\ task[t].op = "pair") \/ (t = "ui" /\ task[t].op \in {"forget", "switch"})
  BY DEF TaskInv, Thread
<1>3. CASE task[t].op = "pair"
  <2>1. Steps(task[t].op) = <<"pin", "token", "read", "list", "active">>
    BY <1>3 DEF Steps
  <2>. QED BY <1>1, <1>2, <1>3, <2>1 DEF Row
<1>4. CASE task[t].op = "forget"
  <2>1. Steps(task[t].op) = <<"read", "list", "token", "pin", "active">>
    BY <1>4 DEF Steps
  <2>. QED BY <1>1, <1>2, <1>4, <2>1 DEF Row
<1>5. CASE task[t].op = "switch"
  <2>1. Steps(task[t].op) = <<"read", "active">>
    BY <1>5 DEF Steps
  <2>. QED BY <1>1, <1>2, <1>5, <2>1 DEF Row
<1>. QED BY <1>2, <1>3, <1>4, <1>5

\* What a put names is a desk.
LEMMA SubjectIsDesk ==
    ASSUME TypeOK, TaskInv, NEW t \in Thread, task[t].op # "none", ~Deletes(t)
    PROVE  Subject(t) \in Endpoint
<1>1. task[t].e \in Endpoint /\ task[t].list \in Seq(Endpoint)
  BY RowTable
<1>2. CASE task[t].op = "forget"
  <2>1. Head(task[t].list) \in Endpoint
    BY <1>1, <1>2, Heads DEF Deletes
  <2>. QED BY <1>1, <2>1 DEF Subject, NextActive
<1>. QED BY <1>1, <1>2 DEF Subject, NextActive

\* On to the next access, or out of the operation.
LEMMA Moved ==
    ASSUME TypeOK, TaskInv, NEW t \in Thread, task[t].op # "none", Goes(t)
    PROVE  /\ task' \in [Thread -> Task] /\ \A u \in Thread \ {t} : task'[u] = task[u]
           /\ \/ task[t].n = Len(Steps(task[t].op)) /\ task'[t] = Idle
              \/ /\ task[t].n < Len(Steps(task[t].op)) /\ task'[t].n = task[t].n + 1
                 /\ task'[t].op = task[t].op /\ task'[t].e = task[t].e
                 /\ task'[t].list = IF task[t].op = "pair" THEN <<>> ELSE task[t].list
<1>1. Idle \in Task
  BY Heads DEF Idle, Task
<1>2. task \in [Thread -> Task] /\ task[t] \in Task
  BY DEF TypeOK
<1>3. task[t].n \in 1..Len(Steps(task[t].op)) /\ Len(Steps(task[t].op)) \in 1..5
  BY RowTable
<1>4. CASE task[t].n = Len(Steps(task[t].op))
  <2>1. task' = [task EXCEPT ![t] = Idle]
    BY <1>2, <1>4 DEF Goes
  <2>. QED BY <1>1, <1>2, <1>4, <2>1
<1>5. CASE task[t].n # Len(Steps(task[t].op))
  <2> DEFINE z == [task[t] EXCEPT !.n = task[t].n + 1, !.list = IF task[t].op = "pair" THEN <<>> ELSE task[t].list]
  <2>1. task' = [task EXCEPT ![t] = IF task[t].n = Len(Steps(task[t].op)) THEN Idle ELSE z]
    BY <1>2 DEF Goes
  <2>5. task' = [task EXCEPT ![t] = z]
    <3> HIDE DEF z
    <3>. QED BY <1>5, <2>1
  <2>2. task[t].n + 1 \in 1..5 /\ task[t].n < Len(Steps(task[t].op))
    <3>1. \A n, k : n \in 1..k /\ k \in 1..5 /\ n # k => n + 1 \in 1..5 /\ n < k
      OBVIOUS
    <3> HIDE DEF z
    <3>. QED BY <1>3, <1>5, <3>1
  <2>3. /\ z \in Task /\ z.n = task[t].n + 1 /\ z.op = task[t].op /\ z.e = task[t].e
        /\ z.list = IF task[t].op = "pair" THEN <<>> ELSE task[t].list
    BY <1>2, <2>2, Heads DEF Task
  <2> HIDE DEF z
  <2>. QED BY <1>2, <2>2, <2>3, <2>5
<1>. QED BY <1>4, <1>5

\* A read is the first access or, in a pairing, the third.
LEMMA Reading ==
    ASSUME TypeOK, TaskInv, NEW t \in Thread, ReadsList(t)
    PROVE  /\ task[t].op # "none" /\ lock = Nobody /\ mem' = mem /\ file' = file /\ lock' = lock /\ UNCHANGED histVars
           /\ task' \in [Thread -> Task] /\ \A u \in Thread \ {t} : task'[u] = task[u]
           /\ \/ task[t].op = "switch" /\ task'[t] = Idle
              \/ /\ task'[t].op = task[t].op /\ task'[t].e = task[t].e /\ task'[t].n = task[t].n + 1
                 /\ task'[t].list = NextList(t)
                 /\ task[t].op = "pair" => task[t].n = 3
                 /\ task[t].op # "pair" => task[t].n = 1
           /\ NextList(t) \in Seq(Endpoint) /\ IsInjective(NextList(t))
           /\ task[t].op = "forget" => \A x : Contains(NextList(t), x) <=> Contains(mem.list, x) /\ x # task[t].e
<1>1. /\ task[t].op # "none" /\ lock = Nobody /\ mem' = mem /\ file' = file /\ lock' = lock /\ UNCHANGED histVars
      /\ Row(t) = "read"
  BY DEF ReadsList, At
<1>2. /\ task[t].e \in Endpoint /\ task[t].n \in 1..5
      /\ task[t].op \in {"pair", "forget", "switch"}
      /\ task[t].op = "pair" => task[t].n = 3
      /\ task[t].op # "pair" => task[t].n = 1
  <2>1. /\ task[t].e \in Endpoint /\ task[t].n \in 1..5
        /\ task[t].op \in {"pair", "forget", "switch"}
    BY <1>1, RowTable
  <2>2. task[t].op = "pair" => task[t].n = 3
    BY <1>1, <2>1, RowTable
  <2>3. task[t].op = "forget" => task[t].n = 1
    BY <1>1, <2>1, RowTable
  <2>4. task[t].op = "switch" => task[t].n = 1
    BY <1>1, <2>1, RowTable
  <2>. QED BY <2>1, <2>2, <2>3, <2>4
<1>3. mem.list \in Seq(Endpoint) /\ IsInjective(mem.list)
  BY DEF TypeOK, Rows
<1>4. /\ NextList(t) \in Seq(Endpoint) /\ IsInjective(NextList(t))
      /\ task[t].op = "forget" => \A x : Contains(NextList(t), x) <=> Contains(mem.list, x) /\ x # task[t].e
  <2>1. CASE task[t].op = "pair"
    BY <1>2, <1>3, <2>1, AddedList DEF NextList
  <2>2. CASE task[t].op = "forget"
    <3>1. NextList(t) = Kept(mem.list, task[t].e)
      BY <2>2 DEF NextList
    <3>. QED BY <1>3, <3>1, KeptList
  <2>3. CASE task[t].op = "switch"
    BY <2>3, Heads DEF NextList
  <2>. QED BY <1>2, <2>1, <2>2, <2>3
<1>5. task \in [Thread -> Task] /\ task[t] \in Task /\ Idle \in Task
  BY Heads DEF TypeOK, Idle, Task
<1>6. CASE task[t].op = "switch" /\ ~Contains(mem.list, task[t].e)
  <2>1. task' = [task EXCEPT ![t] = Idle]
    BY <1>6 DEF ReadsList
  <2>2. task' \in [Thread -> Task] /\ task'[t] = Idle /\ \A u \in Thread \ {t} : task'[u] = task[u]
    BY <1>5, <2>1
  <2>. QED BY <1>1, <1>4, <1>6, <2>2
<1>7. CASE ~(task[t].op = "switch" /\ ~Contains(mem.list, task[t].e))
  <2> DEFINE z == [task[t] EXCEPT !.n = task[t].n + 1, !.list = NextList(t)]
  <2>1. task' = [task EXCEPT ![t] = z]
    <3>1. task' = [task EXCEPT ![t].n = @ + 1, ![t].list = NextList(t)]
      BY <1>7 DEF ReadsList
    <3>. QED BY <1>5, <3>1
  <2>2. task[t].n + 1 \in 1..5
    BY <1>2
  <2>3. z \in Task /\ z.n = task[t].n + 1 /\ z.op = task[t].op /\ z.e = task[t].e /\ z.list = NextList(t)
    BY <1>4, <1>5, <2>2 DEF Task
  <2> HIDE DEF z
  <2>4. /\ task' \in [Thread -> Task] /\ task'[t] = z
        /\ \A u \in Thread \ {t} : task'[u] = task[u]
    BY <1>5, <2>1, <2>3
  <2>. QED BY <1>1, <1>2, <1>4, <2>3, <2>4
<1>. QED BY <1>6, <1>7

\* An operation that starts.
LEMMA Starting ==
    ASSUME TypeOK, TaskInv, LockInv, NEW t \in Thread, NEW o \in {"pair", "forget", "switch"}, NEW e \in Endpoint, Start(t, o, e)
    PROVE  /\ task[t].op = "none" /\ lock # t /\ mem' = mem /\ file' = file /\ lock' = lock /\ torn' = torn
           /\ task' \in [Thread -> Task] /\ \A u \in Thread \ {t} : task'[u] = task[u]
           /\ task'[t].op = o /\ task'[t].e = e /\ task'[t].n = 1 /\ task'[t].list = <<>>
<1>1. task \in [Thread -> Task] /\ Idle \in Task
  BY Heads DEF TypeOK, Idle, Task
<1>2. mem' = mem /\ file' = file /\ lock' = lock /\ torn' = torn /\ task[t] = Idle
  BY DEF Start
<1>3. task[t].op = "none"
  BY <1>2 DEF Idle
<1>4. lock # t
  BY <1>3 DEF LockInv, At
<1> DEFINE z == [op |-> o, n |-> 1, e |-> e, list |-> <<>>]
<1>5. z \in Task /\ z.op = o /\ z.e = e /\ z.n = 1 /\ z.list = <<>>
  <2>1. 1 \in 1..5 /\ <<>> \in Seq(Endpoint)
    BY Heads
  <2>. QED BY <2>1 DEF Task
<1>6. task' = [task EXCEPT ![t] = z]
  BY DEF Start
<1> HIDE DEF z
<1>. QED BY <1>1, <1>2, <1>3, <1>4, <1>5, <1>6

\* What a put and a del make of the rows.
LEMMA Wrote ==
    ASSUME TypeOK, TaskInv, NEW t \in Thread, task[t].op # "none", Row(t) \in RowName
    PROVE  /\ ~Deletes(t) =>
                /\ CachedOnly(t) \in Rows /\ IsInjective(CachedOnly(t).list)
                /\ Without(file, Row(t), Subject(t)) \in Rows /\ IsInjective(Without(file, Row(t), Subject(t)).list)
                /\ Inserted(t) \in Rows /\ IsInjective(Inserted(t).list)
           /\ Without(mem, Row(t), task[t].e) \in Rows /\ IsInjective(Without(mem, Row(t), task[t].e).list)
           /\ Without(file, Row(t), task[t].e) \in Rows /\ IsInjective(Without(file, Row(t), task[t].e).list)
<1>1. mem \in Rows /\ file \in Rows /\ IsInjective(mem.list) /\ IsInjective(file.list)
  BY DEF TypeOK
<1>2. task[t].e \in Endpoint /\ task[t].list \in Seq(Endpoint) /\ IsInjective(task[t].list)
  BY RowTable
<1>3. IsInjective(<<>>)
  BY Heads
<1>4. ASSUME ~Deletes(t)
      PROVE  /\ CachedOnly(t) \in Rows /\ IsInjective(CachedOnly(t).list)
             /\ Without(file, Row(t), Subject(t)) \in Rows /\ IsInjective(Without(file, Row(t), Subject(t)).list)
             /\ Inserted(t) \in Rows /\ IsInjective(Inserted(t).list)
  <2>1. Subject(t) \in Endpoint
    BY <1>4, SubjectIsDesk
  <2>2. /\ CachedOnly(t) \in Rows /\ Inserted(t) \in Rows /\ Without(file, Row(t), Subject(t)) \in Rows
        /\ CachedOnly(t).list = (IF Row(t) = "list" THEN task[t].list ELSE mem.list)
        /\ Inserted(t).list = (IF Row(t) = "list" THEN task[t].list ELSE file.list)
        /\ Without(file, Row(t), Subject(t)).list = (IF Row(t) = "list" THEN <<>> ELSE file.list)
    <3>1. /\ With(mem, Row(t), Subject(t), task[t].list) \in Rows
          /\ With(mem, Row(t), Subject(t), task[t].list).list = (IF Row(t) = "list" THEN task[t].list ELSE mem.list)
      <4>1. With(mem, Row(t), Subject(t), task[t].list) \in Rows
        BY <1>1, <1>2, <2>1, WithType
      <4>2. With(mem, Row(t), Subject(t), task[t].list).list = (IF Row(t) = "list" THEN task[t].list ELSE mem.list)
        BY <1>1, <2>1, WithRow
      <4>. QED BY <4>1, <4>2
    <3>2. /\ With(file, Row(t), Subject(t), task[t].list) \in Rows
          /\ With(file, Row(t), Subject(t), task[t].list).list = (IF Row(t) = "list" THEN task[t].list ELSE file.list)
      <4>1. With(file, Row(t), Subject(t), task[t].list) \in Rows
        BY <1>1, <1>2, <2>1, WithType
      <4>2. With(file, Row(t), Subject(t), task[t].list).list = (IF Row(t) = "list" THEN task[t].list ELSE file.list)
        BY <1>1, <2>1, WithRow
      <4>. QED BY <4>1, <4>2
    <3>3. /\ Without(file, Row(t), Subject(t)) \in Rows
          /\ Without(file, Row(t), Subject(t)).list = (IF Row(t) = "list" THEN <<>> ELSE file.list)
      BY <1>1, <2>1, WithoutRow
    <3>. QED BY <3>1, <3>2, <3>3 DEF CachedOnly, Inserted
  <2>. QED BY <1>1, <1>2, <1>3, <2>2
<1>5. /\ Without(mem, Row(t), task[t].e) \in Rows /\ Without(file, Row(t), task[t].e) \in Rows
      /\ Without(mem, Row(t), task[t].e).list = (IF Row(t) = "list" THEN <<>> ELSE mem.list)
      /\ Without(file, Row(t), task[t].e).list = (IF Row(t) = "list" THEN <<>> ELSE file.list)
  <2>1. /\ Without(mem, Row(t), task[t].e) \in Rows
        /\ Without(mem, Row(t), task[t].e).list = (IF Row(t) = "list" THEN <<>> ELSE mem.list)
    BY <1>1, <1>2, WithoutRow
  <2>2. /\ Without(file, Row(t), task[t].e) \in Rows
        /\ Without(file, Row(t), task[t].e).list = (IF Row(t) = "list" THEN <<>> ELSE file.list)
    BY <1>1, <1>2, WithoutRow
  <2>. QED BY <2>1, <2>2
<1>. QED BY <1>1, <1>3, <1>4, <1>5

\* An access of a desk's row leaves the rows of the others alone.
Changes(t) ==
    /\ Row(t) # "list" => mem'.list = mem.list
    /\ Row(t) = "list" /\ Pairing(t) => \A x : Contains(mem'.list, x) <=> Contains(mem.list, x) \/ x = task[t].e
    /\ Row(t) = "list" /\ Forgetting(t) => \A x : Contains(mem'.list, x) <=> Contains(mem.list, x) /\ x # task[t].e
    /\ mem'.tokens = IF Row(t) # "token" THEN mem.tokens
                     ELSE IF Pairing(t) THEN mem.tokens \cup {task[t].e} ELSE mem.tokens \ {task[t].e}
    /\ mem'.pins = IF Row(t) # "pin" THEN mem.pins
                   ELSE IF Pairing(t) THEN mem.pins \cup {task[t].e} ELSE mem.pins \ {task[t].e}
    /\ Row(t) # "active" => mem'.active = mem.active
    /\ Row(t) = "active" /\ ~Forgetting(t) => mem'.active = task[t].e
    /\ Row(t) = "active" /\ Forgetting(t) =>
         mem'.active = NoEndpoint \/ (Contains(task[t].list, mem'.active) /\ mem'.active \in Endpoint)

\* A put or a del of a desk's row, when its list is the latest.
LEMMA WroteOne ==
    ASSUME TypeOK, TaskInv, LatestInv, Clean, NEW t \in Thread, PutStarts(t) \/ Dels(t, TRUE)
    PROVE  /\ task[t].op # "none" /\ lock = Nobody /\ Row(t) \in RowName
           /\ Changes(t)
<1>1. Writes(t) /\ task[t].op # "none" /\ lock = Nobody /\ Row(t) \in RowName /\ lock # t
  BY DEF PutStarts, Dels, Writes, At, Thread, Nobody, RowName
<1>2. mem \in Rows /\ IsInjective(mem.list) /\ mem.list \in Seq(Endpoint)
  BY DEF TypeOK, Rows
<1>3. task[t].e \in Endpoint /\ task[t].list \in Seq(Endpoint) /\ task[t].op \in {"pair", "forget", "switch"}
  BY <1>1, RowTable
<1>4. ASSUME Row(t) = "list"
      PROVE  /\ Pairing(t) => \A x : Contains(task[t].list, x) <=> Contains(mem.list, x) \/ x = task[t].e
             /\ Forgetting(t) => \A x : Contains(task[t].list, x) <=> Contains(mem.list, x) /\ x # task[t].e
  <2>1. task[t].list = IF Pairing(t) THEN Added(mem.list, task[t].e) ELSE Kept(mem.list, task[t].e)
    BY <1>1, <1>4 DEF LatestInv, At
  <2>2. CASE Pairing(t)
    <3>1. \A x : Contains(Added(mem.list, task[t].e), x) <=> Contains(mem.list, x) \/ x = task[t].e
      BY <1>2, <1>3, AddedList
    <3>. QED BY <2>1, <2>2, <3>1 DEF Pairing, Forgetting
  <2>3. CASE ~Pairing(t)
    <3>1. \A x : Contains(Kept(mem.list, task[t].e), x) <=> Contains(mem.list, x) /\ x # task[t].e
      BY <1>2, <1>3, KeptList
    <3>. QED BY <2>1, <2>3, <3>1
  <2>. QED BY <2>2, <2>3
<1>5. ASSUME PutStarts(t) PROVE Changes(t)
  <2>1. ~Deletes(t) /\ mem' = With(mem, Row(t), Subject(t), task[t].list)
    BY <1>5 DEF PutStarts, CachedOnly
  <2>2. Subject(t) \in Endpoint
    BY <1>1, <2>1, SubjectIsDesk
  <2>3. /\ mem'.list = (IF Row(t) = "list" THEN task[t].list ELSE mem.list)
        /\ mem'.active = (IF Row(t) = "active" THEN Subject(t) ELSE mem.active)
        /\ mem'.tokens = (IF Row(t) = "token" THEN mem.tokens \cup {Subject(t)} ELSE mem.tokens)
        /\ mem'.pins = (IF Row(t) = "pin" THEN mem.pins \cup {Subject(t)} ELSE mem.pins)
    <3> DEFINE w == With(mem, Row(t), Subject(t), task[t].list)
    <3>1. /\ w.list = (IF Row(t) = "list" THEN task[t].list ELSE mem.list)
          /\ w.active = (IF Row(t) = "active" THEN Subject(t) ELSE mem.active)
          /\ w.tokens = (IF Row(t) = "token" THEN mem.tokens \cup {Subject(t)} ELSE mem.tokens)
          /\ w.pins = (IF Row(t) = "pin" THEN mem.pins \cup {Subject(t)} ELSE mem.pins)
      <4>1. /\ w.list = (IF Row(t) = "list" THEN task[t].list ELSE mem.list)
            /\ w.active = (IF Row(t) = "active" THEN Subject(t) ELSE mem.active)
        BY <1>1, <1>2, <2>2, WithRow
      <4>2. /\ Row(t) = "token" => w.tokens = mem.tokens \cup {Subject(t)}
            /\ Row(t) # "token" => w.tokens = mem.tokens
        BY <1>1, <1>2, <2>2, WithTokens
      <4>3. /\ Row(t) = "pin" => w.pins = mem.pins \cup {Subject(t)}
            /\ Row(t) # "pin" => w.pins = mem.pins
        BY <1>1, <1>2, <2>2, WithPins
      <4> HIDE DEF w
      <4>. QED BY <4>1, <4>2, <4>3
    <3> HIDE DEF w
    <3>2. mem' = w
      BY <2>1 DEF w
    <3>. QED BY <3>1, <3>2
  <2>4. Row(t) # "active" => Subject(t) = task[t].e
    BY DEF Subject
  <2>5. Row(t) \in {"token", "pin"} => Pairing(t)
    <3>1. Row(t) \in {"token", "pin"} => task[t].op # "forget"
      BY <2>1 DEF Deletes
    <3>2. task[t].op = "switch" => Row(t) \in {"read", "active"}
      BY <1>1, RowTable
    <3>. QED BY <1>3, <3>1, <3>2 DEF Pairing
  <2>6. Row(t) = "active" /\ ~Forgetting(t) => Subject(t) = task[t].e
    BY DEF Subject, NextActive, Forgetting
  <2>7. Row(t) = "active" /\ Forgetting(t) => Contains(task[t].list, Subject(t))
    <3>1. Forgetting(t) => task[t].list # <<>>
      BY <2>1 DEF Deletes, Forgetting
    <3>2. task[t].list # <<>> => Contains(task[t].list, Head(task[t].list))
      BY <1>3, Heads
    <3>. QED BY <3>1, <3>2 DEF Subject, NextActive, Forgetting
  <2>8. \A x : Row(t) = "list" => (Contains(mem'.list, x) <=> Contains(task[t].list, x))
    BY <2>3
  <2>9. /\ Row(t) = "list" /\ Pairing(t) => \A x : Contains(mem'.list, x) <=> Contains(mem.list, x) \/ x = task[t].e
        /\ Row(t) = "list" /\ Forgetting(t) => \A x : Contains(mem'.list, x) <=> Contains(mem.list, x) /\ x # task[t].e
    BY <1>4, <2>8
  <2>10. /\ mem'.tokens = IF Row(t) # "token" THEN mem.tokens
                          ELSE IF Pairing(t) THEN mem.tokens \cup {task[t].e} ELSE mem.tokens \ {task[t].e}
         /\ mem'.pins = IF Row(t) # "pin" THEN mem.pins
                        ELSE IF Pairing(t) THEN mem.pins \cup {task[t].e} ELSE mem.pins \ {task[t].e}
    BY <2>3, <2>4, <2>5
  <2>11. /\ Row(t) # "list" => mem'.list = mem.list
         /\ Row(t) # "active" => mem'.active = mem.active
         /\ Row(t) = "active" /\ ~Forgetting(t) => mem'.active = task[t].e
         /\ Row(t) = "active" /\ Forgetting(t) =>
              mem'.active = NoEndpoint \/ (Contains(task[t].list, mem'.active) /\ mem'.active \in Endpoint)
    BY <2>2, <2>3, <2>6, <2>7
  <2>. QED BY <2>9, <2>10, <2>11 DEF Changes
<1>6. ASSUME Dels(t, TRUE) PROVE Changes(t)
  <2>1. Deletes(t) /\ mem' = Without(mem, Row(t), task[t].e)
    BY <1>6 DEF Dels
  <2>2. /\ mem'.list = (IF Row(t) = "list" THEN <<>> ELSE mem.list)
        /\ mem'.active = (IF Row(t) = "active" THEN NoEndpoint ELSE mem.active)
        /\ mem'.tokens = (IF Row(t) = "token" THEN mem.tokens \ {task[t].e} ELSE mem.tokens)
        /\ mem'.pins = (IF Row(t) = "pin" THEN mem.pins \ {task[t].e} ELSE mem.pins)
    <3> DEFINE w == Without(mem, Row(t), task[t].e)
    <3>1. /\ w.list = (IF Row(t) = "list" THEN <<>> ELSE mem.list)
          /\ w.active = (IF Row(t) = "active" THEN NoEndpoint ELSE mem.active)
          /\ w.tokens = (IF Row(t) = "token" THEN mem.tokens \ {task[t].e} ELSE mem.tokens)
          /\ w.pins = (IF Row(t) = "pin" THEN mem.pins \ {task[t].e} ELSE mem.pins)
      <4>1. mem \in Rows /\ Row(t) \in RowName /\ task[t].e \in Endpoint
        BY <1>1, <1>2, <1>3
      <4>2. w.list = (IF Row(t) = "list" THEN <<>> ELSE mem.list)
        BY <4>1, WithoutRow
      <4>3. w.active = (IF Row(t) = "active" THEN NoEndpoint ELSE mem.active)
        BY <4>1, WithoutRow
      <4>4. w.tokens = (IF Row(t) = "token" THEN mem.tokens \ {task[t].e} ELSE mem.tokens)
        BY <4>1, WithoutRow
      <4>5. w.pins = (IF Row(t) = "pin" THEN mem.pins \ {task[t].e} ELSE mem.pins)
        BY <4>1, WithoutRow
      <4>. QED BY <4>2, <4>3, <4>4, <4>5
    <3> HIDE DEF w
    <3>2. mem' = w
      BY <2>1 DEF w
    <3>. QED BY <3>1, <3>2
  <2>3. Forgetting(t) /\ ~Pairing(t) /\ (Row(t) = "list" => task[t].list = <<>>)
    BY <2>1 DEF Deletes, Forgetting, Pairing
  <2>4. Row(t) = "list" => mem'.list = task[t].list
    BY <2>2, <2>3
  <2>5. Row(t) = "list" /\ Forgetting(t) => \A x : Contains(mem'.list, x) <=> Contains(mem.list, x) /\ x # task[t].e
    BY <1>4, <2>4
  <2>. QED BY <2>2, <2>3, <2>5 DEF Changes
<1>. QED BY <1>1, <1>5, <1>6

-----------------------------------------------------------------------------
(* Every step keeps the invariant.                                         *)

\* The steps, apart from the process's end.
Begins == \E t \in Thread, o \in {"pair", "forget", "switch"}, e \in Endpoint :
    /\ Start(t, o, e)
    /\ (t = "pair") <=> (o = "pair")
    /\ o = "forget" => saved' = Recalled(saved \ {e}) /\ forgot' = Recalled(forgot)
    /\ o = "pair" => saved' = Recalled(saved \ {e}) /\ forgot' = Recalled(forgot \ {e})
    /\ o = "switch" => Contains(mem.list, e) /\ Remembers

\* A step starts an operation, ends the process, or is an access of an operation.
LEMMA Kinds ==
    ASSUME Next
    PROVE  Begins \/ Killed \/ \E t \in Thread : Accesses(t)
<1>1. ASSUME NEW e \in Endpoint, Pair(e) PROVE Begins
  BY <1>1 DEF Pair, Begins, Thread
<1>2. ASSUME NEW e \in Endpoint, Forget(e) PROVE Begins
  BY <1>2 DEF Forget, Begins, Thread
<1>3. ASSUME NEW e \in Endpoint, Switch(e) PROVE Begins
  BY <1>3 DEF Switch, Begins, Thread
<1>. QED BY <1>1, <1>2, <1>3 DEF Next


\* What a step does to an operation: it is left alone or over, it starts, or it
\* goes on to its next access.
Begun(u) ==
    /\ task[u].op = "none" /\ lock # u
    /\ task'[u].op \in {"pair", "forget", "switch"} /\ (u = "pair" <=> task'[u].op = "pair")
    /\ task'[u].e \in Endpoint /\ task'[u].n = 1 /\ task'[u].list = <<>>
GoneOn(u) ==
    /\ task[u].op # "none" /\ task'[u].op = task[u].op /\ task'[u].e = task[u].e
    /\ task'[u].n = task[u].n + 1 /\ task[u].n < Len(Steps(task[u].op))
    /\ IsInjective(task'[u].list)
    /\ Forgetting(u) => ~Contains(task'[u].list, task[u].e)

\* Every step does one of these to each operation.
LEMMA TaskShape ==
    ASSUME TypeOK, TaskInv, LockInv, Next
    PROVE  /\ task' \in [Thread -> Task]
           /\ \A u \in Thread : task'[u] = task[u] \/ task'[u] = Idle \/ Begun(u) \/ GoneOn(u)
<1>1. ASSUME Begins
      PROVE  /\ task' \in [Thread -> Task]
             /\ \A u \in Thread : task'[u] = task[u] \/ task'[u] = Idle \/ Begun(u) \/ GoneOn(u)
  <2>1. PICK t \in Thread, o \in {"pair", "forget", "switch"}, e \in Endpoint : Start(t, o, e) /\ ((t = "pair") <=> (o = "pair"))
    BY <1>1 DEF Begins
  <2>2. /\ task[t].op = "none" /\ lock # t
        /\ task' \in [Thread -> Task] /\ \A u \in Thread \ {t} : task'[u] = task[u]
        /\ task'[t].op = o /\ task'[t].e = e /\ task'[t].n = 1 /\ task'[t].list = <<>>
    BY <2>1, Starting
  <2>3. Begun(t)
    BY <2>1, <2>2 DEF Begun
  <2>. QED BY <2>2, <2>3
<1>2. ASSUME Killed
      PROVE  /\ task' \in [Thread -> Task]
             /\ \A u \in Thread : task'[u] = task[u] \/ task'[u] = Idle \/ Begun(u) \/ GoneOn(u)
  <2>1. Idle \in Task /\ task' = [t \in Thread |-> Idle]
    BY <1>2, Heads DEF Killed, Idle, Task
  <2>. QED BY <2>1
<1>3. ASSUME NEW t \in Thread, Accesses(t)
      PROVE  /\ task' \in [Thread -> Task]
             /\ \A u \in Thread : task'[u] = task[u] \/ task'[u] = Idle \/ Begun(u) \/ GoneOn(u)
  <2>1. CASE ReadsList(t)
    <3>1. /\ task[t].op # "none"
          /\ task' \in [Thread -> Task] /\ \A u \in Thread \ {t} : task'[u] = task[u]
          /\ \/ task[t].op = "switch" /\ task'[t] = Idle
             \/ /\ task'[t].op = task[t].op /\ task'[t].e = task[t].e /\ task'[t].n = task[t].n + 1
                /\ task'[t].list = NextList(t)
                /\ task[t].op = "pair" => task[t].n = 3
                /\ task[t].op # "pair" => task[t].n = 1
          /\ NextList(t) \in Seq(Endpoint) /\ IsInjective(NextList(t))
          /\ task[t].op = "forget" => \A x : Contains(NextList(t), x) <=> Contains(mem.list, x) /\ x # task[t].e
      BY <2>1, Reading
    <3>2. (task[t].op = "pair" => Len(Steps(task[t].op)) = 5) /\ Len(Steps(task[t].op)) \in {2, 5}
      BY <3>1, RowTable
    <3>3. CASE task'[t] = Idle
      BY <3>1, <3>3
    <3>4. CASE task'[t] # Idle
      <4>1. task[t].n < Len(Steps(task[t].op))
        <5>1. PICK n, k : n = task[t].n /\ k = Len(Steps(task[t].op))
          OBVIOUS
        <5>2. (n = 3 /\ k = 5) \/ (n = 1 /\ k \in {2, 5})
          BY <3>1, <3>2, <3>4, <5>1
        <5>3. n < k
          BY <5>2
        <5>. QED BY <5>1, <5>3
      <4>2. Forgetting(t) => ~Contains(NextList(t), task[t].e)
        BY <3>1 DEF Forgetting
      <4>3. GoneOn(t)
        BY <3>1, <3>4, <4>1, <4>2 DEF GoneOn
      <4>. QED BY <3>1, <4>3
    <3>. QED BY <3>3, <3>4
  <2>2. CASE PutStarts(t)
    BY <2>2 DEF PutStarts, TypeOK
  <2>3. CASE PutFails(t)
    <3>1. task' = [task EXCEPT ![t] = Idle] /\ Idle \in Task
      BY <2>3, Heads DEF PutFails, Stops, Idle, Task
    <3>. QED BY <3>1 DEF TypeOK
  <2>4. ASSUME LeavesActive(t) \/ PutEnds(t) \/ \E works \in BOOLEAN : Dels(t, works)
        PROVE  /\ task' \in [Thread -> Task]
               /\ \A u \in Thread : task'[u] = task[u] \/ task'[u] = Idle \/ Begun(u) \/ GoneOn(u)
    <3>1. At(t, {"pin", "token", "list", "active"}) /\ Goes(t)
      <4>1. CASE LeavesActive(t)
        BY <4>1 DEF LeavesActive, At, Succeeds
      <4>2. CASE PutEnds(t)
        BY <4>2 DEF PutEnds, LockInv, Succeeds
      <4>3. CASE \E works \in BOOLEAN : Dels(t, works)
        BY <4>3 DEF Dels, Writes, Succeeds
      <4>. QED BY <2>4, <4>1, <4>2, <4>3
    <3>2. task[t].op # "none" /\ Row(t) # "read"
      BY <3>1 DEF At
    <3>3. /\ task' \in [Thread -> Task] /\ \A u \in Thread \ {t} : task'[u] = task[u]
          /\ \/ task[t].n = Len(Steps(task[t].op)) /\ task'[t] = Idle
             \/ /\ task[t].n < Len(Steps(task[t].op)) /\ task'[t].n = task[t].n + 1
                /\ task'[t].op = task[t].op /\ task'[t].e = task[t].e
                /\ task'[t].list = IF task[t].op = "pair" THEN <<>> ELSE task[t].list
      BY <3>1, <3>2, Moved
    <3>4. Forgetting(t) => task[t].n >= 2
      <4>1. task[t].n \in 1..5
        BY <3>2, RowTable
      <4>2. Forgetting(t) => task[t].n # 1
        BY <3>2, RowTable DEF Forgetting
      <4>. QED BY <4>1, <4>2
    <3>5. Forgetting(t) => ~Contains(task[t].list, task[t].e) /\ task[t].op # "pair"
      BY <3>4 DEF TaskInv, Forgetting
    <3>6. IsInjective(task[t].list) /\ IsInjective(<<>>)
      BY Heads DEF TaskInv
    <3>7. task'[t] = Idle \/ GoneOn(t)
      BY <3>2, <3>3, <3>5, <3>6 DEF GoneOn
    <3>. QED BY <3>3, <3>7
  <2>. QED BY <1>3, <2>1, <2>2, <2>3, <2>4 DEF Accesses
<1>. QED BY <1>1, <1>2, <1>3, Kinds

\* Types are kept.
LEMMA TypeStep ==
    ASSUME TypeOK, TaskInv, LockInv, [Next]_vars
    PROVE  TypeOK'
<1>1. CASE UNCHANGED vars
  BY <1>1 DEF vars, histVars, TypeOK
<1>2. CASE Next
  <2>1. /\ task' \in [Thread -> Task]
        /\ \A u \in Thread : task'[u] = task[u] \/ task'[u] = Idle \/ Begun(u) \/ GoneOn(u)
    BY <1>2, TaskShape
  <2>2. ASSUME NEW u \in Thread PROVE task'[u].n \in 1..Len(Steps(task'[u].op)) \/ task'[u] = Idle
    <3>1. CASE task'[u] = task[u]
      BY <3>1 DEF TypeOK
    <3>2. CASE Begun(u)
      <4>1. CASE task'[u].op = "pair"
        BY <3>2, <4>1 DEF Begun, Steps
      <4>2. CASE task'[u].op = "forget"
        BY <3>2, <4>2 DEF Begun, Steps
      <4>3. CASE task'[u].op = "switch"
        BY <3>2, <4>3 DEF Begun, Steps
      <4>. QED BY <3>2, <4>1, <4>2, <4>3 DEF Begun
    <3>3. CASE GoneOn(u)
      <4>1. task[u].n \in 1..Len(Steps(task[u].op)) /\ Len(Steps(task[u].op)) \in Nat
        <5>1. task[u].op # "none" /\ task[u].n < Len(Steps(task[u].op))
          BY <3>3 DEF GoneOn
        <5>2. task[u].n \in 1..Len(Steps(task[u].op)) /\ Len(Steps(task[u].op)) \in {2, 5}
          BY <5>1, RowTable
        <5>. QED BY <5>2
      <4>2. task'[u].op = task[u].op /\ task'[u].n = task[u].n + 1 /\ task[u].n < Len(Steps(task[u].op))
        BY <3>3 DEF GoneOn
      <4>. QED BY <4>1, <4>2
    <3>. QED BY <2>1, <3>1, <3>2, <3>3
  <2>3. /\ mem' \in Rows /\ IsInjective(mem'.list) /\ file' \in Rows /\ IsInjective(file'.list)
        /\ lock' \in Thread \cup {Nobody} /\ torn' \in BOOLEAN /\ raced' \in BOOLEAN
    <3>1. /\ mem \in Rows /\ IsInjective(mem.list) /\ file \in Rows /\ IsInjective(file.list)
          /\ lock \in Thread \cup {Nobody} /\ torn \in BOOLEAN /\ raced \in BOOLEAN
      BY DEF TypeOK
    <3>2. CASE Begins
      BY <3>1, <3>2 DEF Begins, Start
    <3>3. CASE Killed
      BY <3>1, <3>3 DEF Killed
    <3>4. ASSUME NEW t \in Thread, Accesses(t)
          PROVE  /\ mem' \in Rows /\ IsInjective(mem'.list) /\ file' \in Rows /\ IsInjective(file'.list)
                 /\ lock' \in Thread \cup {Nobody} /\ torn' \in BOOLEAN /\ raced' \in BOOLEAN
      <4>1. CASE ReadsList(t)
        BY <3>1, <4>1 DEF ReadsList, histVars
      <4>2. CASE LeavesActive(t)
        BY <3>1, <4>2 DEF LeavesActive
      <4>3. CASE PutStarts(t)
        <5>1. task[t].op # "none" /\ Row(t) \in RowName /\ ~Deletes(t)
          BY <4>3 DEF PutStarts, Writes, At, RowName
        <5>2. /\ CachedOnly(t) \in Rows /\ IsInjective(CachedOnly(t).list)
              /\ Without(file, Row(t), Subject(t)) \in Rows /\ IsInjective(Without(file, Row(t), Subject(t)).list)
          BY <5>1, Wrote
        <5>. QED BY <3>1, <4>3, <5>2 DEF PutStarts
      <4>4. CASE PutEnds(t)
        <5>1. task[t].op # "none" /\ Row(t) \in RowName /\ ~Deletes(t)
          BY <4>4 DEF PutEnds, LockInv, At, RowName
        <5>2. Inserted(t) \in Rows /\ IsInjective(Inserted(t).list)
          BY <5>1, Wrote
        <5>. QED BY <3>1, <4>4, <5>2 DEF PutEnds
      <4>5. CASE PutFails(t)
        <5>1. CASE lock = t /\ UNCHANGED mem
          BY <3>1, <4>5, <5>1 DEF PutFails
        <5>2. CASE Writes(t) /\ ~Deletes(t) /\ mem' = CachedOnly(t)
          <6>1. task[t].op # "none" /\ Row(t) \in RowName /\ ~Deletes(t)
            BY <5>2 DEF Writes, At, RowName
          <6>2. CachedOnly(t) \in Rows /\ IsInjective(CachedOnly(t).list)
            BY <6>1, Wrote
          <6>. QED BY <3>1, <4>5, <5>2, <6>2 DEF PutFails
        <5>. QED BY <4>5, <5>1, <5>2 DEF PutFails
      <4>6. ASSUME NEW works \in BOOLEAN, Dels(t, works)
            PROVE  /\ mem' \in Rows /\ IsInjective(mem'.list) /\ file' \in Rows /\ IsInjective(file'.list)
                   /\ lock' \in Thread \cup {Nobody} /\ torn' \in BOOLEAN /\ raced' \in BOOLEAN
        <5>1. task[t].op # "none" /\ Row(t) \in RowName
          BY <4>6 DEF Dels, Writes, At, RowName
        <5>2. /\ Without(mem, Row(t), task[t].e) \in Rows /\ IsInjective(Without(mem, Row(t), task[t].e).list)
              /\ Without(file, Row(t), task[t].e) \in Rows /\ IsInjective(Without(file, Row(t), task[t].e).list)
          BY <5>1, Wrote
        <5>. QED BY <3>1, <4>6, <5>2 DEF Dels
      <4>. QED BY <3>4, <4>1, <4>2, <4>3, <4>4, <4>5, <4>6 DEF Accesses
    <3>. QED BY <1>2, <3>2, <3>3, <3>4, Kinds
  <2>4. saved' \in SUBSET Endpoint /\ forgot' \in SUBSET Endpoint
    <3>1. saved \in SUBSET Endpoint /\ forgot \in SUBSET Endpoint
      BY DEF TypeOK
    <3>2. \A x \in SUBSET Endpoint : Recalled(x) \in SUBSET Endpoint
      BY DEF Recalled
    <3>3. CASE Begins
      <4>1. PICK e \in Endpoint : saved' \in {Recalled(saved \ {e}), Recalled(saved)} /\ forgot' \in {Recalled(forgot \ {e}), Recalled(forgot)}
        BY <3>3 DEF Begins, Remembers
      <4>. QED BY <3>1, <3>2, <4>1
    <3>4. CASE Killed
      BY <3>1, <3>2, <3>4 DEF Killed, Remembers
    <3>5. ASSUME NEW t \in Thread, Accesses(t) PROVE saved' \in SUBSET Endpoint /\ forgot' \in SUBSET Endpoint
      <4>1. CASE ReadsList(t)
        BY <3>1, <4>1 DEF ReadsList, histVars
      <4>2. CASE PutStarts(t) \/ PutFails(t)
        BY <3>1, <3>2, <4>2 DEF PutStarts, PutFails, Remembers
      <4>3. CASE Succeeds(t)
        <5>1. task[t].op # "none" => task[t].e \in Endpoint
          BY RowTable
        <5>2. /\ (IF IsLastOf(t, "pair") THEN saved \cup {task[t].e} ELSE saved) \in SUBSET Endpoint
              /\ (IF IsLastOf(t, "forget") THEN forgot \cup {task[t].e} ELSE forgot) \in SUBSET Endpoint
          BY <3>1, <5>1 DEF IsLastOf
        <5>. QED BY <3>2, <4>3, <5>2 DEF Succeeds
      <4>. QED BY <3>5, <4>1, <4>2, <4>3 DEF Accesses, LeavesActive, PutEnds, Dels
    <3>. QED BY <1>2, <3>3, <3>4, <3>5, Kinds
  <2>. QED BY <2>1, <2>2, <2>3, <2>4 DEF TypeOK
<1>. QED BY <1>1, <1>2

\* Operations are what they may be.
LEMMA TaskStep ==
    ASSUME TypeOK, TaskInv, LockInv, [Next]_vars, TypeOK'
    PROVE  TaskInv'
<1>1. CASE UNCHANGED vars
  BY <1>1 DEF vars, TaskInv, Forgetting
<1>2. CASE Next
  <2>1. \A u \in Thread : task'[u] = task[u] \/ task'[u] = Idle \/ Begun(u) \/ GoneOn(u)
    BY <1>2, TaskShape
  <2>2. \A u \in Thread : task'[u] = Idle \/ task'[u].n \in 1..Len(Steps(task'[u].op))
    BY DEF TypeOK
  <2>3. ASSUME NEW u \in Thread
        PROVE  /\ u = "pair" => task'[u].op \in {"none", "pair"}
               /\ u = "ui" => task'[u].op \in {"none", "forget", "switch"}
               /\ task'[u].op # "none" => task'[u].e \in Endpoint /\ task'[u].n \in 1..Len(Steps(task'[u].op))
               /\ task'[u].op = "none" => task'[u] = Idle
               /\ IsInjective(task'[u].list)
               /\ task'[u].op = "forget" /\ task'[u].n >= 2 => ~Contains(task'[u].list, task'[u].e)
    <3>1. CASE task'[u] = task[u]
      BY <3>1 DEF TaskInv, Forgetting
    <3>2. CASE task'[u] = Idle
      BY <3>2, Heads DEF Idle
    <3>3. CASE Begun(u)
      <4>1. task'[u].op # "none" /\ (task'[u].op = "pair" \/ task'[u].op = "forget" \/ task'[u].op = "switch")
        BY <3>3 DEF Begun
      <4>2. ~(task'[u].n >= 2) /\ IsInjective(task'[u].list) /\ task'[u].e \in Endpoint
        BY <3>3, Heads DEF Begun
      <4>3. (u = "pair" <=> task'[u].op = "pair")
        BY <3>3 DEF Begun
      <4>. QED BY <2>2, <4>1, <4>2, <4>3 DEF Idle
    <3>4. CASE GoneOn(u)
      <4>1. /\ task[u].op # "none" /\ task'[u].op = task[u].op /\ task'[u].e = task[u].e
            /\ IsInjective(task'[u].list) /\ (Forgetting(u) => ~Contains(task'[u].list, task[u].e))
        BY <3>4 DEF GoneOn
      <4>. QED BY <2>2, <4>1 DEF TaskInv, Forgetting, Idle
    <3>. QED BY <2>1, <3>1, <3>2, <3>3, <3>4
  <2>. QED BY <2>3 DEF TaskInv, Forgetting, Thread
<1>. QED BY <1>1, <1>2

\* A put in the middle keeps the lock, and what it is to insert.
LEMMA LockStep ==
    ASSUME TypeOK, TaskInv, LockInv, [Next]_vars, TypeOK'
    PROVE  LockInv'
<1> DEFINE Holds(t) == /\ At(t, {"pin", "token", "list", "active"}) /\ ~Deletes(t)
                       /\ ~torn => mem = Inserted(t) /\ file = Without(mem, Row(t), Subject(t))
<1>1. /\ LockInv <=> (lock = Nobody /\ ~torn => mem = file) /\ \A t \in Thread : lock = t => Holds(t)
      /\ LockInv' <=> (lock' = Nobody /\ ~torn' => mem' = file') /\ \A t \in Thread : lock' = t => Holds(t)'
  BY DEF LockInv
<1>2. ASSUME NEW u \in Thread, lock = u, task'[u] = task[u], UNCHANGED <<mem, file>>, torn' = torn PROVE Holds(u)'
  <2>1. Holds(u)
    BY <1>1, <1>2
  <2>2. Row(u)' = Row(u) /\ Subject(u)' = Subject(u) /\ Inserted(u)' = Inserted(u) /\ Deletes(u)' = Deletes(u)
    BY <1>2 DEF Row, Subject, NextActive, Inserted, Deletes
  <2>3. At(u, {"pin", "token", "list", "active"})' = At(u, {"pin", "token", "list", "active"})
    BY <1>2, <2>2 DEF At
  <2>. QED BY <1>2, <2>1, <2>2, <2>3
<1>3. mem \in Rows /\ file \in Rows /\ Nobody \notin Thread
  BY DEF TypeOK, Nobody, Thread
<1>4. CASE UNCHANGED vars
  <2>1. UNCHANGED <<mem, file, task, lock, torn>>
    BY <1>4 DEF vars, histVars
  <2>2. \A t \in Thread : lock' = t => Holds(t)'
    <3> HIDE DEF Holds
    <3>. QED BY <1>2, <2>1
  <2> HIDE DEF Holds
  <2>. QED BY <1>1, <2>1, <2>2
<1>5. ASSUME Begins PROVE LockInv'
  <2>1. PICK t \in Thread, o \in {"pair", "forget", "switch"}, e \in Endpoint : Start(t, o, e)
    BY <1>5 DEF Begins
  <2>2. /\ lock # t /\ mem' = mem /\ file' = file /\ lock' = lock /\ torn' = torn
        /\ \A u \in Thread \ {t} : task'[u] = task[u]
    BY <2>1, Starting
  <2>3. \A u \in Thread : lock' = u => Holds(u)'
    <3> HIDE DEF Holds
    <3>. QED BY <1>2, <2>2
  <2> HIDE DEF Holds
  <2>. QED BY <1>1, <2>2, <2>3
<1>6. ASSUME Killed PROVE LockInv'
  <2>1. mem' = file' /\ lock' = Nobody
    BY <1>6 DEF Killed
  <2> HIDE DEF Holds
  <2>. QED BY <1>1, <1>3, <2>1
<1>7. ASSUME NEW t \in Thread, Accesses(t) PROVE LockInv'
  <2>1. CASE ReadsList(t) \/ LeavesActive(t)
    <3>1. lock' = Nobody /\ lock = Nobody /\ mem' = mem /\ file' = file /\ torn' = torn
      BY <2>1 DEF ReadsList, LeavesActive, histVars
    <3> HIDE DEF Holds
    <3>. QED BY <1>1, <1>3, <3>1
  <2>2. CASE PutStarts(t)
    <3>1. /\ At(t, {"pin", "token", "list", "active"}) /\ lock = Nobody /\ ~Deletes(t) /\ task' = task /\ torn' = torn /\ lock' = t
          /\ mem' = With(mem, Row(t), Subject(t), task[t].list)
          /\ file' = Without(file, Row(t), Subject(t))
      BY <2>2 DEF PutStarts, Writes, CachedOnly
    <3>2. Row(t)' = Row(t) /\ Subject(t)' = Subject(t) /\ Deletes(t)' = Deletes(t)
          /\ Inserted(t)' = With(file', Row(t), Subject(t), task[t].list)
      BY <3>1 DEF Row, Subject, NextActive, Inserted, Deletes
    <3>3. At(t, {"pin", "token", "list", "active"})'
      BY <3>1, <3>2 DEF At
    <3>4. Row(t) \in RowName /\ Subject(t) \in Endpoint /\ task[t].list \in Seq(Endpoint)
      <4>1. task[t].op # "none" /\ Row(t) \in RowName
        BY <3>1 DEF At, RowName
      <4>2. task[t].list \in Seq(Endpoint)
        BY <4>1, RowTable
      <4>. QED BY <3>1, <4>1, <4>2, SubjectIsDesk
    <3>5. /\ With(Without(mem, Row(t), Subject(t)), Row(t), Subject(t), task[t].list) = With(mem, Row(t), Subject(t), task[t].list)
          /\ Without(With(mem, Row(t), Subject(t), task[t].list), Row(t), Subject(t)) = Without(mem, Row(t), Subject(t))
      BY <1>3, <3>4, PutBack
    <3>6. ~torn => mem = file
      BY <1>1, <3>1
    <3>7. ~torn' => mem' = Inserted(t)' /\ file' = Without(mem', Row(t), Subject(t))
      BY <3>1, <3>2, <3>5, <3>6
    <3>8. Holds(t)'
      BY <3>1, <3>2, <3>3, <3>7
    <3> HIDE DEF Holds
    <3>. QED BY <1>1, <1>3, <3>1, <3>8
  <2>3. CASE PutEnds(t)
    <3>1. lock = t /\ file' = Inserted(t) /\ lock' = Nobody /\ mem' = mem /\ torn' = torn
      BY <2>3 DEF PutEnds
    <3>2. ~torn => mem = Inserted(t)
      BY <1>1, <3>1
    <3> HIDE DEF Holds
    <3>. QED BY <1>1, <1>3, <3>1, <3>2
  <2>4. CASE PutFails(t)
    <3>1. lock' = Nobody /\ torn' = TRUE
      BY <2>4 DEF PutFails
    <3> HIDE DEF Holds
    <3>. QED BY <1>1, <1>3, <3>1
  <2>5. ASSUME NEW works \in BOOLEAN, Dels(t, works) PROVE LockInv'
    <3>1. /\ lock = Nobody /\ lock' = Nobody /\ mem' = Without(mem, Row(t), task[t].e)
          /\ file' = (IF works THEN Without(file, Row(t), task[t].e) ELSE file) /\ torn' = (torn \/ ~works)
      BY <2>5 DEF Dels, Writes
    <3>2. ~torn' => mem' = file'
      BY <1>1, <3>1
    <3> HIDE DEF Holds
    <3>. QED BY <1>1, <1>3, <3>1, <3>2
  <2>. QED BY <1>7, <2>1, <2>2, <2>3, <2>4, <2>5 DEF Accesses
<1>. QED BY <1>4, <1>5, <1>6, <1>7, Kinds

\* Nothing that is torn or raced is made good.
LEMMA StaysUnclean ==
    ASSUME [Next]_vars, Clean'
    PROVE  Clean
<1>1. (torn => torn') /\ (raced => raced')
  <2>1. CASE UNCHANGED vars
    BY <2>1 DEF vars, histVars
  <2>2. CASE Begins
    <3>1. PICK t \in Thread, o \in {"pair", "forget", "switch"}, e \in Endpoint : Start(t, o, e)
      BY <2>2 DEF Begins
    <3>. QED BY <3>1, Zenon DEF Start
  <2>3. CASE Killed
    BY <2>3 DEF Killed
  <2>4. ASSUME NEW t \in Thread, Accesses(t) PROVE (torn => torn') /\ (raced => raced')
    <3>1. CASE ReadsList(t)
      BY <3>1 DEF ReadsList, histVars
    <3>2. CASE LeavesActive(t) \/ PutEnds(t)
      BY <3>2 DEF LeavesActive, PutEnds
    <3>3. CASE PutStarts(t)
      BY <3>3, Zenon DEF PutStarts
    <3>4. CASE PutFails(t)
      BY <3>4, Zenon DEF PutFails
    <3>5. ASSUME NEW works \in BOOLEAN, Dels(t, works) PROVE (torn => torn') /\ (raced => raced')
      BY <3>5, Zenon DEF Dels
    <3>. QED BY <2>4, <3>1, <3>2, <3>3, <3>4, <3>5 DEF Accesses
  <2>. QED BY <2>1, <2>2, <2>3, <2>4, Kinds
<1>. QED BY <1>1 DEF Clean

\* What a step does to the rows and to the history while nothing is torn or
\* raced.
Reads(t)   == ReadsList(t) /\ UNCHANGED <<mem, lock, saved, forgot>>
Puts(t)    == PutStarts(t) /\ lock = Nobody /\ lock' = t /\ UNCHANGED <<task, saved, forgot>>
Ends(t)    == lock = t /\ lock' = Nobody /\ UNCHANGED mem /\ Succeeds(t)
Drops(t)   == Dels(t, TRUE) /\ lock = Nobody /\ lock' = Nobody /\ Succeeds(t)
Spares(t)  == /\ At(t, {"active"}) /\ Forgetting(t) /\ mem.active # task[t].e
              /\ lock = Nobody /\ UNCHANGED <<mem, lock>> /\ Succeeds(t)
Dies       == UNCHANGED <<mem, lock, saved, forgot>> /\ lock = Nobody /\ task' = [t \in Thread |-> Idle]
Opens(t, e) ==
    /\ UNCHANGED <<mem, lock>> /\ lock # t
    /\ task[t].op = "none" /\ \A u \in Thread \ {t} : task'[u] = task[u] /\ (task[u].op # "none" => task[u].e # e)
    /\ task'[t].e = e /\ task'[t].n = 1 /\ task'[t].list = <<>>
    /\ saved' \in {saved, saved \ {e}} /\ forgot' \in {forgot, forgot \ {e}}
    /\ \/ task'[t].op = "pair" /\ t = "pair" /\ e \notin forgot'
       \/ task'[t].op = "forget" /\ t = "ui" /\ e \notin saved'
       \/ task'[t].op = "switch" /\ t = "ui" /\ Contains(mem.list, e) /\ UNCHANGED <<saved, forgot>>

\* While nothing is torn or raced these are the steps.
LEMMA CleanStep ==
    ASSUME TypeOK, TaskInv, LockInv, Next, Clean'
    PROVE  \/ \E t \in Thread, e \in Endpoint : Opens(t, e)
           \/ Dies
           \/ \E t \in Thread : Reads(t) \/ Puts(t) \/ Ends(t) \/ Drops(t) \/ Spares(t)
<1>1. Clean /\ ~torn' /\ ~raced' /\ ~torn /\ ~raced
  BY StaysUnclean DEF Clean
<1>2. \A x : Recalled(x) = x
  BY <1>1 DEF Recalled
<1>3. ASSUME Begins PROVE \E t \in Thread, e \in Endpoint : Opens(t, e)
  <2>1. PICK t \in Thread, o \in {"pair", "forget", "switch"}, e \in Endpoint :
          /\ Start(t, o, e)
          /\ (t = "pair") <=> (o = "pair")
          /\ o = "forget" => saved' = Recalled(saved \ {e}) /\ forgot' = Recalled(forgot)
          /\ o = "pair" => saved' = Recalled(saved \ {e}) /\ forgot' = Recalled(forgot \ {e})
          /\ o = "switch" => Contains(mem.list, e) /\ Remembers
    BY <1>3 DEF Begins
  <2>2. /\ task[t].op = "none" /\ lock # t /\ mem' = mem /\ lock' = lock
        /\ \A u \in Thread \ {t} : task'[u] = task[u]
        /\ task'[t].op = o /\ task'[t].e = e /\ task'[t].n = 1 /\ task'[t].list = <<>>
    BY <2>1, Starting
  <2>3. \A u \in Thread : task[u].op # "none" => task[u].e # e
    BY <1>1, <2>1 DEF Start
  <2>4. /\ saved' \in {saved, saved \ {e}} /\ forgot' \in {forgot, forgot \ {e}}
        /\ o = "forget" => e \notin saved'
        /\ o = "pair" => e \notin forgot'
        /\ o = "switch" => Contains(mem.list, e) /\ UNCHANGED <<saved, forgot>>
    BY <1>2, <2>1 DEF Remembers
  <2>5. \/ o = "pair" /\ t = "pair"
        \/ o = "forget" /\ t = "ui"
        \/ o = "switch" /\ t = "ui"
    BY <2>1 DEF Thread
  <2>6. Opens(t, e)
    BY <2>2, <2>3, <2>4, <2>5 DEF Opens
  <2>. QED BY <2>6
<1>4. ASSUME Killed PROVE Dies
  <2>1. lock = Nobody
    BY <1>1, <1>4 DEF Killed
  <2>2. mem = file
    BY <1>1, <2>1 DEF LockInv
  <2>. QED BY <1>2, <1>4, <2>1, <2>2 DEF Killed, Dies, Remembers
<1>5. ASSUME NEW t \in Thread, Accesses(t) PROVE Reads(t) \/ Puts(t) \/ Ends(t) \/ Drops(t) \/ Spares(t)
  <2>1. CASE ReadsList(t)
    BY <2>1 DEF ReadsList, Reads, histVars
  <2>2. CASE LeavesActive(t)
    BY <2>2 DEF LeavesActive, Spares, Forgetting
  <2>3. CASE PutStarts(t)
    <3>1. lock = Nobody /\ lock' = t /\ task' = task /\ saved' = Recalled(saved) /\ forgot' = Recalled(forgot)
      BY <2>3 DEF PutStarts, Writes, Remembers
    <3>. QED BY <1>2, <2>3, <3>1 DEF Puts
  <2>4. CASE PutEnds(t)
    BY <2>4 DEF PutEnds, Ends
  <2>5. CASE PutFails(t)
    BY <1>1, <2>5 DEF PutFails
  <2>6. ASSUME NEW works \in BOOLEAN, Dels(t, works) PROVE Drops(t)
    <3>1. works = TRUE
      BY <1>1, <2>6 DEF Dels
    <3>. QED BY <2>6, <3>1 DEF Dels, Drops, Writes
  <2>. QED BY <1>5, <2>1, <2>2, <2>3, <2>4, <2>5, <2>6 DEF Accesses
<1>. QED BY <1>3, <1>4, <1>5, Kinds

\* An access that ends: the operation goes on, or is over and is recalled.
Over(t) ==
    /\ task'[t] = Idle
    /\ Pairing(t) => task[t].n = 5
    /\ Forgetting(t) => task[t].n = 5
    /\ saved' = IF Pairing(t) THEN saved \cup {task[t].e} ELSE saved
    /\ forgot' = IF Forgetting(t) THEN forgot \cup {task[t].e} ELSE forgot
NotOver(t) ==
    /\ task'[t].op = task[t].op /\ task'[t].e = task[t].e /\ task'[t].n = task[t].n + 1
    /\ task'[t].list = IF Pairing(t) THEN <<>> ELSE task[t].list
    /\ task[t].n \in 1..4 /\ UNCHANGED <<saved, forgot>>
Ended(t) ==
    /\ task[t].op # "none" /\ \A u \in Thread \ {t} : task'[u] = task[u]
    /\ Over(t) \/ NotOver(t)

\* An access that succeeds ends so.
LEMMA Endings ==
    ASSUME TypeOK, TaskInv, LockInv, Clean', NEW t \in Thread, Ends(t) \/ Drops(t) \/ Spares(t)
    PROVE  Ended(t) /\ Row(t) \in RowName
<1>1. At(t, {"pin", "token", "list", "active"}) /\ Succeeds(t)
  BY DEF LockInv, Ends, Drops, Spares, Dels, Writes, At
<1>2. task[t].op # "none" /\ Row(t) \in RowName /\ Goes(t)
  BY <1>1 DEF At, RowName, Succeeds
<1>3. \A x : Recalled(x) = x
  BY DEF Recalled, Clean
<1>4. /\ saved' = (IF IsLastOf(t, "pair") THEN saved \cup {task[t].e} ELSE saved)
      /\ forgot' = (IF IsLastOf(t, "forget") THEN forgot \cup {task[t].e} ELSE forgot)
  BY <1>1, <1>3 DEF Succeeds
<1>5. /\ task' \in [Thread -> Task] /\ \A u \in Thread \ {t} : task'[u] = task[u]
      /\ \/ task[t].n = Len(Steps(task[t].op)) /\ task'[t] = Idle
         \/ /\ task[t].n < Len(Steps(task[t].op)) /\ task'[t].n = task[t].n + 1
            /\ task'[t].op = task[t].op /\ task'[t].e = task[t].e
            /\ task'[t].list = IF task[t].op = "pair" THEN <<>> ELSE task[t].list
  BY <1>2, Moved
<1>6. PICK n, k : n = task[t].n /\ k = Len(Steps(task[t].op))
  OBVIOUS
<1>7. n \in 1..5 /\ k \in {2, 5} /\ (Pairing(t) => k = 5) /\ (Forgetting(t) => k = 5)
  BY <1>2, <1>6, RowTable DEF Pairing, Forgetting
<1>8. CASE n = k
  <2>1. /\ IsLastOf(t, "pair") <=> Pairing(t)
        /\ IsLastOf(t, "forget") <=> Forgetting(t)
    BY <1>6, <1>8 DEF IsLastOf, Pairing, Forgetting
  <2>2. task'[t] = Idle
    <3>1. ~(n < k)
      BY <1>7, <1>8
    <3>. QED BY <1>5, <1>6, <3>1
  <2>. QED BY <1>2, <1>4, <1>5, <1>6, <1>7, <1>8, <2>1, <2>2 DEF Ended, Over
<1>9. CASE n # k
  <2>1. ~IsLastOf(t, "pair") /\ ~IsLastOf(t, "forget")
    BY <1>6, <1>9 DEF IsLastOf
  <2>2. n < k
    BY <1>5, <1>6, <1>9
  <2>3. n \in 1..4
    BY <1>7, <2>2
  <2>. QED BY <1>2, <1>4, <1>5, <1>6, <1>9, <2>1, <2>2, <2>3 DEF Ended, NotOver, Pairing
<1>. QED BY <1>8, <1>9

\* An operation that did not start in the step is the one it was, or over.
LEMMA Carries ==
    ASSUME TypeOK, TaskInv, LockInv, Clean', NEW t \in Thread, Reads(t) \/ Puts(t) \/ Ends(t) \/ Drops(t) \/ Spares(t)
    PROVE  /\ task[t].op # "none" /\ \A u \in Thread \ {t} : task'[u] = task[u]
           /\ task'[t] = Idle \/ (task'[t].op = task[t].op /\ task'[t].e = task[t].e)
           /\ \A u \in Thread \ {t} : lock # u /\ lock' # u
<1>1. Nobody \notin Thread
  BY DEF Nobody, Thread
<1>2. CASE Reads(t)
  <2>1. /\ task[t].op # "none" /\ \A u \in Thread \ {t} : task'[u] = task[u]
        /\ task'[t] = Idle \/ (task'[t].op = task[t].op /\ task'[t].e = task[t].e)
        /\ lock = Nobody /\ lock' = lock
    BY <1>2, Reading DEF Reads
  <2>. QED BY <1>1, <2>1
<1>3. CASE Puts(t)
  <2>1. task[t].op # "none" /\ lock = Nobody /\ lock' = t /\ task' = task
    BY <1>3 DEF Puts, PutStarts, Writes, At
  <2>. QED BY <1>1, <2>1
<1>4. CASE Ends(t) \/ Drops(t) \/ Spares(t)
  <2>1. Ended(t)
    BY <1>4, Endings
  <2>2. (lock = t \/ lock = Nobody) /\ lock' = Nobody
    BY <1>4 DEF Ends, Drops, Spares
  <2>3. task'[t] = Idle \/ (task'[t].op = task[t].op /\ task'[t].e = task[t].e)
    BY <2>1 DEF Ended, Over, NotOver
  <2>4. task[t].op # "none" /\ \A u \in Thread \ {t} : task'[u] = task[u]
    BY <2>1 DEF Ended
  <2>. QED BY <1>1, <2>2, <2>3, <2>4
<1>. QED BY <1>2, <1>3, <1>4

\* Operations under way stay apart.
LEMMA ApartStep ==
    ASSUME TypeOK, TaskInv, LockInv, ApartInv, Next, Clean'
    PROVE  ApartInv'
<1>1. SUFFICES ASSUME NEW u \in Thread, NEW v \in Thread, u # v, task'[u].op # "none", task'[v].op # "none"
               PROVE  task'[u].e # task'[v].e
  BY DEF ApartInv
<1>2. Clean
  BY StaysUnclean
<1>3. ASSUME NEW t \in Thread, NEW e \in Endpoint, Opens(t, e) PROVE task'[u].e # task'[v].e
  <2>1. CASE u # t /\ v # t
    <3>1. task'[u] = task[u] /\ task'[v] = task[v]
      BY <1>3, <2>1 DEF Opens
    <3>. QED BY <1>1, <1>2, <3>1 DEF ApartInv
  <2>2. CASE u = t
    BY <1>1, <1>3, <2>2 DEF Opens
  <2>3. CASE v = t
    BY <1>1, <1>3, <2>3 DEF Opens
  <2>. QED BY <2>1, <2>2, <2>3
<1>4. CASE Dies
  BY <1>1, <1>4 DEF Dies, Idle
<1>5. ASSUME NEW t \in Thread, Reads(t) \/ Puts(t) \/ Ends(t) \/ Drops(t) \/ Spares(t) PROVE task'[u].e # task'[v].e
  <2>1. /\ task[t].op # "none" /\ \A w \in Thread \ {t} : task'[w] = task[w]
        /\ task'[t] = Idle \/ (task'[t].op = task[t].op /\ task'[t].e = task[t].e)
    BY <1>5, Carries
  <2>2. \A w \in Thread : task'[w].op # "none" => task[w].op # "none" /\ task'[w].e = task[w].e
    BY <2>1 DEF Idle
  <2>. QED BY <1>1, <1>2, <2>2 DEF ApartInv
<1>. QED BY <1>3, <1>4, <1>5, CleanStep

\* The list that is about to be written is made of the one that is there.
LEMMA LatestStep ==
    ASSUME TypeOK, TaskInv, LockInv, LatestInv, Next, Clean', TypeOK'
    PROVE  LatestInv'
<1> DEFINE Made(l, o, e, m) == l = IF o = "pair" THEN Added(m, e) ELSE Kept(m, e)
<1>0. SUFFICES ASSUME NEW u \in Thread, At(u, {"list"})', lock' # u
               PROVE  Made(task'[u].list, task'[u].op, task'[u].e, mem'.list)
  BY DEF LatestInv, Pairing
<1>1. Clean /\ ~raced'
  BY StaysUnclean DEF Clean
<1>2. ASSUME task'[u] = task[u], lock # u, mem'.list = mem.list PROVE Made(task'[u].list, task'[u].op, task'[u].e, mem'.list)
  <2>1. At(u, {"list"})
    BY <1>0, <1>2 DEF At, Row
  <2>. QED BY <1>1, <1>2, <2>1 DEF LatestInv, Pairing
<1>3. task'[u].op # "none" /\ Steps(task'[u].op)[task'[u].n] = "list"
  BY <1>0 DEF At, Row
<1>9. /\ task'[u].op \in {"pair", "forget"} /\ task'[u] # Idle
      /\ task'[u].op = "pair" => task'[u].n = 4
      /\ task'[u].op = "forget" => task'[u].n = 2
  <2>1. task'[u] # Idle
    BY <1>3 DEF Idle
  <2>2. task'[u].n \in 1..Len(Steps(task'[u].op)) /\ task'[u] \in Task
    BY <2>1 DEF TypeOK
  <2>3. task'[u].op \in {"pair", "forget", "switch"}
    BY <1>3, <2>2 DEF Task
  <2>4. CASE task'[u].op = "pair"
    BY <1>3, <2>1, <2>2, <2>4 DEF Steps
  <2>5. CASE task'[u].op = "forget"
    BY <1>3, <2>1, <2>2, <2>5 DEF Steps
  <2>6. CASE task'[u].op = "switch"
    BY <1>3, <2>1, <2>2, <2>6 DEF Steps
  <2>. QED BY <2>3, <2>4, <2>5, <2>6
<1>10. ASSUME task[u].op # "none", task'[u].op = task[u].op, task'[u].n = task[u].n + 1 PROVE Row(u) = "read"
  <2>1. task[u].n \in 1..5
    BY <1>10, RowTable
  <2>2. \/ task[u].op = "pair" /\ task[u].n = 3 /\ Steps(task[u].op) = <<"pin", "token", "read", "list", "active">>
        \/ task[u].op = "forget" /\ task[u].n = 1 /\ Steps(task[u].op) = <<"read", "list", "token", "pin", "active">>
    BY <1>9, <1>10, <2>1 DEF Steps
  <2>. QED BY <2>2 DEF Row
<1> HIDE DEF Made
<1>4. ASSUME NEW t \in Thread, NEW e \in Endpoint, Opens(t, e) PROVE Made(task'[u].list, task'[u].op, task'[u].e, mem'.list)
  <2>1. CASE u # t
    <3>1. task'[u] = task[u] /\ lock # u /\ mem' = mem
      BY <1>0, <1>4, <2>1 DEF Opens
    <3>. QED BY <1>2, <3>1
  <2>2. CASE u = t
    <3>1. task'[u].n = 1 /\ task'[u].op \in {"pair", "forget", "switch"}
      BY <1>4, <2>2 DEF Opens
    <3>. QED BY <1>3, <3>1 DEF Steps
  <2>. QED BY <2>1, <2>2
<1>5. CASE Dies
  BY <1>3, <1>5 DEF Dies, Idle
<1>6. ASSUME NEW t \in Thread, Reads(t) PROVE Made(task'[u].list, task'[u].op, task'[u].e, mem'.list)
  <2>1. /\ task[t].op # "none" /\ lock = Nobody /\ mem' = mem
        /\ \A w \in Thread \ {t} : task'[w] = task[w]
        /\ \/ task[t].op = "switch" /\ task'[t] = Idle
           \/ /\ task'[t].op = task[t].op /\ task'[t].e = task[t].e /\ task'[t].n = task[t].n + 1
              /\ task'[t].list = NextList(t)
    BY <1>6, Reading DEF Reads
  <2>2. CASE u # t
    <3>1. task'[u] = task[u] /\ lock # u
      BY <2>1, <2>2 DEF Nobody, Thread
    <3>. QED BY <1>2, <2>1, <3>1
  <2>3. CASE u = t
    BY <1>9, <2>1, <2>3 DEF NextList, Made
  <2>. QED BY <2>2, <2>3
<1>7. ASSUME NEW t \in Thread, Puts(t) \/ Drops(t) PROVE Made(task'[u].list, task'[u].op, task'[u].e, mem'.list)
  <2>1. PutStarts(t) \/ Dels(t, TRUE)
    BY <1>7 DEF Puts, Drops
  <2>2. task[t].op # "none" /\ lock = Nobody /\ Changes(t)
    BY <1>1, <2>1, WroteOne
  <2>3. ~Overtakes(t)
    BY <1>1, <2>1 DEF PutStarts, Dels
  <2>4. CASE u # t
    <3>1. task'[u] = task[u] /\ lock # u
      BY <1>7, <2>4, Carries
    <3>2. At(u, {"list"})
      BY <1>0, <3>1 DEF At, Row
    <3>3. mem'.list = mem.list
      BY <2>2, <2>3, <2>4, <3>2 DEF Overtakes, Changes
    <3>. QED BY <1>2, <3>1, <3>3
  <2>5. CASE u = t
    <3>1. CASE Puts(t)
      BY <1>0, <2>5, <3>1 DEF Puts
    <3>2. CASE Drops(t)
      <4>1. Ended(t) /\ task[t].op # "pair" /\ Row(t) \in RowName
        BY <3>2, Endings DEF Drops, Dels, Deletes
      <4>2. NotOver(t)
        BY <1>9, <2>5, <4>1 DEF Ended, Over
      <4>. QED BY <1>10, <2>2, <2>5, <4>1, <4>2 DEF NotOver, RowName
    <3>. QED BY <1>7, <3>1, <3>2
  <2>. QED BY <2>4, <2>5
<1>8. ASSUME NEW t \in Thread, Ends(t) \/ Spares(t) PROVE Made(task'[u].list, task'[u].op, task'[u].e, mem'.list)
  <2>1. mem' = mem /\ Ended(t) /\ Row(t) \in RowName
    BY <1>8, Endings DEF Ends, Spares
  <2>2. CASE u # t
    <3>1. task'[u] = task[u] /\ lock # u
      BY <1>8, <2>2, Carries
    <3>. QED BY <1>2, <2>1, <3>1
  <2>3. CASE u = t
    <3>1. NotOver(t) /\ task[t].op # "none"
      BY <1>9, <2>1, <2>3 DEF Ended, Over
    <3>. QED BY <1>10, <2>1, <2>3, <3>1 DEF NotOver, RowName
  <2>. QED BY <2>2, <2>3
<1>. QED BY <1>4, <1>5, <1>6, <1>7, <1>8, CleanStep

\* An access leaves every other desk alone.
LEMMA OthersAlone ==
    ASSUME TypeOK, TaskInv, LatestInv, Clean, NEW t \in Thread, PutStarts(t) \/ Dels(t, TRUE), NEW x, x # task[t].e
    PROVE  /\ Contains(mem'.list, x) <=> Contains(mem.list, x)
           /\ x \in mem'.tokens <=> x \in mem.tokens
           /\ x \in mem'.pins <=> x \in mem.pins
<1>1. task[t].op # "none" /\ Changes(t)
  BY WroteOne
<1>2. Row(t) = "list" => Pairing(t) \/ Forgetting(t)
  <2>1. task[t].op = "switch" => Row(t) \in {"read", "active"}
    BY <1>1, RowTable
  <2>2. task[t].op \in {"pair", "forget", "switch"}
    BY <1>1, RowTable
  <2>. QED BY <2>1, <2>2 DEF Pairing, Forgetting
<1>3. Contains(mem'.list, x) <=> Contains(mem.list, x)
  BY <1>1, <1>2 DEF Changes
<1>4. x \in mem'.tokens <=> x \in mem.tokens
  BY <1>1 DEF Changes
<1>5. x \in mem'.pins <=> x \in mem.pins
  BY <1>1 DEF Changes
<1>. QED BY <1>3, <1>4, <1>5

\* An operation that waits its turn while another one is done with an access.
LEMMA Waits ==
    ASSUME TypeOK, TaskInv, LockInv, LatestInv, ApartInv, Clean, Clean', NEW t \in Thread, NEW u \in Thread \ {t}, task[u].op # "none",
           Reads(t) \/ Puts(t) \/ Ends(t) \/ Drops(t) \/ Spares(t)
    PROVE  /\ task'[u] = task[u] /\ Coming(u)' = Coming(u)
           /\ Contains(mem'.list, task[u].e) <=> Contains(mem.list, task[u].e)
           /\ task[u].e \in mem'.tokens <=> task[u].e \in mem.tokens
           /\ task[u].e \in mem'.pins <=> task[u].e \in mem.pins
           /\ task[u].e \in forgot' <=> task[u].e \in forgot
           /\ task[u].e \in saved' <=> task[u].e \in saved
<1>1. task[t].op # "none" /\ task'[u] = task[u] /\ lock # u /\ lock' # u
  BY Carries
<1>2. Coming(u)' = Coming(u)
  BY <1>1 DEF Coming
<1>3. task[u].e # task[t].e
  BY <1>1 DEF ApartInv
<1>4. /\ Contains(mem'.list, task[u].e) <=> Contains(mem.list, task[u].e)
      /\ task[u].e \in mem'.tokens <=> task[u].e \in mem.tokens
      /\ task[u].e \in mem'.pins <=> task[u].e \in mem.pins
  <2>1. CASE Puts(t) \/ Drops(t)
    <3>1. PutStarts(t) \/ Dels(t, TRUE)
      BY <2>1 DEF Puts, Drops
    <3>. QED BY <1>3, <3>1, OthersAlone
  <2>2. CASE Reads(t) \/ Ends(t) \/ Spares(t)
    BY <2>2 DEF Reads, Ends, Spares
  <2>. QED BY <2>1, <2>2
<1>5. /\ task[u].e \in forgot' <=> task[u].e \in forgot
      /\ task[u].e \in saved' <=> task[u].e \in saved
  <2>1. CASE Reads(t) \/ Puts(t)
    BY <2>1 DEF Reads, Puts
  <2>2. CASE Ends(t) \/ Drops(t) \/ Spares(t)
    <3>1. Over(t) \/ NotOver(t)
      BY <2>2, Endings DEF Ended
    <3>2. (forgot' = forgot \/ forgot' = forgot \cup {task[t].e}) /\ (saved' = saved \/ saved' = saved \cup {task[t].e})
      BY <3>1 DEF Over, NotOver
    <3>. QED BY <1>3, <3>2
  <2>. QED BY <2>1, <2>2
<1>. QED BY <1>1, <1>2, <1>4, <1>5

\* A pairing keeps to its order.
LEMMA PairStep ==
    ASSUME TypeOK, TaskInv, LockInv, ApartInv, LatestInv, PairInv, Next, Clean'
    PROVE  PairInv'
<1>0. SUFFICES ASSUME NEW u \in Thread, task'[u].op = "pair"
               PROVE  PairOk(u)'
  BY DEF PairInv, Pairing
<1>1. Clean
  BY StaysUnclean
<1>2. task'[u] # Idle
  BY <1>0 DEF Idle
<1>3. ASSUME NEW t \in Thread, NEW e \in Endpoint, Opens(t, e) PROVE PairOk(u)'
  <2>1. CASE u = t
    <3>1. task'[u].e \notin forgot' /\ task'[u].n = 1 /\ lock' # u
      BY <1>0, <1>3, <2>1 DEF Opens
    <3>2. Coming(u)' = 1
      BY <3>1 DEF Coming
    <3>. QED BY <3>1, <3>2 DEF PairOk
  <2>2. CASE u # t
    <3>1. /\ task'[u] = task[u] /\ mem' = mem /\ lock' = lock
          /\ \A x : x \in forgot' => x \in forgot
      BY <1>3, <2>2 DEF Opens
    <3>2. PairOk(u) /\ Coming(u)' = Coming(u)
      BY <1>0, <1>1, <3>1 DEF PairInv, Pairing, Coming
    <3>. QED BY <3>1, <3>2 DEF PairOk
  <2>. QED BY <2>1, <2>2
<1>4. CASE Dies
  BY <1>2, <1>4 DEF Dies
<1>5. ASSUME NEW t \in Thread, Reads(t) \/ Puts(t) \/ Ends(t) \/ Drops(t) \/ Spares(t) PROVE PairOk(u)'
  <2>1. /\ task[t].op # "none" /\ \A w \in Thread \ {t} : task'[w] = task[w]
        /\ task'[t] = Idle \/ (task'[t].op = task[t].op /\ task'[t].e = task[t].e)
    BY <1>5, Carries
  <2>2. task[u].op = "pair" /\ task'[u].e = task[u].e /\ PairOk(u)
    BY <1>0, <1>1, <1>2, <2>1 DEF PairInv, Pairing
  <2>3. CASE u # t
    <3>1. /\ task'[u] = task[u] /\ Coming(u)' = Coming(u)
          /\ Contains(mem'.list, task[u].e) <=> Contains(mem.list, task[u].e)
          /\ task[u].e \in mem'.tokens <=> task[u].e \in mem.tokens
          /\ task[u].e \in mem'.pins <=> task[u].e \in mem.pins
          /\ task[u].e \in forgot' <=> task[u].e \in forgot
      <4>1. u \in Thread \ {t} /\ task[u].op # "none"
        BY <2>2, <2>3
      <4>. QED BY <1>1, <1>5, <4>1, Waits
    <3>. QED BY <2>2, <3>1 DEF PairOk
  <2>4. CASE u = t /\ Reads(t)
    <3>1. /\ lock = Nobody /\ task'[t].n = task[t].n + 1 /\ task[t].n = 3
      <4>1. /\ lock = Nobody
            /\ \/ task[t].op = "switch" /\ task'[t] = Idle
               \/ /\ task'[t].op = task[t].op /\ task'[t].e = task[t].e /\ task'[t].n = task[t].n + 1
                  /\ task[t].op = "pair" => task[t].n = 3
        BY <2>4, Reading DEF Reads
      <4>. QED BY <2>2, <2>4, <4>1
    <3>2. mem' = mem /\ lock' = lock /\ forgot' = forgot /\ Nobody # t
      BY <2>4 DEF Reads, Nobody, Thread
    <3>3. Coming(u) = 3 /\ Coming(u)' = 4
      BY <2>4, <3>1, <3>2 DEF Coming
    <3>. QED BY <2>2, <2>4, <3>1, <3>2, <3>3 DEF PairOk
  <2>5. CASE u = t /\ Puts(t)
    <3>1. lock = Nobody /\ lock' = t /\ task' = task /\ forgot' = forgot /\ Nobody # t /\ PutStarts(t)
      BY <2>5 DEF Puts, Nobody, Thread
    <3>2. Coming(u) = task[u].n /\ Coming(u)' = task[u].n + 1
      BY <2>5, <3>1 DEF Coming
    <3>3. Changes(t) /\ Pairing(t) /\ ~Forgetting(t)
      BY <1>1, <2>2, <2>5, <3>1, WroteOne DEF Pairing, Forgetting
    <3>4. /\ task[u].n \in 1..5
          /\ (task[u].n = 1 => Row(u) = "pin") /\ (task[u].n = 2 => Row(u) = "token") /\ (task[u].n = 4 => Row(u) = "list")
      BY <2>2, RowTable
    <3>5. task[u].n + 1 >= 2 => task[u].e \in mem'.pins
      <4>1. CASE task[u].n = 1
        BY <2>5, <3>3, <3>4, <4>1 DEF Changes
      <4>2. CASE task[u].n # 1
        <5>1. task[u].e \in mem.pins
          BY <2>2, <3>2, <3>4, <4>2 DEF PairOk
        <5>. QED BY <2>5, <3>3, <5>1 DEF Changes
      <4>. QED BY <4>1, <4>2
    <3>6. task[u].n + 1 >= 3 => task[u].e \in mem'.tokens
      <4>1. CASE task[u].n = 2
        BY <2>5, <3>3, <3>4, <4>1 DEF Changes
      <4>2. CASE task[u].n >= 3
        <5>1. task[u].e \in mem.tokens
          BY <2>2, <3>2, <3>4, <4>2 DEF PairOk
        <5>. QED BY <2>5, <3>3, <5>1 DEF Changes
      <4>. QED BY <3>4, <4>1, <4>2
    <3>7. task[u].n + 1 >= 5 => Contains(mem'.list, task[u].e)
      <4>1. CASE task[u].n = 4
        BY <2>5, <3>3, <3>4, <4>1 DEF Changes
      <4>2. CASE task[u].n >= 5
        <5>1. Contains(mem.list, task[u].e)
          BY <2>2, <3>2, <3>4, <4>2 DEF PairOk
        <5>. QED BY <2>5, <3>3, <5>1 DEF Changes
      <4>. QED BY <3>4, <4>1, <4>2
    <3>. QED BY <2>2, <3>1, <3>2, <3>5, <3>6, <3>7 DEF PairOk
  <2>6. CASE u = t /\ Ends(t)
    <3>1. lock = t /\ lock' = Nobody /\ mem' = mem /\ Nobody # t
      BY <2>6 DEF Ends, Nobody, Thread
    <3>2. NotOver(t)
      BY <1>2, <2>6, Endings DEF Ended, Over
    <3>3. Coming(u)' = Coming(u) /\ forgot' = forgot
      BY <2>6, <3>1, <3>2 DEF Coming, NotOver
    <3>. QED BY <2>2, <3>1, <3>3 DEF PairOk
  <2>7. CASE u = t /\ (Drops(t) \/ Spares(t))
    BY <2>2, <2>7 DEF Drops, Spares, Dels, Deletes, Forgetting
  <2>. QED BY <1>5, <2>3, <2>4, <2>5, <2>6, <2>7
<1>. QED BY <1>3, <1>4, <1>5, CleanStep

\* A forget keeps to its order.
LEMMA ForgetStep ==
    ASSUME TypeOK, TaskInv, LockInv, ApartInv, LatestInv, ForgetInv, RowsInv, Next, Clean'
    PROVE  ForgetInv'
<1>0. SUFFICES ASSUME NEW u \in Thread, task'[u].op = "forget"
               PROVE  ForgetOk(u)'
  BY DEF ForgetInv, Forgetting
<1>1. Clean
  BY StaysUnclean
<1>2. task'[u] # Idle
  BY <1>0 DEF Idle
<1>3. ASSUME NEW t \in Thread, NEW e \in Endpoint, Opens(t, e) PROVE ForgetOk(u)'
  <2>1. CASE u = t
    <3>1. task'[u].e \notin saved' /\ task'[u].n = 1 /\ lock' # u
      BY <1>0, <1>3, <2>1 DEF Opens
    <3>2. Coming(u)' = 1
      BY <3>1 DEF Coming
    <3>. QED BY <3>1, <3>2 DEF ForgetOk
  <2>2. CASE u # t
    <3>1. /\ task'[u] = task[u] /\ mem' = mem /\ lock' = lock
          /\ \A x : x \in forgot' => x \in forgot
          /\ \A x : x \in saved' => x \in saved
      BY <1>3, <2>2 DEF Opens
    <3>2. ForgetOk(u) /\ Coming(u)' = Coming(u)
      BY <1>0, <1>1, <3>1 DEF ForgetInv, Forgetting, Coming
    <3>. QED BY <3>1, <3>2 DEF ForgetOk
  <2>. QED BY <2>1, <2>2
<1>4. CASE Dies
  BY <1>2, <1>4 DEF Dies
<1>5. ASSUME NEW t \in Thread, Reads(t) \/ Puts(t) \/ Ends(t) \/ Drops(t) \/ Spares(t) PROVE ForgetOk(u)'
  <2>1. /\ task[t].op # "none" /\ \A w \in Thread \ {t} : task'[w] = task[w]
        /\ task'[t] = Idle \/ (task'[t].op = task[t].op /\ task'[t].e = task[t].e)
        /\ \A w \in Thread \ {t} : lock # w /\ lock' # w
    BY <1>5, Carries
  <2>2. task[u].op = "forget" /\ task'[u].e = task[u].e /\ ForgetOk(u) /\ u = "ui"
    BY <1>0, <1>1, <1>2, <2>1 DEF ForgetInv, Forgetting, TaskInv, Thread
  <2>3. task[u].n \in 1..5 /\ task[u].e \in Endpoint
    BY <2>2, RowTable
  <2>4. CASE u # t
    <3>1. /\ task'[u] = task[u] /\ Coming(u)' = Coming(u)
          /\ Contains(mem'.list, task[u].e) <=> Contains(mem.list, task[u].e)
          /\ task[u].e \in mem'.tokens <=> task[u].e \in mem.tokens
          /\ task[u].e \in mem'.pins <=> task[u].e \in mem.pins
          /\ task[u].e \in saved' <=> task[u].e \in saved
      <4>1. u \in Thread \ {t} /\ task[u].op # "none"
        BY <2>2, <2>4
      <4>. QED BY <1>1, <1>5, <4>1, Waits
    <3>2. Coming(u) = task[u].n /\ ~(Coming(u) >= 6)
      BY <2>1, <2>3, <2>4 DEF Coming
    <3>3. forgot' = forgot
      <4>1. ~Forgetting(t)
        BY <2>2, <2>4 DEF TaskInv, Thread, Forgetting
      <4>2. CASE Reads(t) \/ Puts(t)
        BY <4>2 DEF Reads, Puts
      <4>3. CASE Ends(t) \/ Drops(t) \/ Spares(t)
        BY <4>1, <4>3, Endings DEF Ended, Over, NotOver
      <4>. QED BY <1>5, <4>2, <4>3
    <3>. QED BY <2>2, <3>1, <3>2, <3>3 DEF ForgetOk
  <2>5. CASE u = t /\ Reads(t)
    <3>1. /\ lock = Nobody /\ task'[t].n = task[t].n + 1 /\ task[t].n = 1 /\ task'[t].list = NextList(t)
          /\ \A x : Contains(NextList(t), x) <=> Contains(mem.list, x) /\ x # task[t].e
      <4>1. /\ lock = Nobody
            /\ \/ task[t].op = "switch" /\ task'[t] = Idle
               \/ /\ task'[t].op = task[t].op /\ task'[t].e = task[t].e /\ task'[t].n = task[t].n + 1
                  /\ task'[t].list = NextList(t)
                  /\ task[t].op # "pair" => task[t].n = 1
            /\ task[t].op = "forget" => \A x : Contains(NextList(t), x) <=> Contains(mem.list, x) /\ x # task[t].e
        BY <2>5, Reading DEF Reads
      <4>. QED BY <2>2, <2>5, <4>1
    <3>2. mem' = mem /\ lock' = lock /\ forgot' = forgot /\ saved' = saved /\ Nobody # t
      BY <2>5 DEF Reads, Nobody, Thread
    <3>3. Coming(u)' = 2
      BY <2>5, <3>1, <3>2 DEF Coming
    <3>4. \A e \in forgot : ~Contains(mem.list, e)
      BY <1>1 DEF RowsInv
    <3>5. \A e \in forgot' : ~Contains(task'[u].list, e)
      BY <2>5, <3>1, <3>2, <3>4
    <3>. QED BY <2>2, <3>2, <3>3, <3>5 DEF ForgetOk
  <2>6. CASE u = t /\ (Puts(t) \/ Drops(t))
    <3>1. PutStarts(t) \/ Dels(t, TRUE)
      BY <2>6 DEF Puts, Drops
    <3>2. Changes(t) /\ lock = Nobody /\ Row(t) \in RowName /\ ~Pairing(t) /\ Forgetting(t)
      BY <1>1, <2>2, <2>6, <3>1, WroteOne DEF Pairing, Forgetting
    <3>3. Coming(u) = task[u].n /\ Nobody # t
      BY <2>6, <3>2 DEF Coming, Nobody, Thread
    <3>4. /\ task[u].n \in 1..5
          /\ Row(u) = "read" <=> task[u].n = 1
          /\ (task[u].n = 2 => Row(u) = "list") /\ (task[u].n = 3 => Row(u) = "token")
          /\ (task[u].n = 4 => Row(u) = "pin") /\ (task[u].n = 5 => Row(u) = "active")
      BY <2>2, RowTable
    <3>5. /\ Coming(u)' = task[u].n + 1 /\ saved' = saved /\ forgot' = forgot /\ task'[u].list = task[u].list
          /\ task'[u].n \in {task[u].n, task[u].n + 1}
      <4>1. CASE Puts(t)
        <5>1. lock' = t /\ task' = task /\ saved' = saved /\ forgot' = forgot
          BY <4>1 DEF Puts
        <5>. QED BY <2>6, <5>1 DEF Coming
      <4>2. CASE Drops(t)
        <5>1. NotOver(t) /\ lock' = Nobody
          BY <1>2, <2>6, <4>2, Endings DEF Ended, Over, Drops
        <5>. QED BY <2>6, <3>2, <3>3, <5>1 DEF Coming, NotOver
      <4>. QED BY <2>6, <4>1, <4>2
    <3>6. task[u].n >= 2
      BY <2>6, <3>2, <3>4 DEF RowName
    <3>7. task[u].n + 1 >= 3 => ~Contains(mem'.list, task[u].e)
      <4>1. CASE task[u].n = 2
        BY <2>6, <3>2, <3>4, <4>1 DEF Changes
      <4>2. CASE task[u].n >= 3
        <5>1. ~Contains(mem.list, task[u].e)
          BY <2>2, <3>3, <3>4, <4>2 DEF ForgetOk
        <5>. QED BY <2>6, <3>2, <5>1 DEF Changes
      <4>. QED BY <3>4, <4>1, <4>2
    <3>8. task[u].n + 1 >= 4 => task[u].e \notin mem'.tokens
      <4>1. CASE task[u].n = 3
        BY <2>6, <3>2, <3>4, <4>1 DEF Changes
      <4>2. CASE task[u].n >= 4
        <5>1. task[u].e \notin mem.tokens
          BY <2>2, <3>3, <3>4, <4>2 DEF ForgetOk
        <5>. QED BY <2>6, <3>2, <5>1 DEF Changes
      <4>. QED BY <3>4, <4>1, <4>2
    <3>9. task[u].n + 1 >= 5 => task[u].e \notin mem'.pins
      <4>1. CASE task[u].n = 4
        BY <2>6, <3>2, <3>4, <4>1 DEF Changes
      <4>2. CASE task[u].n >= 5
        <5>1. task[u].e \notin mem.pins
          BY <2>2, <3>3, <3>4, <4>2 DEF ForgetOk
        <5>. QED BY <2>6, <3>2, <5>1 DEF Changes
      <4>. QED BY <3>4, <4>1, <4>2
    <3>10. task[u].n + 1 >= 6 => mem'.active # task[u].e
      <4>1. CASE task[u].n = 5
        <5>1. ~Contains(task[u].list, task[u].e)
          BY <2>2, <4>1 DEF TaskInv, Forgetting
        <5>. QED BY <2>3, <2>6, <3>2, <3>4, <4>1, <5>1, EndpointAssumption DEF Changes
      <4>. QED BY <3>4, <4>1
    <3>11. \A e \in forgot : ~Contains(task[u].list, e)
      BY <2>2, <3>6 DEF ForgetOk
    <3>. QED BY <2>2, <3>5, <3>7, <3>8, <3>9, <3>10, <3>11 DEF ForgetOk
  <2>7. CASE u = t /\ Ends(t)
    <3>1. lock = t /\ lock' = Nobody /\ mem' = mem /\ Nobody # t
      BY <2>7 DEF Ends, Nobody, Thread
    <3>2. NotOver(t) /\ Row(t) \in RowName
      BY <1>2, <2>7, Endings DEF Ended, Over
    <3>3. /\ Coming(u)' = Coming(u) /\ forgot' = forgot /\ saved' = saved /\ task'[u].list = task[u].list
      BY <2>2, <2>7, <3>1, <3>2 DEF Coming, NotOver, Pairing
    <3>4. task[u].n >= 2
      <4>1. Row(u) = "read" <=> task[u].n = 1
        BY <2>2, <2>3, RowTable
      <4>. QED BY <2>3, <2>7, <3>2, <4>1 DEF RowName
    <3>. QED BY <2>2, <3>1, <3>3, <3>4 DEF ForgetOk
  <2>8. CASE u = t /\ Spares(t)
    <3>1. NotOver(t) /\ Row(t) = "active"
      BY <1>2, <2>8, Endings DEF Ended, Over, Spares, At
    <3>2. task[u].n = 5
      BY <2>2, <2>3, <2>8, <3>1, RowTable
    <3>. QED BY <2>8, <3>1, <3>2 DEF NotOver
  <2>. QED BY <1>5, <2>4, <2>5, <2>6, <2>7, <2>8
<1>. QED BY <1>3, <1>4, <1>5, CleanStep

\* A desk that is switched to is not forgotten meanwhile.
LEMMA SwitchStep ==
    ASSUME TypeOK, TaskInv, LockInv, ApartInv, LatestInv, SwitchInv, RowsInv, Next, Clean'
    PROVE  SwitchInv'
<1>0. SUFFICES ASSUME NEW u \in Thread, task'[u].op = "switch"
               PROVE  task'[u].e \notin forgot'
  BY DEF SwitchInv
<1>1. Clean
  BY StaysUnclean
<1>2. task'[u] # Idle
  BY <1>0 DEF Idle
<1>3. ASSUME NEW t \in Thread, NEW e \in Endpoint, Opens(t, e) PROVE task'[u].e \notin forgot'
  <2>1. CASE u = t
    <3>1. task'[u].e = e /\ Contains(mem.list, e) /\ forgot' = forgot
      BY <1>0, <1>3, <2>1 DEF Opens
    <3>. QED BY <1>1, <3>1 DEF RowsInv
  <2>2. CASE u # t
    <3>1. task'[u] = task[u] /\ \A x : x \in forgot' => x \in forgot
      BY <1>3, <2>2 DEF Opens
    <3>. QED BY <1>0, <1>1, <3>1 DEF SwitchInv
  <2>. QED BY <2>1, <2>2
<1>4. CASE Dies
  BY <1>2, <1>4 DEF Dies
<1>5. ASSUME NEW t \in Thread, Reads(t) \/ Puts(t) \/ Ends(t) \/ Drops(t) \/ Spares(t) PROVE task'[u].e \notin forgot'
  <2>1. /\ task[t].op # "none" /\ \A w \in Thread \ {t} : task'[w] = task[w]
        /\ task'[t] = Idle \/ (task'[t].op = task[t].op /\ task'[t].e = task[t].e)
    BY <1>5, Carries
  <2>2. task[u].op = "switch" /\ task'[u].e = task[u].e /\ task[u].e \notin forgot
    BY <1>0, <1>1, <1>2, <2>1 DEF SwitchInv
  <2>3. CASE u # t
    <3>1. u \in Thread \ {t} /\ task[u].op # "none"
      BY <2>2, <2>3
    <3>2. task[u].e \in forgot' <=> task[u].e \in forgot
      BY <1>1, <1>5, <3>1, Waits
    <3>. QED BY <2>2, <3>2
  <2>4. CASE u = t
    <3>1. forgot' = forgot
      <4>1. ~Forgetting(t)
        BY <2>2, <2>4 DEF Forgetting
      <4>2. CASE Reads(t) \/ Puts(t)
        BY <4>2 DEF Reads, Puts
      <4>3. CASE Ends(t) \/ Drops(t) \/ Spares(t)
        BY <4>1, <4>3, Endings DEF Ended, Over, NotOver
      <4>. QED BY <1>5, <4>2, <4>3
    <3>. QED BY <2>2, <3>1
  <2>. QED BY <2>3, <2>4
<1>. QED BY <1>3, <1>4, <1>5, CleanStep

\* The rows of the desks that are listed, saved and forgotten.
RowsOk ==
    /\ \A e \in Endpoint : Contains(mem.list, e) => e \in mem.tokens /\ e \in mem.pins
    /\ \A e \in saved : Contains(mem.list, e)
    /\ \A e \in forgot : ~Contains(mem.list, e) /\ e \notin mem.tokens /\ e \notin mem.pins /\ mem.active # e

\* An access to the cache keeps them.
LEMMA RowsKept ==
    ASSUME TypeOK, TaskInv, LatestInv, Clean, PairInv, ForgetInv, SwitchInv, RowsOk,
           NEW t \in Thread, PutStarts(t) \/ Dels(t, TRUE)
    PROVE  /\ \A e \in Endpoint : Contains(mem'.list, e) => e \in mem'.tokens /\ e \in mem'.pins
           /\ \A e \in saved : Contains(mem'.list, e)
           /\ \A e \in forgot : ~Contains(mem'.list, e) /\ e \notin mem'.tokens /\ e \notin mem'.pins /\ mem'.active # e
<1>1. task[t].op # "none" /\ lock = Nobody /\ Row(t) \in RowName /\ Changes(t)
  BY WroteOne
<1>2. /\ task[t].e \in Endpoint /\ task[t].n \in 1..5 /\ Coming(t) = task[t].n
      /\ Pairing(t) \/ Forgetting(t) \/ task[t].op = "switch"
  <2>1. task[t].e \in Endpoint /\ task[t].n \in 1..5 /\ task[t].op \in {"pair", "forget", "switch"}
    BY <1>1, RowTable
  <2>. QED BY <1>1, <2>1 DEF Coming, Nobody, Thread, Pairing, Forgetting
<1>3. /\ Pairing(t) => PairOk(t)
      /\ Forgetting(t) => ForgetOk(t)
      /\ task[t].op = "switch" => task[t].e \notin forgot /\ Row(t) = "active"
  <2>1. task[t].op = "switch" => Row(t) \in {"read", "active"}
    BY <1>1, RowTable
  <2>2. Row(t) # "read"
    BY <1>1 DEF RowName
  <2>. QED BY <2>1, <2>2 DEF PairInv, ForgetInv, SwitchInv, Clean
<1>4. \A x : x # task[t].e =>
        /\ Contains(mem'.list, x) <=> Contains(mem.list, x)
        /\ x \in mem'.tokens <=> x \in mem.tokens
        /\ x \in mem'.pins <=> x \in mem.pins
  BY OthersAlone
<1>5. Pairing(t) => (Row(t) = "list" => task[t].n = 4) /\ ~Forgetting(t)
  <2>1. Pairing(t) /\ Row(t) = "list" => task[t].n = 4
    BY <1>1, <1>2, RowTable DEF Pairing
  <2>. QED BY <2>1 DEF Pairing, Forgetting
<1>6. Forgetting(t) => /\ Row(t) = "token" => task[t].n = 3
                       /\ Row(t) = "pin" => task[t].n = 4
                       /\ task[t].n >= 2 /\ ~Pairing(t)
  <2>1. Forgetting(t) /\ Row(t) = "token" => task[t].n = 3
    BY <1>1, <1>2, RowTable DEF Forgetting
  <2>2. Forgetting(t) /\ Row(t) = "pin" => task[t].n = 4
    BY <1>1, <1>2, RowTable DEF Forgetting
  <2>3. Forgetting(t) => task[t].n # 1
    <3>1. Forgetting(t) /\ task[t].n = 1 => Row(t) = "read"
      BY <1>1, <1>2, RowTable DEF Forgetting
    <3>. QED BY <1>1, <3>1 DEF RowName
  <2>. QED BY <1>2, <2>1, <2>2, <2>3 DEF Pairing, Forgetting
<1>7. ASSUME Contains(mem'.list, task[t].e) PROVE task[t].e \in mem'.tokens /\ task[t].e \in mem'.pins
  <2>1. CASE Pairing(t)
    <3>1. task[t].e \in mem.tokens /\ task[t].e \in mem.pins
      <4>1. CASE Row(t) = "list"
        BY <1>2, <1>3, <1>5, <2>1, <4>1 DEF PairOk
      <4>2. CASE Row(t) # "list"
        <5>1. Contains(mem.list, task[t].e)
          BY <1>1, <1>7, <4>2 DEF Changes
        <5>. QED BY <1>2, <5>1 DEF RowsOk
      <4>. QED BY <4>1, <4>2
    <3>. QED BY <1>1, <2>1, <3>1 DEF Changes
  <2>2. CASE Forgetting(t)
    <3>1. Row(t) # "list" /\ Contains(mem.list, task[t].e)
      BY <1>1, <1>7, <2>2 DEF Changes
    <3>2. ~(task[t].n >= 3)
      BY <1>2, <1>3, <2>2, <3>1 DEF ForgetOk
    <3>3. Row(t) # "token" /\ Row(t) # "pin"
      BY <1>6, <2>2, <3>2
    <3>. QED BY <1>1, <1>2, <3>1, <3>3 DEF Changes, RowsOk
  <2>3. CASE task[t].op = "switch"
    <3>1. mem'.list = mem.list /\ mem'.tokens = mem.tokens /\ mem'.pins = mem.pins
      BY <1>1, <1>3, <2>3 DEF Changes
    <3>. QED BY <1>2, <1>7, <3>1 DEF RowsOk
  <2>. QED BY <1>2, <2>1, <2>2, <2>3
<1>8. task[t].e \in saved => Contains(mem'.list, task[t].e)
  <2>1. CASE Forgetting(t)
    BY <1>3, <2>1 DEF ForgetOk
  <2>2. CASE ~Forgetting(t)
    <3>1. Contains(mem.list, task[t].e) => Contains(mem'.list, task[t].e)
      BY <1>1, <1>2, <1>3, <2>2 DEF Changes
    <3>. QED BY <3>1 DEF RowsOk
  <2>. QED BY <2>1, <2>2
<1>9. ASSUME NEW x \in forgot PROVE ~Contains(mem'.list, x) /\ x \notin mem'.tokens /\ x \notin mem'.pins
  <2>1. ~Contains(mem.list, x) /\ x \notin mem.tokens /\ x \notin mem.pins
    BY DEF RowsOk
  <2>2. CASE x # task[t].e
    BY <1>4, <2>1, <2>2
  <2>3. CASE x = task[t].e
    <3>1. Forgetting(t) /\ ~Pairing(t)
      BY <1>2, <1>3, <1>6, <2>3 DEF PairOk
    <3>2. ~Contains(mem'.list, x)
      BY <1>1, <2>1, <2>3, <3>1 DEF Changes
    <3>3. x \notin mem'.tokens
      BY <1>1, <2>1, <3>1 DEF Changes
    <3>4. x \notin mem'.pins
      BY <1>1, <2>1, <3>1 DEF Changes
    <3>. QED BY <3>2, <3>3, <3>4
  <2>. QED BY <2>2, <2>3
<1>10. ASSUME NEW x \in forgot PROVE mem'.active # x
  <2>1. CASE Row(t) # "active"
    BY <1>1, <2>1 DEF Changes, RowsOk
  <2>2. CASE Row(t) = "active" /\ ~Forgetting(t)
    <3>1. mem'.active = task[t].e
      BY <1>1, <2>2 DEF Changes
    <3>2. task[t].e \notin forgot
      BY <1>2, <1>3, <2>2 DEF PairOk
    <3>. QED BY <3>1, <3>2
  <2>3. CASE Row(t) = "active" /\ Forgetting(t)
    <3>1. mem'.active = NoEndpoint \/ Contains(task[t].list, mem'.active)
      BY <1>1, <2>3 DEF Changes
    <3>2. ~Contains(task[t].list, x)
      BY <1>3, <1>6, <2>3 DEF ForgetOk
    <3>3. x # NoEndpoint
      BY EndpointAssumption DEF TypeOK
    <3>. QED BY <3>1, <3>2, <3>3
  <2>. QED BY <2>1, <2>2, <2>3
<1>11. \A e \in Endpoint : Contains(mem'.list, e) => e \in mem'.tokens /\ e \in mem'.pins
  BY <1>4, <1>7 DEF RowsOk
<1>12. \A e \in saved : Contains(mem'.list, e)
  BY <1>4, <1>8 DEF RowsOk
<1>. QED BY <1>9, <1>10, <1>11, <1>12

\* The rows are kept.
LEMMA RowsStep ==
    ASSUME TypeOK, TaskInv, LockInv, LatestInv, PairInv, ForgetInv, SwitchInv, RowsInv, Next, Clean'
    PROVE  RowsInv'
<1>0. SUFFICES RowsOk'
  BY DEF RowsInv, RowsOk
<1>1. Clean
  BY StaysUnclean
<1>2. RowsOk
  BY <1>1 DEF RowsInv, RowsOk
<1>3. ASSUME NEW t \in Thread, NEW e \in Endpoint, Opens(t, e) PROVE RowsOk'
  <2>1. mem' = mem /\ (\A x : x \in forgot' => x \in forgot) /\ (\A x : x \in saved' => x \in saved)
    BY <1>3 DEF Opens
  <2>. QED BY <1>2, <2>1 DEF RowsOk
<1>4. ASSUME Dies \/ \E t \in Thread : Reads(t) PROVE RowsOk'
  <2>1. mem' = mem /\ forgot' = forgot /\ saved' = saved
    BY <1>4 DEF Dies, Reads
  <2>. QED BY <1>2, <2>1 DEF RowsOk
<1>5. ASSUME NEW t \in Thread, Puts(t) \/ Drops(t) PROVE RowsOk'
  <2>1. PutStarts(t) \/ Dels(t, TRUE)
    BY <1>5 DEF Puts, Drops
  <2>2. /\ \A e \in Endpoint : Contains(mem'.list, e) => e \in mem'.tokens /\ e \in mem'.pins
        /\ \A e \in saved : Contains(mem'.list, e)
        /\ \A e \in forgot : ~Contains(mem'.list, e) /\ e \notin mem'.tokens /\ e \notin mem'.pins /\ mem'.active # e
    BY <1>1, <1>2, <2>1, RowsKept
  <2>3. CASE forgot' = forgot /\ saved' = saved
    BY <2>2, <2>3 DEF RowsOk
  <2>4. CASE Drops(t) /\ Over(t)
    <3>1. Forgetting(t) /\ ~Pairing(t)
      BY <2>4 DEF Drops, Dels, Deletes, Forgetting, Pairing
    <3>2. saved' = saved /\ forgot' = forgot \cup {task[t].e} /\ task[t].n = 5
      BY <2>4, <3>1 DEF Over
    <3>3. Changes(t) /\ lock = Nobody /\ Nobody # t /\ task[t].op # "none"
      BY <1>1, <2>1, WroteOne DEF Nobody, Thread
    <3>4. Row(t) = "active" /\ task[t].e \in Endpoint
      BY <3>1, <3>2, <3>3, RowTable DEF Forgetting
    <3>5. Coming(t) = 5 /\ ForgetOk(t)
      BY <1>1, <3>1, <3>2, <3>3 DEF Coming, ForgetInv
    <3>6. ~Contains(mem'.list, task[t].e) /\ task[t].e \notin mem'.tokens /\ task[t].e \notin mem'.pins
      BY <3>3, <3>4, <3>5 DEF Changes, ForgetOk
    <3>7. mem'.active # task[t].e
      <4>1. ~Contains(task[t].list, task[t].e)
        BY <3>1, <3>2 DEF TaskInv
      <4>. QED BY <3>1, <3>3, <3>4, <4>1, EndpointAssumption DEF Changes
    <3>. QED BY <2>2, <3>2, <3>6, <3>7 DEF RowsOk
  <2>5. Drops(t) => Over(t) \/ NotOver(t)
    BY Endings DEF Ended
  <2>. QED BY <1>5, <2>3, <2>4, <2>5 DEF Puts, NotOver
<1>6. ASSUME NEW t \in Thread, Ends(t) \/ Spares(t) PROVE RowsOk'
  <2>1. mem' = mem /\ Ended(t)
    BY <1>6, Endings DEF Ends, Spares
  <2>2. CASE NotOver(t)
    BY <1>2, <2>1, <2>2 DEF NotOver, RowsOk
  <2>3. CASE Over(t)
    <3>1. CASE Pairing(t)
      <4>1. saved' = saved \cup {task[t].e} /\ forgot' = forgot /\ task[t].n = 5
        BY <2>3, <3>1 DEF Over, Pairing, Forgetting
      <4>2. PairOk(t) /\ Coming(t) >= 5
        BY <1>1, <3>1, <4>1 DEF PairInv, Coming
      <4>3. Contains(mem.list, task[t].e)
        BY <4>2 DEF PairOk
      <4>. QED BY <1>2, <2>1, <4>1, <4>3 DEF RowsOk
    <3>2. CASE Forgetting(t)
      <4>1. saved' = saved /\ forgot' = forgot \cup {task[t].e} /\ task[t].n = 5
        BY <2>3, <3>2 DEF Over, Pairing, Forgetting
      <4>2. ForgetOk(t) /\ Coming(t) \in {5, 6}
        BY <1>1, <3>2, <4>1 DEF ForgetInv, Coming
      <4>3. mem.active # task[t].e
        <5>1. CASE Ends(t)
          BY <4>1, <4>2, <5>1 DEF Ends, Coming, ForgetOk
        <5>. QED BY <1>6, <5>1 DEF Spares
      <4>4. ~Contains(mem.list, task[t].e) /\ task[t].e \notin mem.tokens /\ task[t].e \notin mem.pins
        BY <4>2 DEF ForgetOk
      <4>. QED BY <1>2, <2>1, <4>1, <4>3, <4>4 DEF RowsOk
    <3>3. CASE ~Pairing(t) /\ ~Forgetting(t)
      BY <1>2, <2>1, <2>3, <3>3 DEF Over, RowsOk
    <3>. QED BY <3>1, <3>2, <3>3
  <2>. QED BY <2>1, <2>2, <2>3 DEF Ended
<1>. QED BY <1>3, <1>4, <1>5, <1>6, CleanStep

-----------------------------------------------------------------------------
(* Theorems.                                                               *)

\* The empty store satisfies the invariant.
LEMMA Initially ==
    ASSUME Init
    PROVE  IInv
<1>1. Idle \in Task /\ Blank \in Rows /\ IsInjective(<<>>) /\ \A x : ~Contains(<<>>, x)
  BY Heads DEF Idle, Task, Blank, Rows
<1>2. \A t \in Thread : task[t] = Idle
  BY DEF Init
<1>3. Idle.op = "none" /\ Idle.list = <<>> /\ Blank.list = <<>>
  BY DEF Idle, Blank
<1>4. TypeOK
  BY <1>1, <1>2, <1>3 DEF Init, TypeOK
<1>5. TaskInv
  BY <1>1, <1>2, <1>3 DEF TaskInv, Forgetting, Thread
<1>6. LockInv
  BY DEF Init, LockInv, Nobody, Thread
<1>7. ApartInv /\ LatestInv /\ PairInv /\ ForgetInv /\ SwitchInv
  BY <1>2, <1>3 DEF ApartInv, LatestInv, PairInv, ForgetInv, SwitchInv, Pairing, Forgetting, At
<1>8. RowsInv
  BY <1>1, <1>3 DEF Init, RowsInv
<1>. QED BY <1>4, <1>5, <1>6, <1>7, <1>8 DEF IInv

\* Every step keeps it.
LEMMA Inductive ==
    ASSUME IInv, [Next]_vars
    PROVE  IInv'
<1>1. CASE UNCHANGED vars
  BY <1>1 DEF vars, histVars, IInv, TypeOK, TaskInv, LockInv, ApartInv, LatestInv, PairInv, ForgetInv, SwitchInv, RowsInv,
     PairOk, ForgetOk, Clean, Coming, Pairing, Forgetting, At, Row, Deletes, Inserted, Subject, NextActive
<1>2. CASE Next
  <2>1. TypeOK' /\ TaskInv' /\ LockInv'
    BY TypeStep, TaskStep, LockStep DEF IInv
  <2>2. CASE Clean'
    BY <1>2, <2>1, <2>2, ApartStep, LatestStep, PairStep, ForgetStep, SwitchStep, RowsStep DEF IInv
  <2>3. CASE ~Clean'
    BY <2>1, <2>3 DEF IInv, ApartInv, LatestInv, PairInv, ForgetInv, SwitchInv, RowsInv
  <2>. QED BY <2>2, <2>3
<1>. QED BY <1>1, <1>2

\* The invariant holds in every state.
THEOREM Invariant == Spec => []IInv
BY Initially, Inductive, PTL DEF Spec

\* Rows, operations and the lock are well typed, and the list has one entry a
\* desk.
THEOREM TypeCorrect == Spec => []TypeOK
BY Invariant, PTL DEF IInv

\* Once a put is over the cache is the file, whatever interleaves, as long as
\* no write has failed or been cut in two.
THEOREM CacheIsFile == Spec => []WriteThrough
<1>1. IInv => WriteThrough
  BY DEF IInv, LockInv, WriteThrough
<1>. QED BY <1>1, Invariant, PTL

\* A pairing is in the file whole and for good, or not at all.
THEOREM PairingIsWhole == Spec => []PairingIsDurable
<1>1. ASSUME IInv PROVE PairingIsDurable
  <2>1. SUFFICES ASSUME ~torn, ~raced, lock = Nobody
                 PROVE  /\ \A e \in ToSet(file.list) : e \in file.tokens
                        /\ \A e \in saved : Contains(file.list, e) /\ e \in file.tokens /\ e \in file.pins
    BY DEF PairingIsDurable, ListedHasToken, SavedSurvives
  <2>2. mem = file /\ file.list \in Seq(Endpoint) /\ saved \in SUBSET Endpoint
    BY <1>1, <2>1 DEF IInv, LockInv, TypeOK, Rows
  <2>3. \A e \in ToSet(file.list) : e \in Endpoint /\ Contains(file.list, e)
    BY <2>2, LenProperties DEF ToSet, Contains
  <2>4. /\ \A e \in Endpoint : Contains(mem.list, e) => e \in mem.tokens /\ e \in mem.pins
        /\ \A e \in saved : Contains(mem.list, e)
    BY <1>1, <2>1 DEF IInv, RowsInv, Clean
  <2>. QED BY <2>2, <2>3, <2>4
<1>. QED BY <1>1, Invariant, PTL

\* Once a forget has returned nothing of the desk is left, in the cache or in
\* the file, also while another operation writes.
THEOREM ForgetIsWhole == Spec => []ForgetIsComplete
<1>1. ASSUME IInv PROVE ForgetIsComplete
  <2>1. SUFFICES ASSUME ~torn, ~raced, NEW e \in forgot
                 PROVE  /\ ~Contains(mem.list, e) /\ e \notin mem.tokens /\ e \notin mem.pins /\ mem.active # e
                        /\ ~Contains(file.list, e) /\ e \notin file.tokens /\ e \notin file.pins /\ file.active # e
    BY DEF ForgetIsComplete
  <2>2. ~Contains(mem.list, e) /\ e \notin mem.tokens /\ e \notin mem.pins /\ mem.active # e
    BY <1>1, <2>1 DEF IInv, RowsInv, Clean
  <2>3. CASE lock = Nobody
    BY <1>1, <2>1, <2>2, <2>3 DEF IInv, LockInv
  <2>4. CASE lock \in Thread
    <3>1. PICK t \in Thread : lock = t
      BY <2>4
    <3>2. /\ At(t, {"pin", "token", "list", "active"}) /\ ~Deletes(t)
          /\ file = Without(mem, Row(t), Subject(t))
      BY <1>1, <2>1, <3>1 DEF IInv, LockInv
    <3>3. Row(t) \in RowName /\ task[t].op # "none" /\ mem \in Rows
      BY <1>1, <3>2 DEF At, RowName, IInv, TypeOK
    <3>4. Subject(t) \in Endpoint
      BY <1>1, <3>2, <3>3, SubjectIsDesk DEF IInv
    <3> DEFINE w == Without(mem, Row(t), Subject(t))
    <3>5. /\ w \in Rows
          /\ w.list = (IF Row(t) = "list" THEN <<>> ELSE mem.list)
          /\ w.active = (IF Row(t) = "active" THEN NoEndpoint ELSE mem.active)
          /\ w.tokens = (IF Row(t) = "token" THEN mem.tokens \ {Subject(t)} ELSE mem.tokens)
          /\ w.pins = (IF Row(t) = "pin" THEN mem.pins \ {Subject(t)} ELSE mem.pins)
      BY <3>3, <3>4, WithoutRow
    <3> HIDE DEF w
    <3>6. file = w
      BY <3>2 DEF w
    <3>7. e # NoEndpoint
      BY <1>1, EndpointAssumption DEF IInv, TypeOK
    <3>8. ~Contains(file.list, e)
      BY <2>2, <3>5, <3>6, Heads
    <3>9. e \notin file.tokens /\ e \notin file.pins
      BY <2>2, <3>5, <3>6
    <3>. QED BY <2>2, <3>5, <3>6, <3>7, <3>8, <3>9
  <2>5. lock = Nobody \/ lock \in Thread
    BY <1>1 DEF IInv, TypeOK
  <2>. QED BY <2>3, <2>4, <2>5
<1>. QED BY <1>1, Invariant, PTL
=============================================================================
