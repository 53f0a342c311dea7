----------------------------- MODULE EventProofs -----------------------------
(***************************************************************************)
(* For any number of events, callbacks, nested passes and calls: a pass    *)
(* over the listeners serves them once and in order while the callbacks    *)
(* change the list it walks.                                               *)
(***************************************************************************)
EXTENDS Event, ListLemmas

(***************************************************************************)
(* What the walk rests on.  The listener a pass looks at next divides the  *)
(* listeners in two: those at or after it have not been called, those the  *)
(* pass still owes a call are among them, and the list has them in the     *)
(* order the pass found them in.                                           *)
(***************************************************************************)
Pending(f) == IF f.running THEN f.storage ELSE f.curr

Uncalled(f) == f.owed \ ToSet(f.called)

Has(s, n) == \E i \in DOMAIN s : s[i] = n

AtOrAfter(s, p, x) == p # NULL /\ (x = p \/ Before(s, p, x))

\* Of a frame, with the listeners of its event, the links and the silent.
PassOK(f, s, nx, sil) ==
    /\ ~f.running => f.storage = IF f.curr = NULL THEN NULL ELSE nx[f.curr]
    /\ Pending(f) # NULL => Has(s, Pending(f))
    /\ Uncalled(f) \intersect sil = {}
    /\ \A x \in Uncalled(f) : AtOrAfter(s, Pending(f), x)
    /\ \A x, y \in Uncalled(f) : Before(f.began, x, y) => Before(s, x, y)
    /\ \A x, y \in f.owed :
            Before(f.began, x, y) /\ y \in ToSet(f.called) => Before(f.called, x, y)
    /\ IsInjective(f.called)
    /\ \A x \in ToSet(f.called) : ~AtOrAfter(s, Pending(f), x)

Passes ==
    /\ \A i \in 1..Len(stack) : PassOK(stack[i], order[stack[i].event], next, silent)
    /\ \A i \in 2..Len(stack) : stack[i].running

IInv == TypeOK /\ WellLinked /\ Passes

-----------------------------------------------------------------------------
(* Sequences                                                               *)

LEMMA SeqDomain ==
    ASSUME NEW S, NEW s \in Seq(S)
    PROVE  DOMAIN s = 1..Len(s) /\ Len(s) \in Nat /\ \A i \in 1..Len(s) : s[i] \in S
BY LenProperties, ElementOfSeq

\* What a call at the end of the record, or a registration, adds.
LEMMA BeforeAppend ==
    ASSUME NEW S, NEW s \in Seq(S), NEW n \in S
    PROVE  /\ ToSet(Append(s, n)) = ToSet(s) \union {n}
           /\ \A x : Has(s, x) => Has(Append(s, n), x)
           /\ \A x, y : Before(Append(s, n), x, y) <=>
                            Before(s, x, y) \/ (x \in ToSet(s) /\ y = n)
<1> DEFINE r == Append(s, n)
<1>1. DOMAIN s = 1..Len(s) /\ Len(s) \in Nat
  BY SeqDomain
<1>2. /\ DOMAIN r = 1..(Len(s) + 1)
      /\ \A i \in 1..Len(s) : r[i] = s[i]
      /\ r[Len(s) + 1] = n
  BY AppendProperties, SeqDomain
<1> HIDE DEF r
<1>3. ToSet(r) = ToSet(s) \union {n}
  BY <1>1, <1>2 DEF ToSet
<1>4. \A x : Has(s, x) => Has(r, x)
  BY <1>1, <1>2 DEF Has
<1>5. ASSUME NEW x, NEW y, Before(r, x, y)
      PROVE  Before(s, x, y) \/ (x \in ToSet(s) /\ y = n)
  <2>1. PICK i, j \in 1..(Len(s) + 1) : i < j /\ r[i] = x /\ r[j] = y
    BY <1>2, <1>5 DEF Before
  <2>2. i \in 1..Len(s) /\ s[i] = x
    BY <1>1, <1>2, <2>1
  <2>3. CASE j = Len(s) + 1
    BY <1>1, <1>2, <2>1, <2>2, <2>3 DEF ToSet
  <2>4. CASE j # Len(s) + 1
    <3>1. j \in 1..Len(s) /\ s[j] = y
      BY <1>1, <1>2, <2>1, <2>4
    <3> QED BY <1>1, <2>1, <2>2, <3>1 DEF Before
  <2> QED BY <2>3, <2>4
<1>6. ASSUME NEW x, NEW y, Before(s, x, y) PROVE Before(r, x, y)
  <2>1. PICK i, j \in 1..Len(s) : i < j /\ s[i] = x /\ s[j] = y
    BY <1>1, <1>6 DEF Before
  <2>2. i \in DOMAIN r /\ j \in DOMAIN r /\ r[i] = x /\ r[j] = y
    BY <1>1, <1>2, <2>1
  <2> QED BY <2>1, <2>2 DEF Before
<1>7. ASSUME NEW x \in ToSet(s) PROVE Before(r, x, n)
  <2>1. PICK i \in 1..Len(s) : s[i] = x
    BY <1>1 DEF ToSet
  <2>2. i < Len(s) + 1 /\ i \in DOMAIN r /\ Len(s) + 1 \in DOMAIN r /\ r[i] = x
    BY <1>1, <1>2, <2>1
  <2> QED BY <1>2, <2>2 DEF Before
<1> QED BY <1>3, <1>4, <1>5, <1>6, <1>7 DEF r

\* What a removal leaves of the order of the others.
LEMMA BeforeRemove ==
    ASSUME NEW S, NEW s \in Seq(S), Distinct(s), NEW i \in 1..Len(s)
    PROVE  /\ \A x : Has(s, x) /\ x # s[i] => Has(RemoveAt(s, i), x)
           /\ \A x, y : Before(RemoveAt(s, i), x, y) <=>
                            Before(s, x, y) /\ x # s[i] /\ y # s[i]
<1> DEFINE r == RemoveAt(s, i)
           old(j) == IF j < i THEN j ELSE j + 1
           new(j) == IF j < i THEN j ELSE j - 1
<1>1. DOMAIN s = 1..Len(s) /\ Len(s) \in Nat
  BY SeqDomain
<1>2. /\ DOMAIN r = 1..(Len(s) - 1)
      /\ \A j \in 1..(Len(s) - 1) : r[j] = s[old(j)]
  <2>1. /\ r \in Seq(S) /\ Len(r) = Len(s) - 1
        /\ \A j \in 1..(Len(s) - 1) : r[j] = IF j < i THEN s[j] ELSE s[j + 1]
    BY RemoveAtFacts
  <2> QED BY <2>1, SeqDomain
<1> HIDE DEF r
<1>3. \A j \in 1..(Len(s) - 1) : old(j) \in 1..Len(s) /\ old(j) # i
  BY <1>1
<1>4. ASSUME NEW j \in 1..Len(s), s[j] # s[i]
      PROVE  new(j) \in 1..(Len(s) - 1) /\ r[new(j)] = s[j]
  <2>1. j # i
    BY <1>4
  <2>2. new(j) \in 1..(Len(s) - 1) /\ old(new(j)) = j
    BY <1>1, <2>1
  <2> QED BY <1>2, <2>2
<1>5. \A x : Has(s, x) /\ x # s[i] => Has(r, x)
  BY <1>1, <1>2, <1>4 DEF Has
<1>6. ASSUME NEW x, NEW y, Before(r, x, y)
      PROVE  Before(s, x, y) /\ x # s[i] /\ y # s[i]
  <2>1. PICK j, k \in 1..(Len(s) - 1) : j < k /\ r[j] = x /\ r[k] = y
    BY <1>2, <1>6 DEF Before
  <2>2. /\ old(j) \in 1..Len(s) /\ old(k) \in 1..Len(s) /\ old(j) < old(k)
        /\ s[old(j)] = x /\ s[old(k)] = y
    BY <1>1, <1>2, <1>3, <2>1
  <2>3. x # s[i] /\ y # s[i]
    BY <1>3, <2>1, <2>2 DEF Distinct
  <2> QED BY <1>1, <2>2, <2>3 DEF Before
<1>7. ASSUME NEW x, NEW y, Before(s, x, y), x # s[i], y # s[i]
      PROVE  Before(r, x, y)
  <2>1. PICK j, k \in 1..Len(s) : j < k /\ s[j] = x /\ s[k] = y
    BY <1>1, <1>7 DEF Before
  <2>2. /\ new(j) \in 1..(Len(s) - 1) /\ new(k) \in 1..(Len(s) - 1)
        /\ r[new(j)] = x /\ r[new(k)] = y
    BY <1>4, <1>7, <2>1
  <2>3. j # i /\ k # i
    BY <1>7, <2>1
  <2>4. new(j) < new(k)
    BY <1>1, <2>1, <2>3
  <2> QED BY <1>2, <2>2, <2>4 DEF Before
<1> QED BY <1>5, <1>6, <1>7 DEF r

\* A distinct sequence orders its members strictly.
LEMMA BeforeStrict ==
    ASSUME NEW S, NEW s \in Seq(S), Distinct(s), NEW x, NEW y, Before(s, x, y)
    PROVE  x # y /\ ~Before(s, y, x) /\ Has(s, x) /\ Has(s, y)
<1>1. DOMAIN s = 1..Len(s) /\ Len(s) \in Nat
  BY SeqDomain
<1>2. PICK i, j \in 1..Len(s) : i < j /\ s[i] = x /\ s[j] = y
  BY <1>1 DEF Before
<1>3. x # y
  BY <1>1, <1>2 DEF Distinct
<1>4. ASSUME Before(s, y, x) PROVE FALSE
  <2>1. PICK k, m \in 1..Len(s) : k < m /\ s[k] = y /\ s[m] = x
    BY <1>1, <1>4 DEF Before
  <2>2. k = j /\ m = i
    BY <1>2, <2>1 DEF Distinct
  <2> QED BY <1>1, <1>2, <2>1, <2>2
<1> QED BY <1>1, <1>2, <1>3, <1>4 DEF Has

\* The next link of a listener leads to the listeners after it.
NextLinks(s, nx) == \A i \in 1..Len(s) : nx[s[i]] = IF i = Len(s) THEN NULL ELSE s[i + 1]

LEMMA Follow ==
    ASSUME NEW s \in Seq(Nodes), Distinct(s), NEW nx, NextLinks(s, nx),
           NEW p, Has(s, p)
    PROVE  /\ p \in Nodes
           /\ nx[p] \in Nodes \union {NULL}
           /\ nx[p] # NULL => Has(s, nx[p])
           /\ \A x : AtOrAfter(s, nx[p], x) <=> AtOrAfter(s, p, x) /\ x # p
<1>1. DOMAIN s = 1..Len(s) /\ Len(s) \in Nat /\ \A i \in 1..Len(s) : s[i] \in Nodes
  BY SeqDomain
<1>2. PICK k \in 1..Len(s) : s[k] = p
  BY <1>1 DEF Has
<1>3. p \in Nodes /\ p # NULL
  BY <1>1, <1>2, NullAssumption
<1>4. nx[p] = IF k = Len(s) THEN NULL ELSE s[k + 1]
  BY <1>2 DEF NextLinks
<1>5. CASE k = Len(s)
  <2>1. ASSUME NEW x, Before(s, p, x) PROVE FALSE
    <3>1. PICK i, j \in 1..Len(s) : i < j /\ s[i] = p /\ s[j] = x
      BY <1>1, <2>1 DEF Before
    <3>2. i = k
      BY <1>2, <3>1 DEF Distinct
    <3> QED BY <1>1, <1>5, <3>1, <3>2
  <2> QED BY <1>3, <1>4, <1>5, <2>1 DEF AtOrAfter
<1>6. CASE k # Len(s)
  <2> DEFINE q == s[k + 1]
  <2>0. nx[p] = q
    BY <1>4, <1>6
  <2>1. k + 1 \in 1..Len(s) /\ k < k + 1 /\ nx[p] = q
    <3>1. k \in 1..Len(s) /\ Len(s) \in Nat /\ k # Len(s)
      BY <1>1, <1>6
    <3>2. k + 1 \in 1..Len(s) /\ k < k + 1
      BY <3>1
    <3> QED BY <2>0, <3>2
  <2>2. q \in Nodes /\ q # NULL /\ Has(s, q)
    BY <1>1, <2>1, NullAssumption DEF Has
  <2>3. Before(s, p, q) /\ q # p
    BY <1>1, <1>2, <2>1 DEF Before, Distinct
  <2>4. ASSUME NEW x, Before(s, q, x) PROVE Before(s, p, x) /\ x # p
    <3>1. PICK i, j \in 1..Len(s) : i < j /\ s[i] = q /\ s[j] = x
      BY <1>1, <2>4 DEF Before
    <3>2. i = k + 1
      BY <2>1, <3>1 DEF Distinct
    <3>3. k < j
      BY <1>1, <3>1, <3>2
    <3> QED BY <1>1, <1>2, <3>1, <3>3 DEF Before, Distinct
  <2>5. ASSUME NEW x, Before(s, p, x), x # q PROVE Before(s, q, x)
    <3>1. PICK i, j \in 1..Len(s) : i < j /\ s[i] = p /\ s[j] = x
      BY <1>1, <2>5 DEF Before
    <3>2. i = k
      BY <1>2, <3>1 DEF Distinct
    <3>3. j # k + 1
      BY <2>5, <3>1
    <3>4. k + 1 < j
      BY <1>1, <3>1, <3>2, <3>3
    <3> QED BY <1>1, <2>1, <3>1, <3>4 DEF Before
  <2> HIDE DEF q
  <2> QED BY <1>3, <2>1, <2>2, <2>3, <2>4, <2>5 DEF AtOrAfter
<1> QED BY <1>3, <1>5, <1>6

-----------------------------------------------------------------------------
(* What each step of a pass, and each change around it, does to a frame    *)

\* The fields of a frame that no call inside the callback changes.
SamePlace(f, g) ==
    /\ g.running = f.running /\ g.curr = f.curr /\ g.storage = f.storage
    /\ g.called = f.called /\ g.began = f.began /\ g.event = f.event

\* The callback of the pending listener is called: the listener after it is
\* the next to visit, and those owed a call that came before have had it.
LEMMA InvokeOK ==
    ASSUME NEW s \in Seq(Nodes), Distinct(s), NEW nx, NextLinks(s, nx), NEW sil,
           NEW f \in Frames, PassOK(f, s, nx, sil), ~f.running, f.curr # NULL,
           NEW g, g.running = TRUE, g.called = Append(f.called, f.curr),
           g.curr = f.curr, g.storage = f.storage, g.began = f.began, g.owed = f.owed
    PROVE  PassOK(g, s, nx, sil)
<1> DEFINE p == f.curr
           q == f.storage
<1>1. /\ p # NULL /\ q = nx[p] /\ Has(s, p)
      /\ \A x \in Uncalled(f) : AtOrAfter(s, p, x)
      /\ \A x \in ToSet(f.called) : ~AtOrAfter(s, p, x)
  BY DEF PassOK, Pending
<1>2. /\ p \in Nodes
      /\ q # NULL => Has(s, q)
      /\ \A x : AtOrAfter(s, q, x) <=> AtOrAfter(s, p, x) /\ x # p
  BY <1>1, Follow
<1>3. f.called \in Seq(Nodes)
  BY DEF Frames
<1>4. /\ ToSet(g.called) = ToSet(f.called) \union {p}
      /\ \A x, y : Before(g.called, x, y) <=>
                       Before(f.called, x, y) \/ (x \in ToSet(f.called) /\ y = p)
  BY <1>2, <1>3, BeforeAppend
<1>5. Uncalled(g) = Uncalled(f) \ {p} /\ Pending(g) = q
  BY <1>4 DEF Uncalled, Pending
<1>6. \A x \in ToSet(f.called) : x # p
  BY <1>1 DEF AtOrAfter
<1>7. IsInjective(g.called)
  <2>1. /\ DOMAIN f.called = 1..Len(f.called) /\ Len(f.called) \in Nat
        /\ DOMAIN g.called = 1..(Len(f.called) + 1)
        /\ \A i \in 1..Len(f.called) : g.called[i] = f.called[i]
        /\ g.called[Len(f.called) + 1] = p
    BY <1>2, <1>3, AppendProperties, SeqDomain
  <2>2. \A i \in 1..Len(f.called) : f.called[i] # p
    BY <1>6, <2>1 DEF ToSet
  <2>3. \A i, j \in 1..Len(f.called) : f.called[i] = f.called[j] => i = j
    BY <2>1 DEF PassOK, IsInjective
  <2> QED BY <2>1, <2>2, <2>3 DEF IsInjective
<1>8. ASSUME NEW x \in g.owed, NEW y \in g.owed, Before(g.began, x, y), y \in ToSet(g.called)
      PROVE  Before(g.called, x, y)
  <2>1. CASE y \in ToSet(f.called)
    BY <1>4, <1>8, <2>1 DEF PassOK
  <2>2. CASE y \notin ToSet(f.called)
    <3>1. y = p /\ y \in Uncalled(f)
      BY <1>4, <1>8, <2>2 DEF Uncalled
    <3>2. ASSUME x \in Uncalled(f) PROVE FALSE
      <4>1. Before(s, x, p)
        BY <1>8, <3>1, <3>2 DEF PassOK
      <4>2. AtOrAfter(s, p, x)
        BY <1>1, <3>2
      <4> QED BY <4>1, <4>2, BeforeStrict DEF AtOrAfter
    <3>3. x \in ToSet(f.called)
      BY <1>8, <3>2 DEF Uncalled
    <3> QED BY <1>4, <3>1, <3>3
  <2> QED BY <2>1, <2>2
<1>9. \A x \in Uncalled(g) : AtOrAfter(s, q, x)
  BY <1>1, <1>2, <1>5
<1>10. \A x \in ToSet(g.called) : ~AtOrAfter(s, q, x)
  BY <1>1, <1>2, <1>4
<1>11. /\ Uncalled(g) \intersect sil = {}
       /\ \A x, y \in Uncalled(g) : Before(g.began, x, y) => Before(s, x, y)
  BY <1>5 DEF PassOK
<1> QED BY <1>2, <1>5, <1>7, <1>8, <1>9, <1>10, <1>11 DEF PassOK

\* The increment of the loop, after a callback or past a silent listener.
LEMMA AdvanceOK ==
    ASSUME NEW s \in Seq(Nodes), Distinct(s), NEW nx, NextLinks(s, nx),
           NEW sil \in SUBSET Nodes,
           NEW f \in Frames, PassOK(f, s, nx, sil), f.running \/ f.curr \in sil,
           NEW g, g.running = FALSE, g.called = f.called, g.curr = f.storage,
           g.storage = (IF f.storage = NULL THEN NULL ELSE nx[f.storage]),
           g.began = f.began, g.owed = f.owed
    PROVE  PassOK(g, s, nx, sil)
<1>1. Uncalled(g) = Uncalled(f) /\ Pending(g) = f.storage
  BY DEF Uncalled, Pending
<1>2. CASE f.running
  <2>1. Pending(f) = f.storage
    BY <1>2 DEF Pending
  <2> QED BY <1>1, <2>1 DEF PassOK
<1>3. CASE ~f.running /\ f.curr \in sil
  <2> DEFINE p == f.curr
             q == f.storage
  <2>1. /\ p # NULL /\ q = nx[p] /\ Has(s, p) /\ p \notin Uncalled(f) /\ Pending(f) = p
        /\ \A x \in Uncalled(f) : AtOrAfter(s, p, x)
        /\ \A x \in ToSet(f.called) : ~AtOrAfter(s, p, x)
    BY <1>3, NullAssumption DEF PassOK, Pending
  <2>2. /\ q # NULL => Has(s, q)
        /\ \A x : AtOrAfter(s, q, x) <=> AtOrAfter(s, p, x) /\ x # p
    BY <2>1, Follow
  <2>3. /\ \A x \in Uncalled(g) : AtOrAfter(s, q, x)
        /\ \A x \in ToSet(g.called) : ~AtOrAfter(s, q, x)
    BY <1>1, <2>1, <2>2
  <2> QED BY <1>1, <2>2, <2>3 DEF PassOK
<1> QED BY <1>2, <1>3

\* mc_event_trigger begins at the head of its listeners.
LEMMA EnterOK ==
    ASSUME NEW s \in Seq(Nodes), Distinct(s), NEW nx, NextLinks(s, nx), NEW sil,
           NEW g, g.running = FALSE, g.called = <<>>,
           g.curr = (IF Len(s) = 0 THEN NULL ELSE s[1]),
           g.storage = (IF g.curr = NULL THEN NULL ELSE nx[g.curr]),
           g.began = s, g.owed = ToSet(s) \ sil
    PROVE  PassOK(g, s, nx, sil)
<1>1. DOMAIN s = 1..Len(s) /\ Len(s) \in Nat /\ \A i \in 1..Len(s) : s[i] \in Nodes
  BY SeqDomain
<1>2. ToSet(g.called) = {}
  BY DEF ToSet
<1>3. Uncalled(g) = ToSet(s) \ sil /\ Pending(g) = g.curr
  BY <1>2 DEF Uncalled, Pending
<1>4. IsInjective(g.called)
  BY DEF IsInjective
<1>5. g.curr # NULL => Has(s, g.curr)
  BY <1>1 DEF Has
<1>6. ASSUME NEW x \in ToSet(s) PROVE AtOrAfter(s, g.curr, x)
  <2>1. PICK i \in 1..Len(s) : s[i] = x
    BY <1>1 DEF ToSet
  <2>2. 1 \in 1..Len(s) /\ g.curr = s[1] /\ g.curr # NULL
    BY <1>1, <2>1, NullAssumption
  <2>3. CASE i = 1
    BY <2>1, <2>2, <2>3 DEF AtOrAfter
  <2>4. CASE i # 1
    <3>1. 1 < i
      BY <1>1, <2>1, <2>4
    <3> QED BY <1>1, <2>1, <2>2, <3>1 DEF AtOrAfter, Before
  <2> QED BY <2>3, <2>4
<1> QED BY <1>2, <1>3, <1>4, <1>5, <1>6 DEF PassOK

\* A registration, of a callback that the pass has not called.
LEMMA RegisterOK ==
    ASSUME NEW s \in Seq(Nodes), NEW n \in Nodes, n \notin ToSet(s),
           NEW nx, NEW nx2, NEW sil, NEW f \in Frames,
           PassOK(f, s, nx, sil), f.running, n \notin ToSet(f.called)
    PROVE  PassOK(f, Append(s, n), nx2, sil)
<1> DEFINE r == Append(s, n)
<1>1. /\ \A x : Has(s, x) => Has(r, x)
      /\ \A x, y : Before(r, x, y) <=> Before(s, x, y) \/ (x \in ToSet(s) /\ y = n)
  BY BeforeAppend
<1> HIDE DEF r
<1>2. \A x, y : AtOrAfter(s, x, y) => AtOrAfter(r, x, y)
  BY <1>1 DEF AtOrAfter
<1>3. \A x \in ToSet(f.called) : ~AtOrAfter(s, Pending(f), x) => ~AtOrAfter(r, Pending(f), x)
  BY <1>1 DEF AtOrAfter
<1> QED BY <1>1, <1>2, <1>3 DEF PassOK, r

\* The member at position i is unregistered, and the pass owes it nothing more.
LEMMA UnregisterOK ==
    ASSUME NEW s \in Seq(Nodes), Distinct(s), NEW i \in 1..Len(s),
           NEW nx, NEW nx2, NEW sil, NEW f \in Frames,
           PassOK(f, s, nx, sil), f.running, f.storage # s[i],
           NEW g, SamePlace(f, g),
           g.owed = (IF s[i] \in ToSet(f.called) THEN f.owed ELSE f.owed \ {s[i]})
    PROVE  PassOK(g, RemoveAt(s, i), nx2, sil)
<1> DEFINE r == RemoveAt(s, i)
           n == s[i]
<1>1. /\ \A x : Has(s, x) /\ x # n => Has(r, x)
      /\ \A x, y : Before(r, x, y) <=> Before(s, x, y) /\ x # n /\ y # n
  BY BeforeRemove
<1> HIDE DEF r, n
<1>2. Uncalled(g) = Uncalled(f) \ {n} /\ Pending(g) = f.storage /\ Pending(f) = f.storage
  BY DEF Uncalled, Pending, SamePlace, n
<1>3. f.storage # n
  BY DEF n
<1>4. \A x : x # n => (AtOrAfter(r, f.storage, x) <=> AtOrAfter(s, f.storage, x))
  BY <1>1, <1>3 DEF AtOrAfter
<1>5. ~AtOrAfter(r, f.storage, n)
  BY <1>1, <1>3 DEF AtOrAfter
<1>6. g.owed \subseteq f.owed
  OBVIOUS
<1> QED BY <1>1, <1>2, <1>3, <1>4, <1>5, <1>6 DEF PassOK, SamePlace, r

\* A callback loses its function, and the pass owes it nothing more.
LEMMA SilenceOK ==
    ASSUME NEW s, NEW nx, NEW sil, NEW n, NEW f \in Frames, PassOK(f, s, nx, sil),
           NEW g, SamePlace(f, g),
           g.owed = (IF n \in ToSet(f.called) THEN f.owed ELSE f.owed \ {n})
    PROVE  PassOK(g, s, nx, sil \union {n})
<1>1. Uncalled(g) = Uncalled(f) \ {n} /\ Pending(g) = Pending(f)
  BY DEF Uncalled, Pending, SamePlace
<1>2. g.owed \subseteq f.owed
  OBVIOUS
<1> QED BY <1>1, <1>2 DEF PassOK, SamePlace

\* Everything else a callback does leaves the pass alone.
LEMMA OtherOK ==
    ASSUME NEW s, NEW nx, NEW nx2, NEW sil, NEW sil2, NEW f \in Frames,
           PassOK(f, s, nx, sil), f.running \/ nx2 = nx, sil2 \subseteq sil,
           NEW g, SamePlace(f, g), g.owed = f.owed
    PROVE  PassOK(g, s, nx2, sil2)
BY DEF PassOK, SamePlace, Pending, Uncalled

-----------------------------------------------------------------------------
(* The stack of passes                                                     *)

LEMMA FrameTypes ==
    ASSUME NEW f \in Frames
    PROVE  /\ f.event \in Lists /\ f.curr \in Nodes \union {NULL}
           /\ f.storage \in Nodes \union {NULL} /\ f.running \in BOOLEAN
           /\ f.called \in Seq(Nodes) /\ f.began \in Seq(Nodes)
           /\ f.owed \in SUBSET Nodes /\ f.acts \in 0..MaxActs
BY DEF Frames

\* A callback in control has every pass suspended in a callback of its own.
LEMMA AllRunning ==
    ASSUME TypeOK, Passes, InControl
    PROVE  \A i \in 1..Len(stack) : stack[i] \in Frames /\ stack[i].running
<1>1. stack \in Seq(Frames) /\ Len(stack) \in Nat
  BY LenProperties DEF TypeOK
<1>2. stack # <<>> => stack[1].running
  BY DEF InControl, Top
<1> QED BY <1>1, <1>2 DEF Passes

LEMMA WithTopFacts ==
    ASSUME TypeOK, stack # <<>>, NEW f \in Frames
    PROVE  /\ WithTop(f) \in Seq(Frames) /\ Len(WithTop(f)) = Len(stack)
           /\ WithTop(f)[1] = f
           /\ \A i \in 2..Len(stack) : WithTop(f)[i] = stack[i]
BY DEF TypeOK, WithTop

\* A call counts against the callback that makes it, and disturbs no pass.
LEMMA CountedFacts ==
    ASSUME EventAssumption, NEW s \in Seq(Frames), s # <<>> => s[1].acts < MaxActs
    PROVE  /\ Counted(s) \in Seq(Frames) /\ Len(Counted(s)) = Len(s)
           /\ \A i \in 1..Len(s) :
                SamePlace(s[i], Counted(s)[i]) /\ Counted(s)[i].owed = s[i].owed
<1>1. CASE s = <<>>
  BY <1>1 DEF Counted
<1>2. CASE s # <<>>
  <2> DEFINE g == [s[1] EXCEPT !.acts = @ + 1]
  <2>1. Len(s) \in Nat /\ 1 \in 1..Len(s) /\ DOMAIN s = 1..Len(s) /\ s[1] \in Frames
    BY <1>2, SeqDomain, EmptySeq
  <2>2. s[1].acts + 1 \in 0..MaxActs
    BY <1>2, <2>1, FrameTypes DEF EventAssumption
  <2>3. g \in Frames
    BY <2>1, <2>2 DEF Frames
  <2>4. SamePlace(s[1], g) /\ g.owed = s[1].owed
    BY <2>1 DEF SamePlace, Frames
  <2>5. Counted(s) = [s EXCEPT ![1] = g]
    BY <1>2 DEF Counted
  <2> HIDE DEF g
  <2>6. /\ Counted(s) \in Seq(Frames) /\ Len(Counted(s)) = Len(s)
        /\ Counted(s)[1] = g
        /\ \A i \in 2..Len(s) : Counted(s)[i] = s[i]
    BY <2>1, <2>3, <2>5
  <2>7. ASSUME NEW i \in 1..Len(s)
        PROVE  SamePlace(s[i], Counted(s)[i]) /\ Counted(s)[i].owed = s[i].owed
    <3>1. CASE i = 1
      BY <2>4, <2>6, <3>1
    <3>2. CASE i # 1
      <4>1. i \in 2..Len(s)
        BY <2>1, <3>2
      <4> QED BY <2>6, <4>1 DEF SamePlace
    <3> QED BY <3>1, <3>2
  <2> QED BY <2>6, <2>7
<1> QED BY <1>1, <1>2

LEMMA ReleasedFacts ==
    ASSUME TypeOK, NEW E, NEW cb \in Nodes
    PROVE  /\ Released(E, cb) \in Seq(Frames) /\ Len(Released(E, cb)) = Len(stack)
           /\ \A i \in 1..Len(stack) :
                /\ SamePlace(stack[i], Released(E, cb)[i])
                /\ Released(E, cb)[i].acts = stack[i].acts
                /\ Released(E, cb)[i].owed =
                     IF stack[i].event \in E /\ cb \notin ToSet(stack[i].called)
                     THEN stack[i].owed \ {cb} ELSE stack[i].owed
<1> DEFINE r == Released(E, cb)
<1>1. stack \in Seq(Frames) /\ DOMAIN stack = 1..Len(stack) /\ Len(stack) \in Nat
  BY SeqDomain DEF TypeOK
<1>2. ASSUME NEW i \in 1..Len(stack)
      PROVE  /\ r[i] \in Frames
             /\ SamePlace(stack[i], r[i])
             /\ r[i].acts = stack[i].acts
             /\ r[i].owed = IF stack[i].event \in E /\ cb \notin ToSet(stack[i].called)
                            THEN stack[i].owed \ {cb} ELSE stack[i].owed
  <2>1. stack[i] \in Frames
    BY <1>1
  <2>2. r[i] = IF stack[i].event \in E /\ cb \notin ToSet(stack[i].called)
               THEN [stack[i] EXCEPT !.owed = @ \ {cb}] ELSE stack[i]
    BY <1>1 DEF Released
  <2> HIDE DEF r
  <2>3. CASE stack[i].event \in E /\ cb \notin ToSet(stack[i].called)
    <3>1. r[i] = [stack[i] EXCEPT !.owed = @ \ {cb}]
      BY <2>2, <2>3
    <3> QED BY <2>1, <2>3, <3>1 DEF Frames, SamePlace
  <2>4. CASE ~(stack[i].event \in E /\ cb \notin ToSet(stack[i].called))
    <3>1. r[i] = stack[i]
      BY <2>2, <2>4
    <3> QED BY <2>1, <2>4, <3>1 DEF SamePlace
  <2> QED BY <2>3, <2>4
<1>3. r \in [1..Len(stack) -> Frames]
  <2>1. r = [i \in 1..Len(stack) |-> r[i]]
    BY <1>1 DEF Released
  <2> HIDE DEF r
  <2> QED BY <1>2, <2>1
<1> HIDE DEF r
<1>4. r \in Seq(Frames) /\ Len(r) = Len(stack)
  BY <1>1, <1>3
<1> QED BY <1>2, <1>4 DEF r

\* The listeners of an event, from the soundness of the lists.
LEMMA Listening ==
    ASSUME Sound, NEW l \in Lists
    PROVE  /\ order[l] \in Seq(Nodes) /\ Distinct(order[l]) /\ NextLinks(order[l], next)
           /\ head[l] = IF Len(order[l]) = 0 THEN NULL ELSE order[l][1]
           /\ \A n : In(l, n) <=> n \in ToSet(order[l])
<1>1. Chain(order[l], head[l], tail[l], count[l], next, prev)
  BY SoundFacts
<1> QED BY <1>1, SoundFacts DEF Chain, NextLinks, In, ToSet

\* Soundness with the stack is what is kept.
LEMMA Assemble ==
    ASSUME Sound', stack' \in Seq(Frames), Len(stack') <= MaxDepth,
           silent' \in SUBSET Nodes, Passes'
    PROVE  IInv'
BY DEF Sound, TypeOK, IInv

\* A call that disturbs no pass but by releasing some of what it owes.
LEMMA CallKeeps ==
    ASSUME EventAssumption, IInv, InControl, Sound', silent' \in SUBSET Nodes,
           NEW s \in Seq(Frames), stack' = Counted(s), Len(s) = Len(stack),
           \A i \in 1..Len(s) :
              /\ SamePlace(stack[i], s[i]) /\ s[i].acts = stack[i].acts
              /\ \A g : SamePlace(stack[i], g) /\ g.owed = s[i].owed =>
                    PassOK(g, order'[stack[i].event], next', silent')
    PROVE  IInv'
<1>1. TypeOK /\ Passes
  BY DEF IInv
<1>2. \A i \in 1..Len(stack) : stack[i] \in Frames /\ stack[i].running
  BY <1>1, AllRunning
<1>3. Len(stack) \in Nat /\ Len(stack) <= MaxDepth /\ stack \in Seq(Frames)
  BY <1>1, LenProperties DEF TypeOK
<1>4. s # <<>> => s[1].acts < MaxActs
  <2> SUFFICES ASSUME s # <<>> PROVE s[1].acts < MaxActs
    OBVIOUS
  <2>1. 1 \in 1..Len(s) /\ stack # <<>>
    BY EmptySeq, LenProperties
  <2>2. Top.acts < MaxActs /\ Top = stack[1]
    BY <1>3, <2>1 DEF InControl, Top
  <2> QED BY <2>1, <2>2
<1>5. /\ stack' \in Seq(Frames) /\ Len(stack') = Len(stack)
      /\ \A i \in 1..Len(stack) :
            SamePlace(s[i], stack'[i]) /\ stack'[i].owed = s[i].owed
  BY <1>4, CountedFacts
<1>6. \A i \in 1..Len(stack) : SamePlace(stack[i], stack'[i]) /\ stack'[i].owed = s[i].owed
  BY <1>5 DEF SamePlace
<1>7. Passes'
  <2>1. ASSUME NEW i \in 1..Len(stack')
        PROVE  PassOK(stack'[i], order'[stack'[i].event], next', silent')
    BY <1>5, <1>6, <2>1 DEF SamePlace
  <2>2. \A i \in 2..Len(stack') : stack'[i].running
    BY <1>2, <1>3, <1>5, <1>6 DEF SamePlace
  <2> QED BY <2>1, <2>2 DEF Passes
<1> QED BY <1>3, <1>5, <1>7, Assemble

-----------------------------------------------------------------------------
(* The code of mc_event_trigger                                            *)

\* A step of the innermost pass, that changes its frame alone.
LEMMA TopKeeps ==
    ASSUME IInv, stack # <<>>, NEW f \in Frames, stack' = WithTop(f),
           UNCHANGED <<heap, order, silent>>,
           PassOK(f, order[f.event], next, silent)
    PROVE  IInv'
<1>1. TypeOK /\ Passes /\ Sound
  BY DEF IInv, TypeOK, Sound
<1>2. Sound' /\ order' = order /\ next' = next /\ silent' = silent
  BY <1>1, IdleSound DEF heap
<1>3. stack \in Seq(Frames) /\ Len(stack) \in Nat /\ Len(stack) <= MaxDepth
  BY <1>1, LenProperties DEF TypeOK
<1>4. /\ stack' \in Seq(Frames) /\ Len(stack') = Len(stack)
      /\ stack'[1] = f
      /\ \A i \in 2..Len(stack) : stack'[i] = stack[i]
  BY <1>1, WithTopFacts
<1>5. ASSUME NEW i \in 1..Len(stack')
      PROVE  PassOK(stack'[i], order'[stack'[i].event], next', silent')
  <2>1. CASE i = 1
    BY <1>2, <1>4, <2>1
  <2>2. CASE i # 1
    <3>1. i \in 2..Len(stack) /\ i \in 1..Len(stack)
      BY <1>3, <1>4, <2>2
    <3> QED BY <1>1, <1>2, <1>4, <3>1 DEF Passes
  <2> QED BY <2>1, <2>2
<1>6. \A i \in 2..Len(stack') : stack'[i].running
  BY <1>1, <1>4 DEF Passes
<1>7. silent' \in SUBSET Nodes
  BY <1>1, <1>2 DEF TypeOK
<1> QED BY <1>2, <1>3, <1>4, <1>5, <1>6, <1>7, Assemble DEF Passes

\* The innermost pass, as every step of it finds it.
LEMMA TopFacts ==
    ASSUME IInv, stack # <<>>
    PROVE  /\ Top \in Frames /\ Sound /\ silent \in SUBSET Nodes
           /\ PassOK(Top, order[Top.event], next, silent)
<1>1. TypeOK /\ Passes /\ Sound
  BY DEF IInv, TypeOK, Sound
<1>2. 1 \in 1..Len(stack) /\ Top = stack[1] /\ stack[1] \in Frames
  BY <1>1, SeqDomain, EmptySeq DEF TypeOK, Top
<1> QED BY <1>1, <1>2 DEF Passes, TypeOK

LEMMA InvokeSafe ==
    ASSUME EventAssumption, IInv, Invoke
    PROVE  IInv'
<1> DEFINE f == Top
           g == [f EXCEPT !.running = TRUE, !.acts = 0, !.called = Append(@, f.curr)]
<1>1. /\ stack # <<>> /\ ~f.running /\ f.curr # NULL
      /\ stack' = WithTop(g) /\ UNCHANGED <<heap, order, silent>>
  BY DEF Invoke, InLoop
<1>2. /\ f \in Frames /\ Sound
      /\ PassOK(f, order[f.event], next, silent)
  BY <1>1, TopFacts
<1> HIDE DEF f
<1>3. Append(f.called, f.curr) \in Seq(Nodes)
  <2>1. f.called \in Seq(Nodes) /\ f.curr \in Nodes
    BY <1>1, <1>2, FrameTypes
  <2> QED BY <2>1, AppendProperties
<1>4. g \in Frames
  <2> DEFINE c == Append(f.called, f.curr)
  <2>1. c \in Seq(Nodes) /\ 0 \in 0..MaxActs
    BY <1>3 DEF EventAssumption
  <2>2. g = [f EXCEPT !.running = TRUE, !.acts = 0, !.called = c]
    OBVIOUS
  <2> HIDE DEF c, g
  <2> QED BY <1>2, <2>1, <2>2 DEF Frames
<1>5. /\ g.running = TRUE /\ g.called = Append(f.called, f.curr) /\ g.curr = f.curr
      /\ g.storage = f.storage /\ g.began = f.began /\ g.owed = f.owed /\ g.event = f.event
  BY <1>2 DEF Frames
<1> HIDE DEF g
<1>6. PassOK(g, order[g.event], next, silent)
  <2>1. f.event \in Lists
    BY <1>2, FrameTypes
  <2>2. /\ order[f.event] \in Seq(Nodes) /\ Distinct(order[f.event])
        /\ NextLinks(order[f.event], next)
    BY <1>2, <2>1, Listening
  <2> QED BY <1>1, <1>2, <1>5, <2>2, InvokeOK
<1> QED BY <1>1, <1>4, <1>6, TopKeeps

\* The increment of the loop keeps the type of a frame.
LEMMA AdvancedFacts ==
    ASSUME Sound, NEW f \in Frames
    PROVE  /\ Advanced(f) \in Frames
           /\ Advanced(f).running = FALSE /\ Advanced(f).curr = f.storage
           /\ Advanced(f).storage = IF f.storage = NULL THEN NULL ELSE next[f.storage]
           /\ Advanced(f).called = f.called /\ Advanced(f).began = f.began
           /\ Advanced(f).owed = f.owed /\ Advanced(f).event = f.event
<1>1. mc_list_next(f.storage) \in Nodes \union {NULL}
  BY FrameTypes DEF mc_list_next, Sound
<1> DEFINE q == mc_list_next(f.storage)
<1>2. q = IF f.storage = NULL THEN NULL ELSE next[f.storage]
  BY DEF mc_list_next
<1>3. Advanced(f) = [f EXCEPT !.curr = f.storage, !.storage = q, !.running = FALSE]
  BY DEF Advanced
<1> HIDE DEF q
<1> QED BY <1>1, <1>2, <1>3 DEF Frames, q

LEMMA AdvanceSafe ==
    ASSUME EventAssumption, IInv, SkipSilent \/ Return
    PROVE  IInv'
<1> DEFINE f == Top
           g == Advanced(f)
<1>1. /\ stack # <<>> /\ (f.running \/ f.curr \in silent)
      /\ stack' = WithTop(g) /\ UNCHANGED <<heap, order, silent>>
  BY DEF SkipSilent, Return, InLoop
<1>2. /\ f \in Frames /\ Sound /\ silent \in SUBSET Nodes
      /\ PassOK(f, order[f.event], next, silent)
  BY <1>1, TopFacts
<1> HIDE DEF f
<1>3. /\ g \in Frames
      /\ g.running = FALSE /\ g.curr = f.storage
      /\ g.storage = IF f.storage = NULL THEN NULL ELSE next[f.storage]
      /\ g.called = f.called /\ g.began = f.began /\ g.owed = f.owed /\ g.event = f.event
  BY <1>2, AdvancedFacts
<1> HIDE DEF g
<1>4. PassOK(g, order[g.event], next, silent)
  <2>1. f.event \in Lists
    BY <1>2, FrameTypes
  <2>2. /\ order[f.event] \in Seq(Nodes) /\ Distinct(order[f.event])
        /\ NextLinks(order[f.event], next)
    BY <1>2, <2>1, Listening
  <2> QED BY <1>1, <1>2, <1>3, <2>2, AdvanceOK
<1> QED BY <1>1, <1>3, <1>4, TopKeeps

LEMMA FinishSafe ==
    ASSUME EventAssumption, IInv, Finish
    PROVE  IInv'
<1>1. /\ stack # <<>> /\ stack' = Tail(stack) /\ UNCHANGED <<heap, order, silent>>
      /\ TypeOK /\ Passes /\ Sound
  BY DEF Finish, InLoop, IInv, TypeOK, Sound
<1>2. Sound' /\ order' = order /\ next' = next /\ silent' = silent
  BY <1>1, IdleSound DEF heap
<1>3. stack \in Seq(Frames) /\ Len(stack) \in Nat /\ Len(stack) <= MaxDepth
  BY <1>1, LenProperties DEF TypeOK
<1>4. /\ stack' \in Seq(Frames) /\ Len(stack') = Len(stack) - 1
      /\ \A i \in 1..Len(stack') : stack'[i] = stack[i + 1]
  BY <1>1, <1>3, HeadTailProperties
<1>5. \A i \in 1..Len(stack') : i + 1 \in 1..Len(stack) /\ i + 1 \in 2..Len(stack)
  BY <1>3, <1>4
<1>6. \A i \in 1..Len(stack') : PassOK(stack'[i], order'[stack'[i].event], next', silent')
  BY <1>1, <1>2, <1>4, <1>5 DEF Passes
<1>7. \A i \in 2..Len(stack') : stack'[i].running
  BY <1>1, <1>3, <1>4, <1>5 DEF Passes
<1>8. silent' \in SUBSET Nodes /\ Len(stack') <= MaxDepth
  BY <1>1, <1>2, <1>3, <1>4, EventAssumption DEF TypeOK, EventAssumption
<1> QED BY <1>2, <1>4, <1>6, <1>7, <1>8, Assemble DEF Passes

-----------------------------------------------------------------------------
(* The calls of the program, from its main loop or from a callback         *)

\* The passes as a callback in control finds them.
LEMMA CallFacts ==
    ASSUME IInv, InControl
    PROVE  /\ TypeOK /\ Sound /\ stack \in Seq(Frames) /\ silent \in SUBSET Nodes
           /\ \A i \in 1..Len(stack) :
                /\ stack[i] \in Frames /\ stack[i].running /\ stack[i].event \in Lists
                /\ PassOK(stack[i], order[stack[i].event], next, silent)
                /\ SamePlace(stack[i], stack[i])
<1>1. TypeOK /\ Passes /\ Sound
  BY DEF IInv, TypeOK, Sound
<1>2. \A i \in 1..Len(stack) : stack[i] \in Frames /\ stack[i].running
  BY <1>1, AllRunning
<1>3. \A i \in 1..Len(stack) : stack[i].event \in Lists
  BY <1>2, FrameTypes
<1> QED BY <1>1, <1>2, <1>3 DEF TypeOK, Passes, SamePlace

LEMMA CallbackInitSafe ==
    ASSUME EventAssumption, IInv, NEW cb \in Late, NEW func \in BOOLEAN,
           CallbackInit(cb, func)
    PROVE  IInv'
<1>1. /\ InControl /\ UNCHANGED <<heap, order>> /\ cb \in Nodes
      /\ silent' = IF func THEN silent \ {cb} ELSE silent \union {cb}
      /\ stack' = Counted(IF func THEN stack ELSE Released(Lists, cb))
  BY DEF CallbackInit, EventAssumption
<1>2. /\ TypeOK /\ Sound /\ stack \in Seq(Frames) /\ silent \in SUBSET Nodes
      /\ \A i \in 1..Len(stack) :
           /\ stack[i] \in Frames /\ stack[i].running /\ stack[i].event \in Lists
           /\ PassOK(stack[i], order[stack[i].event], next, silent)
           /\ SamePlace(stack[i], stack[i])
  BY <1>1, CallFacts
<1>3. Sound' /\ order' = order /\ next' = next /\ silent' \in SUBSET Nodes
  BY <1>1, <1>2, IdleSound DEF heap
<1>4. CASE func
  <2>1. stack' = Counted(stack) /\ silent' \subseteq silent
    BY <1>1, <1>4
  <2>2. ASSUME NEW i \in 1..Len(stack), NEW g,
               SamePlace(stack[i], g), g.owed = stack[i].owed
        PROVE  PassOK(g, order'[stack[i].event], next', silent')
    BY <1>2, <1>3, <2>1, <2>2, OtherOK
  <2> QED BY <1>1, <1>2, <1>3, <2>1, <2>2, CallKeeps
<1>5. CASE ~func
  <2> DEFINE r == Released(Lists, cb)
  <2>1. stack' = Counted(r) /\ silent' = silent \union {cb}
    BY <1>1, <1>5
  <2>2. /\ r \in Seq(Frames) /\ Len(r) = Len(stack)
        /\ \A i \in 1..Len(stack) :
             /\ SamePlace(stack[i], r[i]) /\ r[i].acts = stack[i].acts
             /\ r[i].owed = IF cb \notin ToSet(stack[i].called)
                            THEN stack[i].owed \ {cb} ELSE stack[i].owed
    BY <1>1, <1>2, ReleasedFacts
  <2> HIDE DEF r
  <2>3. ASSUME NEW i \in 1..Len(stack), NEW g,
               SamePlace(stack[i], g), g.owed = r[i].owed
        PROVE  PassOK(g, order'[stack[i].event], next', silent')
    BY <1>2, <1>3, <2>1, <2>2, <2>3, SilenceOK
  <2> QED BY <1>1, <1>2, <1>3, <2>1, <2>2, <2>3, CallKeeps
<1> QED BY <1>4, <1>5

LEMMA RegisterSafe ==
    ASSUME EventAssumption, IInv, NEW e \in Lists, NEW cb \in Nodes,
           ~CalledInPass(cb), Register(e, cb)
    PROVE  IInv'
<1>1. /\ InControl /\ Loose(cb) /\ mc_list_append(e, cb)
      /\ order' = [order EXCEPT ![e] = Append(@, cb)]
      /\ stack' = Counted(stack) /\ silent' = silent
  BY DEF Register, mc_event_register
<1>2. /\ TypeOK /\ Sound /\ stack \in Seq(Frames) /\ silent \in SUBSET Nodes
      /\ \A i \in 1..Len(stack) :
           /\ stack[i] \in Frames /\ stack[i].running /\ stack[i].event \in Lists
           /\ PassOK(stack[i], order[stack[i].event], next, silent)
           /\ SamePlace(stack[i], stack[i])
  BY <1>1, CallFacts
<1>3. Sound'
  BY <1>1, <1>2, AppendSound
<1>4. \A i \in 1..Len(stack) : cb \notin ToSet(stack[i].called)
  BY <1>2, SeqDomain DEF CalledInPass
<1>5. ASSUME NEW i \in 1..Len(stack), NEW g,
             SamePlace(stack[i], g), g.owed = stack[i].owed
      PROVE  PassOK(g, order'[stack[i].event], next', silent')
  <2> DEFINE l == stack[i].event
  <2>1. l \in Lists /\ order[l] \in Seq(Nodes) /\ cb \notin ToSet(order[l])
    BY <1>1, <1>2, Listening DEF Loose
  <2>2. PassOK(stack[i], order'[l], next', silent)
    <3>1. CASE l = e
      <4>1. order'[l] = Append(order[l], cb)
        BY <1>1, <2>1, <3>1, <1>2 DEF TypeOK
      <4> QED BY <1>2, <1>4, <2>1, <4>1, RegisterOK
    <3>2. CASE l # e
      <4>1. order'[l] = order[l]
        BY <1>1, <2>1, <3>2, <1>2 DEF TypeOK
      <4> QED BY <1>2, <4>1, OtherOK
    <3> QED BY <3>1, <3>2
  <2> QED BY <1>1, <1>2, <1>5, <2>2, OtherOK
<1> QED BY <1>1, <1>2, <1>3, <1>5, CallKeeps

LEMMA UnregisterSafe ==
    ASSUME EventAssumption, IInv, NEW e \in Lists, NEW cb \in Nodes,
           ~SavedAsNext(cb), Unregister(e, cb)
    PROVE  IInv'
<1> DEFINE k == Pos(e, cb)
           r == Released({e}, cb)
<1>1. /\ InControl /\ In(e, cb) /\ mc_list_remove(e, cb)
      /\ order' = [order EXCEPT ![e] = RemoveAt(@, k)]
      /\ stack' = Counted(r) /\ silent' = silent
  BY DEF Unregister, mc_event_unregister
<1>2. /\ TypeOK /\ Sound /\ stack \in Seq(Frames) /\ silent \in SUBSET Nodes
      /\ \A i \in 1..Len(stack) :
           /\ stack[i] \in Frames /\ stack[i].running /\ stack[i].event \in Lists
           /\ PassOK(stack[i], order[stack[i].event], next, silent)
           /\ SamePlace(stack[i], stack[i])
  BY <1>1, CallFacts
<1>3. k \in 1..Len(order[e]) /\ cb = order[e][k]
  BY <1>1, <1>2, PosFacts
<1>4. Sound'
  BY <1>1, <1>2, <1>3, RemoveSound
<1>5. \A i \in 1..Len(stack) : stack[i].storage # cb
  BY <1>2, SeqDomain DEF SavedAsNext
<1>6. /\ r \in Seq(Frames) /\ Len(r) = Len(stack)
      /\ \A i \in 1..Len(stack) :
           /\ SamePlace(stack[i], r[i]) /\ r[i].acts = stack[i].acts
           /\ r[i].owed = IF stack[i].event \in {e} /\ cb \notin ToSet(stack[i].called)
                          THEN stack[i].owed \ {cb} ELSE stack[i].owed
  <2> DEFINE E == {e}
  <2>1. r = Released(E, cb)
    OBVIOUS
  <2> HIDE DEF r, E
  <2>2. /\ r \in Seq(Frames) /\ Len(r) = Len(stack)
        /\ \A i \in 1..Len(stack) :
             /\ SamePlace(stack[i], r[i]) /\ r[i].acts = stack[i].acts
             /\ r[i].owed = IF stack[i].event \in E /\ cb \notin ToSet(stack[i].called)
                            THEN stack[i].owed \ {cb} ELSE stack[i].owed
    BY <1>2, <2>1, ReleasedFacts
  <2> QED BY <2>2 DEF E
<1> HIDE DEF r, k
<1>7. ASSUME NEW i \in 1..Len(stack), NEW g,
             SamePlace(stack[i], g), g.owed = r[i].owed
      PROVE  PassOK(g, order'[stack[i].event], next', silent')
  <2> DEFINE l == stack[i].event
  <2>1. l \in Lists /\ order[l] \in Seq(Nodes) /\ Distinct(order[l])
    BY <1>2, Listening
  <2>2. CASE l = e
    <3>1. order'[l] = RemoveAt(order[l], k)
      BY <1>1, <2>1, <2>2, <1>2 DEF TypeOK
    <3>2. g.owed = IF cb \in ToSet(stack[i].called) THEN stack[i].owed
                   ELSE stack[i].owed \ {cb}
      BY <1>6, <1>7, <2>2
    <3> HIDE DEF l
    <3>3. PassOK(g, RemoveAt(order[l], k), next', silent)
      BY <1>2, <1>3, <1>5, <1>7, <2>1, <2>2, <3>2, UnregisterOK DEF l
    <3> QED BY <1>1, <3>1, <3>3 DEF l
  <2>3. CASE l # e
    <3>1. order'[l] = order[l] /\ g.owed = stack[i].owed
      BY <1>1, <1>6, <1>7, <2>1, <2>3, <1>2 DEF TypeOK
    <3> QED BY <1>1, <1>2, <1>7, <3>1, OtherOK
  <2> QED BY <2>2, <2>3
<1> QED BY <1>1, <1>2, <1>4, <1>6, <1>7, CallKeeps

LEMMA StrangerSafe ==
    ASSUME EventAssumption, IInv, NEW e \in Lists, NEW cb \in Nodes,
           UnregisterStranger(e, cb)
    PROVE  IInv'
<1>1. /\ InControl /\ ~In(e, cb) /\ (order[e] = <<>> \/ prev[cb] = NULL)
      /\ mc_list_remove(e, cb) /\ order' = order
      /\ stack' = Counted(stack) /\ silent' = silent
  BY DEF UnregisterStranger, mc_event_unregister
<1>2. /\ TypeOK /\ Sound /\ stack \in Seq(Frames) /\ silent \in SUBSET Nodes
      /\ \A i \in 1..Len(stack) :
           /\ stack[i] \in Frames /\ stack[i].running /\ stack[i].event \in Lists
           /\ PassOK(stack[i], order[stack[i].event], next, silent)
           /\ SamePlace(stack[i], stack[i])
  BY <1>1, CallFacts
<1>3. Sound'
  BY <1>1, <1>2, StrangerIgnored, IdleSound
<1>4. ASSUME NEW i \in 1..Len(stack), NEW g,
             SamePlace(stack[i], g), g.owed = stack[i].owed
      PROVE  PassOK(g, order'[stack[i].event], next', silent')
  BY <1>1, <1>2, <1>4, OtherOK
<1> QED BY <1>1, <1>2, <1>3, <1>4, CallKeeps

LEMMA TriggerSafe ==
    ASSUME EventAssumption, IInv, NEW e \in Lists, Trigger(e)
    PROVE  IInv'
<1> DEFINE c == Counted(stack)
           g == Entered(e)
<1>1. /\ InControl /\ Len(stack) < MaxDepth /\ UNCHANGED <<heap, order, silent>>
      /\ stack' = <<g>> \o c
  BY DEF Trigger
<1>2. /\ TypeOK /\ Sound /\ stack \in Seq(Frames) /\ silent \in SUBSET Nodes
      /\ \A i \in 1..Len(stack) :
           /\ stack[i] \in Frames /\ stack[i].running /\ stack[i].event \in Lists
           /\ PassOK(stack[i], order[stack[i].event], next, silent)
           /\ SamePlace(stack[i], stack[i])
  BY <1>1, CallFacts
<1>3. Sound' /\ order' = order /\ next' = next /\ silent' = silent
  BY <1>1, <1>2, IdleSound DEF heap
<1>4. stack # <<>> => stack[1].acts < MaxActs
  BY <1>1, <1>2 DEF InControl, Top
<1>5. /\ c \in Seq(Frames) /\ Len(c) = Len(stack)
      /\ \A i \in 1..Len(stack) : SamePlace(stack[i], c[i]) /\ c[i].owed = stack[i].owed
  BY <1>2, <1>4, CountedFacts
<1>6. /\ order[e] \in Seq(Nodes) /\ Distinct(order[e]) /\ NextLinks(order[e], next)
      /\ head[e] = IF Len(order[e]) = 0 THEN NULL ELSE order[e][1]
      /\ ToSet(order[e]) \in SUBSET Nodes
  BY <1>2, Listening, SoundFacts DEF ToSet
<1>7. /\ g.running = FALSE /\ g.called = <<>> /\ g.curr = head[e]
      /\ g.storage = (IF g.curr = NULL THEN NULL ELSE next[g.curr])
      /\ g.began = order[e] /\ g.owed = ToSet(order[e]) \ silent /\ g.event = e
  BY DEF Entered, mc_list_next
<1>8. g \in Frames
  <2>1. head[e] \in Nodes \union {NULL} /\ mc_list_next(head[e]) \in Nodes \union {NULL}
    BY <1>2 DEF Sound, mc_list_next
  <2>2. <<>> \in Seq(Nodes) /\ 0 \in 0..MaxActs
    BY EmptySeq DEF EventAssumption
  <2> QED BY <1>6, <2>1, <2>2 DEF Entered, Frames
<1> HIDE DEF g, c
<1>9. PassOK(g, order[e], next, silent)
  BY <1>6, <1>7, EnterOK
<1>10. /\ stack' \in Seq(Frames) /\ Len(stack') = Len(stack) + 1
       /\ stack'[1] = g
       /\ \A i \in 2..(Len(stack) + 1) : stack'[i] = c[i - 1]
  BY <1>1, <1>5, <1>8, PrependFacts
<1>11. Len(stack) \in Nat
  BY <1>2, LenProperties
<1>12. ASSUME NEW i \in 2..Len(stack')
       PROVE  /\ PassOK(stack'[i], order'[stack'[i].event], next', silent')
              /\ stack'[i].running
  <2> DEFINE j == i - 1
  <2>1. j \in 1..Len(stack) /\ stack'[i] = c[j]
    BY <1>10, <1>11
  <2> HIDE DEF j
  <2>2. SamePlace(stack[j], c[j]) /\ c[j].owed = stack[j].owed
    BY <1>5, <2>1
  <2>3. PassOK(c[j], order[stack[j].event], next, silent)
    BY <1>2, <2>1, <2>2, OtherOK
  <2> QED BY <1>2, <1>3, <2>1, <2>2, <2>3 DEF SamePlace
<1>13. PassOK(stack'[1], order'[stack'[1].event], next', silent')
  BY <1>3, <1>7, <1>9, <1>10
<1>14. Passes'
  BY <1>10, <1>11, <1>12, <1>13 DEF Passes
<1>15. Len(stack') <= MaxDepth /\ silent' \in SUBSET Nodes
  BY <1>1, <1>2, <1>3, <1>10, <1>11, EventAssumption DEF EventAssumption
<1> QED BY <1>3, <1>10, <1>14, <1>15, Assemble

LEMMA ReInitSafe ==
    ASSUME EventAssumption, IInv, NEW e \in Lists, ReInit(e)
    PROVE  IInv'
<1>1. /\ stack = <<>> /\ mc_list_init(e)
      /\ order' = [order EXCEPT ![e] = <<>>] /\ stack' = stack /\ silent' = silent
  BY DEF ReInit, mc_event_init
<1>2. TypeOK /\ Sound
  BY DEF IInv, TypeOK, Sound
<1>3. Sound'
  BY <1>1, <1>2, InitSound
<1>4. Passes'
  BY <1>1, EmptySeq DEF Passes
<1> QED BY <1>1, <1>2, <1>3, <1>4, Assemble DEF TypeOK

LEMMA StepSafe == EventAssumption /\ IInv /\ [Next]_vars => IInv'
<1> SUFFICES ASSUME EventAssumption, IInv, [Next]_vars PROVE IInv'
  OBVIOUS
<1>1. CASE Pass
  BY <1>1, InvokeSafe, AdvanceSafe, FinishSafe DEF Pass
<1>2. ASSUME NEW cb \in Late, NEW func \in BOOLEAN, CallbackInit(cb, func) PROVE IInv'
  BY <1>2, CallbackInitSafe
<1>3. ASSUME NEW e \in Lists, ReInit(e) \/ Trigger(e) PROVE IInv'
  BY <1>3, ReInitSafe, TriggerSafe
<1>4. ASSUME NEW e \in Lists, NEW cb \in Nodes,
             \/ ~CalledInPass(cb) /\ Register(e, cb)
             \/ ~SavedAsNext(cb) /\ Unregister(e, cb)
             \/ UnregisterStranger(e, cb)
      PROVE  IInv'
  BY <1>4, RegisterSafe, UnregisterSafe, StrangerSafe
<1>5. CASE UNCHANGED vars
  <2>1. UNCHANGED <<heap, order>> /\ stack' = stack /\ silent' = silent /\ order' = order /\ next' = next
    BY <1>5 DEF vars, heap
  <2>2. TypeOK /\ Sound /\ Passes
    BY DEF IInv, TypeOK, Sound
  <2>3. Sound'
    BY <2>1, <2>2, IdleSound
  <2>4. Passes'
    BY <2>1, <2>2 DEF Passes
  <2> QED BY <2>1, <2>2, <2>3, <2>4, Assemble DEF TypeOK
<1> QED BY <1>1, <1>2, <1>3, <1>4, <1>5 DEF Next

LEMMA InitSafe == EventAssumption /\ Init => IInv
<1> SUFFICES ASSUME EventAssumption, Init PROVE IInv
  OBVIOUS
<1>1. \A l \in Lists : order[l] = <<>> /\ Len(order[l]) = 0
  BY EmptySeq DEF Init
<1>2. stack = <<>> /\ Len(stack) = 0 /\ stack \in Seq(Frames)
  BY EmptySeq DEF Init
<1>3. TypeOK
  BY <1>2, EmptySeq DEF Init, TypeOK, EventAssumption
<1>4. WellLinked
  BY <1>1 DEF Init, WellLinked, Linked, Chain, Separate
<1> QED BY <1>2, <1>3, <1>4 DEF IInv, Passes

-----------------------------------------------------------------------------
(* The theorems                                                            *)

\* Every state a program reaches has the lists and the passes in order.
THEOREM EventSafe == Spec => []IInv
<1>1. Init => IInv
  BY InitSafe, EventAssumption
<1>2. IInv /\ [Next]_vars => IInv'
  BY StepSafe, EventAssumption
<1> QED BY <1>1, <1>2, PTL DEF Spec

\* Whatever callbacks do to the lists, the variables of the loop stay listeners
\* or NULL and the stack of passes stays within its bound (event.c:36-54).
THEOREM EventTyped == Spec => []TypeOK
BY EventSafe, PTL DEF IInv

LEMMA PassesServe ==
    ASSUME IInv
    PROVE  ServedInOrder
<1> SUFFICES ASSUME NEW i \in DOMAIN stack
             PROVE  LET f == stack[i]
                    IN  /\ IsInjective(f.called)
                        /\ \A x, y \in f.owed :
                             Before(f.began, x, y) /\ y \in ToSet(f.called) =>
                                 Before(f.called, x, y)
                        /\ ~f.running /\ f.curr = NULL => f.owed \subseteq ToSet(f.called)
  BY DEF ServedInOrder
<1>1. PassOK(stack[i], order[stack[i].event], next, silent)
  BY SeqDomain DEF IInv, TypeOK, Passes
<1> QED BY <1>1 DEF PassOK, Pending, Uncalled, AtOrAfter

\* For any number of events, callbacks, nested triggers and calls inside a
\* callback: a pass calls the listeners it owes a call once each, in the order
\* of registration, and none is left when its loop ends (event.c:41-52).
THEOREM EventServes == Spec => []ServedInOrder
BY EventSafe, PassesServe, PTL

LEMMA PassesListen ==
    ASSUME IInv
    PROVE  NextIsListener
<1> SUFFICES ASSUME NEW i \in DOMAIN stack
             PROVE  LET f == stack[i]
                    IN  /\ f.storage # NULL => In(f.event, f.storage)
                        /\ ~f.running /\ f.curr # NULL => In(f.event, f.curr)
  BY DEF NextIsListener
<1> DEFINE f == stack[i]
           s == order[f.event]
<1>1. PassOK(f, s, next, silent) /\ f \in Frames /\ Sound
  BY SeqDomain DEF IInv, TypeOK, Passes, Sound
<1>2. s \in Seq(Nodes) /\ Distinct(s) /\ NextLinks(s, next)
  BY <1>1, FrameTypes, Listening
<1>3. \A n : In(f.event, n) <=> Has(s, n)
  BY DEF In, Has
<1> HIDE DEF f, s
<1>4. CASE f.running
  BY <1>1, <1>3, <1>4 DEF PassOK, Pending, f
<1>5. CASE ~f.running
  <2>1. f.curr # NULL => Has(s, f.curr)
    BY <1>1, <1>5 DEF PassOK, Pending
  <2>2. f.storage # NULL => f.curr # NULL /\ f.storage = next[f.curr]
    BY <1>1, <1>5 DEF PassOK
  <2>3. f.storage # NULL => Has(s, f.storage)
    BY <1>2, <2>1, <2>2, Follow
  <2> QED BY <1>3, <2>1, <2>3 DEF f
<1> QED BY <1>4, <1>5

\* No pass visits a node that has left its event (event.c:41, list.h:130).
THEOREM EventListens == Spec => []NextIsListener
BY EventSafe, PassesListen, PTL

-----------------------------------------------------------------------------
(* The refinement                                                          *)

LEMMA StepImplements ==
    ASSUME EventAssumption, IInv, [Next]_vars
    PROVE  [Listeners!Next]_(Listeners!vars)
<1>1. CASE Pass
  BY <1>1 DEF Pass, Invoke, SkipSilent, Return, Finish, Listeners!vars, Listeners!heap, heap
<1>2. ASSUME NEW cb \in Late, NEW func \in BOOLEAN, CallbackInit(cb, func)
      PROVE  UNCHANGED Listeners!vars
  BY <1>2 DEF CallbackInit, Listeners!vars, Listeners!heap, heap
<1>3. ASSUME NEW e \in Lists, ReInit(e) PROVE Listeners!Next
  BY <1>3 DEF ReInit, mc_event_init, mc_list_init, Listeners!Next, Listeners!ReInit,
     Listeners!mc_list_init
<1>4. ASSUME NEW e \in Lists, Trigger(e) PROVE UNCHANGED Listeners!vars
  BY <1>4 DEF Trigger, Listeners!vars, Listeners!heap, heap
<1>5. ASSUME NEW e \in Lists, NEW cb \in Nodes, Register(e, cb) PROVE Listeners!Next
  <2>1. Listeners!PushTail(e, cb)
    BY <1>5 DEF Register, mc_event_register, mc_list_append, Loose, In,
       Listeners!PushTail, Listeners!mc_list_append, Listeners!Loose, Listeners!In
  <2> QED BY <2>1 DEF Listeners!Next
<1>6. ASSUME NEW e \in Lists, NEW cb \in Nodes, Unregister(e, cb) PROVE Listeners!Next
  <2>1. Listeners!RemoveMember(e, cb)
    BY <1>6 DEF Unregister, mc_event_unregister, mc_list_remove, RemoveIgnores, SkipForward, RemoveLinks,
       BridgedNext, In, heap, Pos,
       Listeners!RemoveMember, Listeners!mc_list_remove, Listeners!RemoveIgnores,
       Listeners!SkipForward, Listeners!RemoveLinks, Listeners!BridgedNext,
       Listeners!In, Listeners!heap, Listeners!Pos,
       RemoveAt, Listeners!RemoveAt
  <2> QED BY <2>1 DEF Listeners!Next
<1>7. ASSUME NEW e \in Lists, NEW cb \in Nodes, UnregisterStranger(e, cb) PROVE Listeners!Next
  <2>1. Listeners!RemoveStranger(e, cb)
    BY <1>7 DEF UnregisterStranger, mc_event_unregister, mc_list_remove, RemoveIgnores, SkipForward, RemoveLinks,
       BridgedNext, In, heap,
       Listeners!RemoveStranger, Listeners!mc_list_remove, Listeners!RemoveIgnores,
       Listeners!SkipForward, Listeners!RemoveLinks, Listeners!BridgedNext,
       Listeners!In, Listeners!heap
  <2> QED BY <2>1 DEF Listeners!Next
<1>8. CASE UNCHANGED vars
  BY <1>8 DEF vars, Listeners!vars, Listeners!heap, heap
<1> QED BY <1>1, <1>2, <1>3, <1>4, <1>5, <1>6, <1>7, <1>8 DEF Next

\* Events make of list.c only the calls list.h allows.
THEOREM EventImplements == Spec => ImplementsList
<1>1. Init => Listeners!Init
  BY DEF Init, Listeners!Init
<1>2. IInv /\ [Next]_vars => [Listeners!Next]_(Listeners!vars)
  BY StepImplements, EventAssumption
<1> QED BY <1>1, <1>2, EventSafe, PTL DEF Spec, ImplementsList, Listeners!Spec
=============================================================================
