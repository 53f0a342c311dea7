----------------------------- MODULE ListLemmas -----------------------------
(***************************************************************************)
(* What each call of list.c does to the memory, for any lists and nodes:   *)
(* the chain of the list it is given becomes the chain of the new          *)
(* sequence, and the links of the other lists stay.  The lemmas named      *)
(* Chain... are about one list and constants; OneListChanges lifts them to *)
(* the memory.  The links of a node that is in no list are left arbitrary, *)
(* since mc_list_init abandons nodes without cleaning them.                *)
(***************************************************************************)
EXTENDS ListOps, SequenceTheorems, TLAPS

\* What is preserved, without the result of the last pop.
Sound ==
    /\ head \in [Lists -> Nodes \union {NULL}]
    /\ tail \in [Lists -> Nodes \union {NULL}]
    /\ count \in [Lists -> Nat]
    /\ next \in [Nodes -> Nodes \union {NULL}]
    /\ prev \in [Nodes -> Nodes \union {NULL}]
    /\ order \in [Lists -> Seq(Nodes)]
    /\ WellLinked

\* RemoveAt drops one element and closes the gap: the sequence a list is left
\* with when mc_list_remove unlinks the node at position i.
LEMMA RemoveAtFacts ==
    ASSUME NEW S, NEW s \in Seq(S), NEW i \in 1..Len(s)
    PROVE  /\ RemoveAt(s, i) \in Seq(S)
           /\ Len(RemoveAt(s, i)) = Len(s) - 1
           /\ \A j \in 1..(Len(s) - 1) :
                RemoveAt(s, i)[j] = IF j < i THEN s[j] ELSE s[j + 1]
<1> DEFINE a == SubSeq(s, 1, i - 1)
           b == SubSeq(s, i + 1, Len(s))
<1>1. Len(s) \in Nat /\ i \in Int /\ \A k \in 1..Len(s) : s[k] \in S
  BY LenProperties, ElementOfSeq
<1>2. /\ a \in Seq(S)
      /\ Len(a) = i - 1
      /\ \A k \in 1..(i - 1) : a[k] = s[k]
  <2>1. \A k \in 1..(i - 1) : s[k] \in S
    BY <1>1
  <2>2. /\ SubSeq(s, 1, i - 1) \in Seq(S)
        /\ Len(SubSeq(s, 1, i - 1)) = IF 1 <= i - 1 THEN i - 1 - 1 + 1 ELSE 0
        /\ \A k \in 1..(i - 1 - 1 + 1) : SubSeq(s, 1, i - 1)[k] = s[1 + k - 1]
    BY <1>1, <2>1, SubSeqProperties
  <2> QED BY <1>1, <2>2
<1>3. /\ b \in Seq(S)
      /\ Len(b) = Len(s) - i
      /\ \A k \in 1..(Len(s) - i) : b[k] = s[i + k]
  <2>1. \A k \in (i + 1)..Len(s) : s[k] \in S
    BY <1>1
  <2>2. /\ SubSeq(s, i + 1, Len(s)) \in Seq(S)
        /\ Len(SubSeq(s, i + 1, Len(s)))
             = IF i + 1 <= Len(s) THEN Len(s) - (i + 1) + 1 ELSE 0
        /\ \A k \in 1..(Len(s) - (i + 1) + 1) :
             SubSeq(s, i + 1, Len(s))[k] = s[(i + 1) + k - 1]
    BY <1>1, <2>1, SubSeqProperties
  <2> QED BY <1>1, <2>2
<1> HIDE DEF a, b
<1>4. /\ a \o b \in Seq(S)
      /\ Len(a \o b) = Len(a) + Len(b)
      /\ \A k \in 1..(Len(a) + Len(b)) :
           (a \o b)[k] = IF k <= Len(a) THEN a[k] ELSE b[k - Len(a)]
  BY <1>2, <1>3, ConcatProperties
<1>5. RemoveAt(s, i) = a \o b
  BY DEF RemoveAt, a, b
<1>6. RemoveAt(s, i) \in Seq(S) /\ Len(RemoveAt(s, i)) = Len(s) - 1
  BY <1>1, <1>2, <1>3, <1>4, <1>5
<1>7. ASSUME NEW j \in 1..(Len(s) - 1)
      PROVE  RemoveAt(s, i)[j] = IF j < i THEN s[j] ELSE s[j + 1]
  <2>1. j \in 1..(Len(a) + Len(b))
    BY <1>1, <1>2, <1>3
  <2>2. RemoveAt(s, i)[j] = IF j <= Len(a) THEN a[j] ELSE b[j - Len(a)]
    BY <2>1, <1>4, <1>5
  <2>3. CASE j < i
    BY <2>2, <2>3, <1>1, <1>2
  <2>4. CASE i <= j
    <3>1. j - (i - 1) \in 1..(Len(s) - i) /\ ~(j <= i - 1)
      BY <2>4, <1>1
    <3>2. b[j - (i - 1)] = s[i + (j - (i - 1))]
      BY <3>1, <1>3
    <3> QED BY <2>2, <3>1, <3>2, <2>4, <1>1, <1>2
  <2> QED BY <2>3, <2>4, <1>1
<1> QED BY <1>6, <1>7

\* A node put in front of a sequence: the list after mc_list_prepend.
LEMMA PrependFacts ==
    ASSUME NEW S, NEW s \in Seq(S), NEW e \in S
    PROVE  /\ <<e>> \o s \in Seq(S)
           /\ Len(<<e>> \o s) = Len(s) + 1
           /\ \A j \in 1..(Len(s) + 1) :
                (<<e>> \o s)[j] = IF j = 1 THEN e ELSE s[j - 1]
<1>1. <<e>> \in Seq(S) /\ Len(<<e>>) = 1 /\ <<e>>[1] = e
  OBVIOUS
<1>2. Len(s) \in Nat
  BY LenProperties
<1>3. /\ <<e>> \o s \in Seq(S)
      /\ Len(<<e>> \o s) = Len(<<e>>) + Len(s)
      /\ \A j \in 1..(Len(<<e>>) + Len(s)) :
           (<<e>> \o s)[j] = IF j <= Len(<<e>>) THEN <<e>>[j] ELSE s[j - Len(<<e>>)]
  BY <1>1, ConcatProperties
<1> QED BY <1>1, <1>2, <1>3

\* What a sequence in which no node comes twice is, for the lemmas below.
Distinct(s) == \A i, j \in 1..Len(s) : s[i] = s[j] => i = j

\* Links outside a list may change without changing the list.
LEMMA ChainFrame ==
    ASSUME NEW s, NEW h, NEW t, NEW c, NEW nx, NEW pv, NEW nx2, NEW pv2,
           Chain(s, h, t, c, nx, pv),
           \A i \in 1..Len(s) : nx2[s[i]] = nx[s[i]] /\ pv2[s[i]] = pv[s[i]]
    PROVE  Chain(s, h, t, c, nx2, pv2)
BY DEF Chain

\* The links, the head or tail and the count after each of the three calls,
\* from those before.
AppendEffect(s, n, h, t, c, nx, pv, h2, c2, nx2, pv2) ==
    /\ \A i \in 1..Len(s) : s[i] # n
    /\ pv2 = [pv EXCEPT ![n] = t]
    /\ nx2 = IF c = 0 THEN [nx EXCEPT ![n] = NULL]
                      ELSE [nx EXCEPT ![n] = NULL, ![t] = n]
    /\ h2 = IF c = 0 THEN n ELSE h
    /\ c2 = c + 1

PrependEffect(s, n, h, t, c, nx, pv, t2, c2, nx2, pv2) ==
    /\ \A i \in 1..Len(s) : s[i] # n
    /\ nx2 = [nx EXCEPT ![n] = h]
    /\ pv2 = IF c = 0 THEN [pv EXCEPT ![n] = NULL]
                      ELSE [pv EXCEPT ![n] = NULL, ![h] = n]
    /\ t2 = IF c = 0 THEN n ELSE t
    /\ c2 = c + 1

UnlinkEffect(n, h, t, c, nx, pv, h2, t2, c2, nx2, pv2) ==
    /\ nx2 = [(IF pv[n] = NULL THEN nx ELSE [nx EXCEPT ![pv[n]] = nx[n]])
                 EXCEPT ![n] = NULL]
    /\ pv2 = IF nx[n] = NULL THEN [pv EXCEPT ![n] = NULL]
                             ELSE [pv EXCEPT ![nx[n]] = pv[n], ![n] = NULL]
    /\ h2 = IF pv[n] = NULL THEN nx[n] ELSE h
    /\ t2 = IF nx[n] = NULL THEN pv[n] ELSE t
    /\ c2 = c - 1

\* What the calls keep: link functions, and the links of nodes not concerned.
LinksKept(s, n, nx, pv, nx2, pv2) ==
    /\ nx2 \in [Nodes -> Nodes \union {NULL}]
    /\ pv2 \in [Nodes -> Nodes \union {NULL}]
    /\ \A x \in Nodes \ {n} : (\A i \in 1..Len(s) : x # s[i]) =>
            nx2[x] = nx[x] /\ pv2[x] = pv[x]

\* The assignments of mc_list_append extend a chain at its end.
LEMMA ChainAppend ==
    ASSUME NEW s \in Seq(Nodes), NEW h, NEW t, NEW c,
           NEW nx \in [Nodes -> Nodes \union {NULL}],
           NEW pv \in [Nodes -> Nodes \union {NULL}],
           Chain(s, h, t, c, nx, pv), Distinct(s),
           NEW n \in Nodes, NEW h2, NEW c2, NEW nx2, NEW pv2,
           AppendEffect(s, n, h, t, c, nx, pv, h2, c2, nx2, pv2)
    PROVE  /\ Chain(Append(s, n), h2, n, c2, nx2, pv2)
           /\ LinksKept(s, n, nx, pv, nx2, pv2)
<1> DEFINE k == Len(s)
           r == Append(s, n)
<1>1. k \in Nat /\ \A i \in 1..k : s[i] \in Nodes
  BY LenProperties, ElementOfSeq
<1>2. /\ Len(r) = k + 1
      /\ \A i \in 1..k : r[i] = s[i]
      /\ r[k + 1] = n
  BY AppendProperties
<1>3. /\ c = k
      /\ h = IF k = 0 THEN NULL ELSE s[1]
      /\ t = IF k = 0 THEN NULL ELSE s[k]
  BY DEF Chain
<1>4. \A i \in 1..k : nx[s[i]] = IF i = k THEN NULL ELSE s[i + 1]
  BY DEF Chain
<1>5. \A i \in 1..k : pv[s[i]] = IF i = 1 THEN NULL ELSE s[i - 1]
  BY DEF Chain
<1>6. \A i, j \in 1..k : s[i] = s[j] => i = j
  BY DEF Distinct
<1>7. \A i \in 1..k : s[i] # n
  BY DEF AppendEffect
<1>8. /\ pv2 = [pv EXCEPT ![n] = t]
      /\ nx2 = IF c = 0 THEN [nx EXCEPT ![n] = NULL]
                        ELSE [nx EXCEPT ![n] = NULL, ![t] = n]
      /\ h2 = IF c = 0 THEN n ELSE h
      /\ c2 = c + 1
  BY DEF AppendEffect
<1> HIDE DEF k, r
<1>9. /\ pv2 \in [Nodes -> Nodes \union {NULL}]
      /\ pv2[n] = t
      /\ \A x \in Nodes \ {n} : pv2[x] = pv[x]
  <2>1. t \in Nodes \union {NULL}
    BY <1>1, <1>3
  <2>2. pv2 = [pv EXCEPT ![n] = t]
    BY <1>8
  <2> QED BY <2>1, <2>2
<1>10. /\ nx2 \in [Nodes -> Nodes \union {NULL}]
       /\ nx2[n] = NULL
       /\ k > 0 => nx2[s[k]] = n
       /\ \A x \in Nodes \ {n} : (k = 0 \/ x # s[k]) => nx2[x] = nx[x]
  <2>1. CASE k = 0
    <3>1. nx2 = [nx EXCEPT ![n] = NULL]
      BY <2>1, <1>3, <1>8
    <3>2. /\ nx2 \in [Nodes -> Nodes \union {NULL}]
          /\ nx2[n] = NULL
          /\ \A x \in Nodes \ {n} : nx2[x] = nx[x]
      BY <3>1
    <3>3. ~(k > 0)
      BY <2>1
    <3> QED BY <2>1, <3>2, <3>3
  <2>2. CASE k > 0
    <3>1. c # 0 /\ t = s[k] /\ s[k] \in Nodes /\ s[k] # n
      BY <2>2, <1>1, <1>3, <1>7
    <3>2. nx2 = [nx EXCEPT ![n] = NULL, ![t] = n] /\ t \in Nodes /\ t # n
      BY <3>1, <1>8
    <3>3. /\ nx2 \in [Nodes -> Nodes \union {NULL}]
          /\ nx2[n] = NULL
          /\ nx2[t] = n
          /\ \A x \in Nodes \ {n} : x # t => nx2[x] = nx[x]
      BY <3>2
    <3> QED BY <2>2, <3>1, <3>3
  <2> QED BY <1>1, <2>1, <2>2
<1>11. \A i \in 1..(k + 1) : nx2[r[i]] = IF i = k + 1 THEN NULL ELSE r[i + 1]
  <2> TAKE i \in 1..(k + 1)
  <2>1. CASE i = k + 1
    BY <2>1, <1>2, <1>10
  <2>2. CASE i = k
    BY <2>2, <1>1, <1>2, <1>10
  <2>3. CASE i < k
    <3>1. i \in 1..k /\ s[i] \in Nodes /\ s[i] # s[k] /\ s[i] # n
      BY <2>3, <1>1, <1>6, <1>7
    <3>2. nx2[s[i]] = s[i + 1]
      BY <3>1, <2>3, <1>1, <1>4, <1>10
    <3> QED BY <3>1, <3>2, <2>3, <1>1, <1>2
  <2> QED BY <2>1, <2>2, <2>3, <1>1
<1>12. \A i \in 1..(k + 1) : pv2[r[i]] = IF i = 1 THEN NULL ELSE r[i - 1]
  <2> TAKE i \in 1..(k + 1)
  <2>1. CASE i = k + 1
    BY <2>1, <1>1, <1>2, <1>3, <1>9
  <2>2. CASE i \in 1..k
    <3>1. pv2[s[i]] = pv[s[i]]
      BY <2>2, <1>1, <1>7, <1>9
    <3> QED BY <3>1, <2>2, <1>1, <1>2, <1>5
  <2> QED BY <2>1, <2>2, <1>1
<1>13. Chain(r, h2, n, c2, nx2, pv2)
  <2>1. h2 = r[1]
    BY <1>1, <1>2, <1>3, <1>8
  <2>2. Len(r) # 0 /\ n = r[Len(r)] /\ c2 = Len(r)
    BY <1>1, <1>2, <1>3, <1>8
  <2> QED BY <2>1, <2>2, <1>2, <1>11, <1>12 DEF Chain
<1>14. \A x \in Nodes \ {n} : (\A i \in 1..k : x # s[i]) =>
         nx2[x] = nx[x] /\ pv2[x] = pv[x]
  BY <1>1, <1>9, <1>10
<1> QED BY <1>9, <1>10, <1>13, <1>14 DEF k, r, LinksKept

\* The assignments of mc_list_prepend extend a chain at its front.
LEMMA ChainPrepend ==
    ASSUME NEW s \in Seq(Nodes), NEW h, NEW t, NEW c,
           NEW nx \in [Nodes -> Nodes \union {NULL}],
           NEW pv \in [Nodes -> Nodes \union {NULL}],
           Chain(s, h, t, c, nx, pv), Distinct(s),
           NEW n \in Nodes, NEW t2, NEW c2, NEW nx2, NEW pv2,
           PrependEffect(s, n, h, t, c, nx, pv, t2, c2, nx2, pv2)
    PROVE  /\ Chain(<<n>> \o s, n, t2, c2, nx2, pv2)
           /\ LinksKept(s, n, nx, pv, nx2, pv2)
<1> DEFINE k == Len(s)
           r == <<n>> \o s
<1>1. k \in Nat /\ \A i \in 1..k : s[i] \in Nodes
  BY LenProperties, ElementOfSeq
<1>2. /\ Len(r) = k + 1
      /\ \A j \in 1..(k + 1) : r[j] = IF j = 1 THEN n ELSE s[j - 1]
  BY PrependFacts
<1>3. /\ c = k
      /\ h = IF k = 0 THEN NULL ELSE s[1]
      /\ t = IF k = 0 THEN NULL ELSE s[k]
  BY DEF Chain
<1>4. \A i \in 1..k : nx[s[i]] = IF i = k THEN NULL ELSE s[i + 1]
  BY DEF Chain
<1>5. \A i \in 1..k : pv[s[i]] = IF i = 1 THEN NULL ELSE s[i - 1]
  BY DEF Chain
<1>6. \A i, j \in 1..k : s[i] = s[j] => i = j
  BY DEF Distinct
<1>7. \A i \in 1..k : s[i] # n
  BY DEF PrependEffect
<1>8. /\ nx2 = [nx EXCEPT ![n] = h]
      /\ pv2 = IF c = 0 THEN [pv EXCEPT ![n] = NULL]
                        ELSE [pv EXCEPT ![n] = NULL, ![h] = n]
      /\ t2 = IF c = 0 THEN n ELSE t
      /\ c2 = c + 1
  BY DEF PrependEffect
<1> HIDE DEF k, r
<1>9. /\ nx2 \in [Nodes -> Nodes \union {NULL}]
      /\ nx2[n] = h
      /\ \A x \in Nodes \ {n} : nx2[x] = nx[x]
  <2>1. h \in Nodes \union {NULL}
    BY <1>1, <1>3
  <2>2. nx2 = [nx EXCEPT ![n] = h]
    BY <1>8
  <2> QED BY <2>1, <2>2
<1>10. /\ pv2 \in [Nodes -> Nodes \union {NULL}]
       /\ pv2[n] = NULL
       /\ k > 0 => pv2[s[1]] = n
       /\ \A x \in Nodes \ {n} : (k = 0 \/ x # s[1]) => pv2[x] = pv[x]
  <2>1. CASE k = 0
    <3>1. pv2 = [pv EXCEPT ![n] = NULL]
      BY <2>1, <1>3, <1>8
    <3>2. /\ pv2 \in [Nodes -> Nodes \union {NULL}]
          /\ pv2[n] = NULL
          /\ \A x \in Nodes \ {n} : pv2[x] = pv[x]
      BY <3>1
    <3>3. ~(k > 0)
      BY <2>1
    <3> QED BY <2>1, <3>2, <3>3
  <2>2. CASE k > 0
    <3>1. c # 0 /\ h = s[1] /\ s[1] \in Nodes /\ s[1] # n
      BY <2>2, <1>1, <1>3, <1>7
    <3>2. pv2 = [pv EXCEPT ![n] = NULL, ![h] = n] /\ h \in Nodes /\ h # n
      BY <3>1, <1>8
    <3>3. /\ pv2 \in [Nodes -> Nodes \union {NULL}]
          /\ pv2[n] = NULL
          /\ pv2[h] = n
          /\ \A x \in Nodes \ {n} : x # h => pv2[x] = pv[x]
      BY <3>2
    <3> QED BY <2>2, <3>1, <3>3
  <2> QED BY <1>1, <2>1, <2>2
<1>11. \A i \in 1..(k + 1) : nx2[r[i]] = IF i = k + 1 THEN NULL ELSE r[i + 1]
  <2> TAKE i \in 1..(k + 1)
  <2>1. CASE i = 1
    BY <2>1, <1>1, <1>2, <1>3, <1>9
  <2>2. CASE i > 1
    <3>1. i - 1 \in 1..k /\ r[i] = s[i - 1]
      BY <2>2, <1>1, <1>2
    <3>2. nx2[r[i]] = nx[s[i - 1]]
      BY <3>1, <1>1, <1>7, <1>9
    <3>3. nx[s[i - 1]] = IF i - 1 = k THEN NULL ELSE s[(i - 1) + 1]
      BY <3>1, <1>4
    <3> QED BY <3>1, <3>2, <3>3, <2>2, <1>1, <1>2
  <2> QED BY <2>1, <2>2, <1>1
<1>12. \A i \in 1..(k + 1) : pv2[r[i]] = IF i = 1 THEN NULL ELSE r[i - 1]
  <2> TAKE i \in 1..(k + 1)
  <2>1. CASE i = 1
    BY <2>1, <1>1, <1>2, <1>10
  <2>2. CASE i = 2
    <3>1. k > 0 /\ r[2] = s[1] /\ r[1] = n
      BY <2>2, <1>1, <1>2
    <3> QED BY <2>2, <3>1, <1>10
  <2>3. CASE i > 2
    <3>1. i - 1 \in 1..k /\ r[i] = s[i - 1] /\ 1 \in 1..k /\ i - 1 # 1
      BY <2>3, <1>1, <1>2
    <3>2. s[i - 1] \in Nodes \ {n} /\ s[i - 1] # s[1]
      BY <3>1, <1>1, <1>6, <1>7
    <3>3. pv2[r[i]] = s[(i - 1) - 1]
      BY <3>1, <3>2, <1>5, <1>10
    <3> QED BY <3>1, <3>3, <2>3, <1>1, <1>2
  <2> QED BY <2>1, <2>2, <2>3, <1>1
<1>13. Chain(r, n, t2, c2, nx2, pv2)
  <2>1. t2 = r[Len(r)]
    BY <1>1, <1>2, <1>3, <1>8
  <2>2. Len(r) # 0 /\ n = r[1] /\ c2 = Len(r)
    BY <1>1, <1>2, <1>3, <1>8
  <2> QED BY <2>1, <2>2, <1>2, <1>11, <1>12 DEF Chain
<1>14. \A x \in Nodes \ {n} : (\A i \in 1..k : x # s[i]) =>
         nx2[x] = nx[x] /\ pv2[x] = pv[x]
  BY <1>1, <1>9, <1>10
<1> QED BY <1>9, <1>10, <1>13, <1>14 DEF k, r, LinksKept

\* The assignments of mc_list_remove, on a member at position i, leave the
\* chain of the other members.
LEMMA ChainRemove ==
    ASSUME NEW s \in Seq(Nodes), NEW h, NEW t, NEW c,
           NEW nx \in [Nodes -> Nodes \union {NULL}],
           NEW pv \in [Nodes -> Nodes \union {NULL}],
           Chain(s, h, t, c, nx, pv), Distinct(s),
           NEW i \in 1..Len(s), NEW n, n = s[i],
           NEW h2, NEW t2, NEW c2, NEW nx2, NEW pv2,
           UnlinkEffect(n, h, t, c, nx, pv, h2, t2, c2, nx2, pv2)
    PROVE  /\ Chain(RemoveAt(s, i), h2, t2, c2, nx2, pv2)
           /\ LinksKept(s, n, nx, pv, nx2, pv2)
<1> DEFINE k == Len(s)
           r == RemoveAt(s, i)
           p == pv[n]
           q == nx[n]
<1>1. k \in Nat /\ i \in 1..k /\ \A j \in 1..k : s[j] \in Nodes /\ s[j] # NULL
  BY LenProperties, ElementOfSeq, NullAssumption
<1>2. /\ Len(r) = k - 1
      /\ \A j \in 1..(k - 1) : r[j] = IF j < i THEN s[j] ELSE s[j + 1]
  BY RemoveAtFacts
<1>3. /\ c = k
      /\ h = IF k = 0 THEN NULL ELSE s[1]
      /\ t = IF k = 0 THEN NULL ELSE s[k]
  BY DEF Chain
<1>4. \A j \in 1..k : nx[s[j]] = IF j = k THEN NULL ELSE s[j + 1]
  BY DEF Chain
<1>5. \A j \in 1..k : pv[s[j]] = IF j = 1 THEN NULL ELSE s[j - 1]
  BY DEF Chain
<1>6. \A j, m \in 1..k : s[j] = s[m] => j = m
  BY DEF Distinct
<1> HIDE DEF k, r
<1>7. p = IF i = 1 THEN NULL ELSE s[i - 1]
  BY <1>1, <1>5
<1>8. q = IF i = k THEN NULL ELSE s[i + 1]
  BY <1>1, <1>4
<1>9. n \in Nodes
  BY <1>1
<1>10. nx2 = [(IF p = NULL THEN nx ELSE [nx EXCEPT ![p] = q]) EXCEPT ![n] = NULL]
  BY DEF UnlinkEffect
<1>11. pv2 = IF q = NULL THEN [pv EXCEPT ![n] = NULL]
                         ELSE [pv EXCEPT ![q] = p, ![n] = NULL]
  BY DEF UnlinkEffect
<1>e. /\ h2 = IF p = NULL THEN q ELSE h
      /\ t2 = IF q = NULL THEN p ELSE t
      /\ c2 = c - 1
  BY DEF UnlinkEffect
<1> HIDE DEF p, q
<1>12. \/ i = 1 /\ p = NULL
       \/ i > 1 /\ p = s[i - 1] /\ p \in Nodes /\ p # NULL /\ p # n
  <2>1. CASE i = 1
    BY <2>1, <1>7
  <2>2. CASE i > 1
    <3>1. i - 1 \in 1..k /\ i - 1 # i
      BY <2>2, <1>1
    <3>2. s[i - 1] # s[i]
      BY <3>1, <1>1, <1>6
    <3> QED BY <2>2, <3>1, <3>2, <1>1, <1>7
  <2> QED BY <2>1, <2>2, <1>1
<1>13. \/ i = k /\ q = NULL
       \/ i < k /\ q = s[i + 1] /\ q \in Nodes /\ q # NULL /\ q # n
  <2>1. CASE i = k
    BY <2>1, <1>8
  <2>2. CASE i < k
    <3>1. i + 1 \in 1..k /\ i + 1 # i
      BY <2>2, <1>1
    <3>2. s[i + 1] # s[i]
      BY <3>1, <1>1, <1>6
    <3> QED BY <2>2, <3>1, <3>2, <1>1, <1>8
  <2> QED BY <2>1, <2>2, <1>1
<1>14. /\ nx2 \in [Nodes -> Nodes \union {NULL}]
       /\ p # NULL => nx2[p] = q
       /\ \A x \in Nodes \ {n} : x # p => nx2[x] = nx[x]
  <2>1. q \in Nodes \union {NULL}
    BY <1>13
  <2>2. CASE p = NULL
    <3>1. nx2 = [nx EXCEPT ![n] = NULL]
      BY <2>2, <1>10
    <3> QED BY <2>2, <3>1, <1>9
  <2>3. CASE p # NULL
    <3>1. nx2 = [nx EXCEPT ![p] = q, ![n] = NULL] /\ p \in Nodes /\ p # n
      BY <2>3, <1>10, <1>12
    <3> QED BY <2>1, <3>1, <1>9
  <2> QED BY <2>2, <2>3
<1>15. /\ pv2 \in [Nodes -> Nodes \union {NULL}]
       /\ q # NULL => pv2[q] = p
       /\ \A x \in Nodes \ {n} : x # q => pv2[x] = pv[x]
  <2>1. p \in Nodes \union {NULL}
    BY <1>12
  <2>2. CASE q = NULL
    <3>1. pv2 = [pv EXCEPT ![n] = NULL]
      BY <2>2, <1>11
    <3> QED BY <2>2, <3>1, <1>9
  <2>3. CASE q # NULL
    <3>1. pv2 = [pv EXCEPT ![q] = p, ![n] = NULL] /\ q \in Nodes /\ q # n
      BY <2>3, <1>11, <1>13
    <3> QED BY <2>1, <3>1, <1>9
  <2> QED BY <2>2, <2>3
<1>16. ASSUME NEW j \in 1..k, j # i
       PROVE  /\ j # i - 1 => nx2[s[j]] = IF j = k THEN NULL ELSE s[j + 1]
              /\ j # i + 1 => pv2[s[j]] = IF j = 1 THEN NULL ELSE s[j - 1]
  <2>1. s[j] \in Nodes /\ s[j] # n /\ s[j] # NULL
    BY <1>16, <1>1, <1>6
  <2>2. ASSUME j # i - 1 PROVE s[j] # p
    <3>1. CASE i = 1
      BY <3>1, <2>1, <1>12
    <3>2. CASE i > 1
      <4>1. i - 1 \in 1..k /\ p = s[i - 1]
        BY <3>2, <1>1, <1>12
      <4> QED BY <4>1, <2>2, <1>6
    <3> QED BY <3>1, <3>2, <1>1
  <2>3. ASSUME j # i + 1 PROVE s[j] # q
    <3>1. CASE i = k
      BY <3>1, <2>1, <1>1, <1>13
    <3>2. CASE i < k
      <4>1. i + 1 \in 1..k /\ q = s[i + 1]
        BY <3>2, <1>1, <1>13
      <4> QED BY <4>1, <2>3, <1>6
    <3> QED BY <3>1, <3>2, <1>1
  <2>4. j # i - 1 => nx2[s[j]] = nx[s[j]]
    BY <2>1, <2>2, <1>14
  <2>5. j # i + 1 => pv2[s[j]] = pv[s[j]]
    BY <2>1, <2>3, <1>15
  <2> QED BY <2>4, <2>5, <1>4, <1>5
<1>17. \A j \in 1..(k - 1) : nx2[r[j]] = IF j = k - 1 THEN NULL ELSE r[j + 1]
  <2> TAKE j \in 1..(k - 1)
  <2>1. CASE j < i - 1
    <3>1. j \in 1..k /\ j # i /\ j # i - 1 /\ j # k /\ j # k - 1 /\ j + 1 \in 1..(k - 1)
      BY <2>1, <1>1
    <3>2. nx2[s[j]] = s[j + 1]
      BY <3>1, <1>16
    <3> QED BY <2>1, <3>1, <3>2, <1>1, <1>2
  <2>2. CASE j = i - 1
    <3>1. r[j] = s[i - 1] /\ p = s[i - 1] /\ p # NULL
      BY <2>2, <1>1, <1>2, <1>12
    <3>2. nx2[r[j]] = q
      BY <3>1, <1>14
    <3>3. CASE i = k
      BY <3>2, <3>3, <2>2, <1>1, <1>13
    <3>4. CASE i < k
      <4>1. j # k - 1 /\ j + 1 = i /\ r[i] = s[i + 1]
        BY <3>4, <2>2, <1>1, <1>2
      <4> QED BY <4>1, <3>2, <3>4, <1>1, <1>13
    <3> QED BY <3>3, <3>4, <1>1
  <2>3. CASE j >= i
    <3>1. j + 1 \in 1..k /\ j + 1 # i /\ j + 1 # i - 1 /\ r[j] = s[j + 1]
      BY <2>3, <1>1, <1>2
    <3>2. nx2[s[j + 1]] = IF j + 1 = k THEN NULL ELSE s[(j + 1) + 1]
      BY <3>1, <1>16
    <3>3. ASSUME j # k - 1 PROVE r[j + 1] = s[(j + 1) + 1]
      <4>1. j + 1 \in 1..(k - 1) /\ ~(j + 1 < i)
        BY <2>3, <3>3, <1>1
      <4> QED BY <4>1, <1>2
    <3>4. nx2[r[j]] = IF j + 1 = k THEN NULL ELSE s[(j + 1) + 1]
      BY <3>1, <3>2
    <3>5. CASE j = k - 1
      BY <3>4, <3>5, <1>1
    <3>6. CASE j # k - 1
      BY <3>3, <3>4, <3>6, <1>1
    <3> QED BY <3>5, <3>6
  <2> QED BY <2>1, <2>2, <2>3, <1>1
<1>18. \A j \in 1..(k - 1) : pv2[r[j]] = IF j = 1 THEN NULL ELSE r[j - 1]
  <2> TAKE j \in 1..(k - 1)
  <2>1. CASE j < i
    <3>1. j \in 1..k /\ j # i /\ j # i + 1 /\ r[j] = s[j]
      BY <2>1, <1>1, <1>2
    <3>2. pv2[s[j]] = IF j = 1 THEN NULL ELSE s[j - 1]
      BY <3>1, <1>16
    <3>3. j # 1 => r[j - 1] = s[j - 1]
      <4>1. j # 1 => j - 1 \in 1..(k - 1) /\ j - 1 < i
        BY <2>1, <1>1
      <4> QED BY <4>1, <1>2
    <3> QED BY <3>1, <3>2, <3>3
  <2>2. CASE j = i
    <3>1. r[j] = s[i + 1] /\ q = s[i + 1] /\ q # NULL
      BY <2>2, <1>1, <1>2, <1>13
    <3>2. pv2[r[j]] = p
      BY <3>1, <1>15
    <3>3. j # 1 => r[j - 1] = s[i - 1]
      BY <2>2, <1>1, <1>2
    <3> QED BY <3>2, <3>3, <2>2, <1>7
  <2>3. CASE j > i
    <3>1. j + 1 \in 1..k /\ j + 1 # i /\ j + 1 # i + 1 /\ r[j] = s[j + 1] /\ j # 1
      BY <2>3, <1>1, <1>2
    <3>2. pv2[s[j + 1]] = IF j + 1 = 1 THEN NULL ELSE s[(j + 1) - 1]
      BY <3>1, <1>16
    <3>3. j - 1 \in 1..(k - 1) /\ ~(j - 1 < i) /\ j + 1 # 1
      BY <2>3, <1>1
    <3>4. r[j - 1] = s[(j - 1) + 1]
      BY <3>3, <1>2
    <3>5. (j - 1) + 1 = (j + 1) - 1
      OBVIOUS
    <3> QED BY <3>1, <3>2, <3>3, <3>4, <3>5
  <2> QED BY <2>1, <2>2, <2>3, <1>1
<1>19. h2 = IF k - 1 = 0 THEN NULL ELSE r[1]
  <2>1. CASE i = 1
    <3>1. p = NULL
      BY <2>1, <1>12
    <3>2. CASE k = 1
      BY <2>1, <3>1, <3>2, <1>13, <1>e
    <3>3. CASE k > 1
      <4>1. 1 \in 1..(k - 1) /\ ~(1 < i) /\ k - 1 # 0
        BY <2>1, <3>3, <1>1
      <4>2. r[1] = s[i + 1]
        BY <4>1, <2>1, <1>2
      <4>3. q = s[i + 1]
        BY <3>3, <2>1, <1>13
      <4> QED BY <3>1, <4>1, <4>2, <4>3, <1>e
    <3> QED BY <3>2, <3>3, <1>1
  <2>2. CASE i > 1
    <3>1. 1 \in 1..(k - 1) /\ 1 < i /\ k - 1 # 0 /\ k # 0
      BY <2>2, <1>1
    <3>2. r[1] = s[1]
      BY <3>1, <1>2
    <3>3. p # NULL /\ h = s[1]
      BY <3>1, <2>2, <1>3, <1>12
    <3> QED BY <3>1, <3>2, <3>3, <1>e
  <2> QED BY <2>1, <2>2, <1>1
<1>20. t2 = IF k - 1 = 0 THEN NULL ELSE r[k - 1]
  <2>1. CASE i = k
    <3>1. q = NULL
      BY <2>1, <1>13
    <3>2. CASE k = 1
      BY <2>1, <3>1, <3>2, <1>12, <1>e
    <3>3. CASE k > 1
      <4>1. k - 1 \in 1..(k - 1) /\ k - 1 < i
        BY <2>1, <3>3, <1>1
      <4>2. r[k - 1] = s[i - 1]
        BY <4>1, <2>1, <1>2
      <4> QED BY <3>1, <3>3, <4>2, <2>1, <1>12, <1>e
    <3> QED BY <3>2, <3>3, <1>1
  <2>2. CASE i < k
    <3>1. k - 1 \in 1..(k - 1) /\ ~(k - 1 < i) /\ (k - 1) + 1 = k /\ k # 0
      BY <2>2, <1>1
    <3>2. r[k - 1] = s[k]
      BY <3>1, <1>2
    <3>3. q # NULL /\ t = s[k]
      BY <3>1, <2>2, <1>3, <1>13
    <3> QED BY <3>1, <3>2, <3>3, <1>e
  <2> QED BY <2>1, <2>2, <1>1
<1>21. Chain(r, h2, t2, c2, nx2, pv2)
  <2>1. Len(r) = k - 1 /\ c2 = k - 1
    BY <1>2, <1>3, <1>e
  <2>2. h2 = IF Len(r) = 0 THEN NULL ELSE r[1]
    BY <2>1, <1>19
  <2>3. t2 = IF Len(r) = 0 THEN NULL ELSE r[Len(r)]
    BY <2>1, <1>20
  <2>4. \A j \in 1..Len(r) : nx2[r[j]] = IF j = Len(r) THEN NULL ELSE r[j + 1]
    BY <2>1, <1>17
  <2>5. \A j \in 1..Len(r) : pv2[r[j]] = IF j = 1 THEN NULL ELSE r[j - 1]
    BY <2>1, <1>18
  <2> QED BY <2>1, <2>2, <2>3, <2>4, <2>5, Zenon DEF Chain
<1>22. ASSUME NEW x \in Nodes, \A j \in 1..k : x # s[j]
       PROVE  nx2[x] = nx[x] /\ pv2[x] = pv[x]
  <2>1. x # n
    BY <1>22, <1>1
  <2>2. x # p
    BY <1>22, <1>1, <1>12, NullAssumption
  <2>3. x # q
    BY <1>22, <1>1, <1>13, NullAssumption
  <2> QED BY <2>1, <2>2, <2>3, <1>14, <1>15
<1> QED BY <1>14, <1>15, <1>21, <1>22 DEF k, r, p, q, LinksKept

-----------------------------------------------------------------------------
(* From one list to the whole memory                                       *)

LEMMA SoundFacts ==
    ASSUME Sound, NEW l \in Lists
    PROVE  /\ order[l] \in Seq(Nodes)
           /\ Len(order[l]) \in Nat
           /\ DOMAIN order[l] = 1..Len(order[l])
           /\ \A i \in 1..Len(order[l]) : order[l][i] \in Nodes
           /\ Distinct(order[l])
           /\ Chain(order[l], head[l], tail[l], count[l], next, prev)
           /\ \A m \in Lists \ {l} :
                \A i \in 1..Len(order[l]), j \in 1..Len(order[m]) :
                    order[l][i] # order[m][j]
<1>1. order[l] \in Seq(Nodes)
  BY DEF Sound
<1>2. /\ Len(order[l]) \in Nat
      /\ DOMAIN order[l] = 1..Len(order[l])
      /\ \A i \in 1..Len(order[l]) : order[l][i] \in Nodes
  BY <1>1, LenProperties, ElementOfSeq
<1>3. Linked(l) /\ Separate
  BY DEF Sound, WellLinked
<1>4. Distinct(order[l])
  BY <1>3 DEF Separate, Distinct
<1>5. \A m \in Lists \ {l} :
        \A i \in 1..Len(order[l]), j \in 1..Len(order[m]) : order[l][i] # order[m][j]
  BY <1>3 DEF Separate
<1> QED BY <1>1, <1>2, <1>3, <1>4, <1>5 DEF Linked

\* A call that rebuilds the chain of l and leaves the links of the other lists
\* alone keeps the memory sound: what the calls below have in common.
LEMMA OneListChanges ==
    ASSUME Sound, NEW l \in Lists, NEW r \in Seq(Nodes),
           order' = [order EXCEPT ![l] = r],
           Distinct(r),
           \A i \in 1..Len(r) : In(l, r[i]) \/ Loose(r[i]),
           next' \in [Nodes -> Nodes \union {NULL}],
           prev' \in [Nodes -> Nodes \union {NULL}],
           \A x \in Nodes : ~In(l, x) /\ ~Loose(x) => next'[x] = next[x] /\ prev'[x] = prev[x],
           NEW h \in Nodes \union {NULL}, head' = [head EXCEPT ![l] = h],
           NEW t \in Nodes \union {NULL}, tail' = [tail EXCEPT ![l] = t],
           NEW c \in Nat, count' = [count EXCEPT ![l] = c],
           Chain(r, h, t, c, next', prev')
    PROVE  Sound'
<1>1. /\ head' \in [Lists -> Nodes \union {NULL}]
      /\ tail' \in [Lists -> Nodes \union {NULL}]
      /\ count' \in [Lists -> Nat]
      /\ order' \in [Lists -> Seq(Nodes)]
      /\ head'[l] = h /\ tail'[l] = t /\ count'[l] = c /\ order'[l] = r
      /\ \A m \in Lists \ {l} : /\ head'[m] = head[m]
                                 /\ tail'[m] = tail[m]
                                 /\ count'[m] = count[m]
                                 /\ order'[m] = order[m]
  BY DEF Sound
<1>2. Linked(l)'
  BY <1>1 DEF Linked
<1>3. ASSUME NEW m \in Lists \ {l}
      PROVE  Linked(m)'
  <2>1. Chain(order[m], head[m], tail[m], count[m], next, prev)
    BY SoundFacts
  <2>2. \A i \in 1..Len(order[m]) :
          next'[order[m][i]] = next[order[m][i]] /\ prev'[order[m][i]] = prev[order[m][i]]
    <3> TAKE i \in 1..Len(order[m])
    <3>1. order[m][i] \in Nodes /\ DOMAIN order[m] = 1..Len(order[m])
      BY SoundFacts
    <3>2. In(m, order[m][i])
      BY <3>1 DEF In
    <3>3. ~In(l, order[m][i])
      <4>1. DOMAIN order[l] = 1..Len(order[l])
        BY SoundFacts
      <4>2. \A a \in 1..Len(order[l]), b \in 1..Len(order[m]) : order[l][a] # order[m][b]
        BY SoundFacts
      <4> QED BY <4>1, <4>2 DEF In
    <3> QED BY <3>1, <3>2, <3>3 DEF Loose
  <2>3. Chain(order[m], head[m], tail[m], count[m], next', prev')
    BY <2>1, <2>2, ChainFrame
  <2> QED BY <1>1, <2>3 DEF Linked
<1>4. Separate'
  <2>1. ASSUME NEW m \in Lists \ {l}, NEW i \in 1..Len(r), NEW j \in 1..Len(order[m])
        PROVE  r[i] # order[m][j]
    <3>1. DOMAIN order[m] = 1..Len(order[m])
      BY SoundFacts
    <3>2. CASE Loose(r[i])
      BY <3>1, <3>2 DEF Loose, In
    <3>3. CASE In(l, r[i])
      <4>1. DOMAIN order[l] = 1..Len(order[l])
        BY SoundFacts
      <4>2. \A a \in 1..Len(order[l]), b \in 1..Len(order[m]) : order[l][a] # order[m][b]
        BY SoundFacts
      <4> QED BY <3>3, <4>1, <4>2 DEF In
    <3> QED BY <3>2, <3>3
  <2>2. \A m \in Lists \ {l} : \A i \in 1..Len(r), j \in 1..Len(order[m]) :
          r[i] # order[m][j]
    BY <2>1
  <2>3. \A m, q \in Lists : \A i \in 1..Len(order[m]), j \in 1..Len(order[q]) :
          order[m][i] = order[q][j] => m = q /\ i = j
    BY DEF Sound, WellLinked, Separate
  <2>4. \A i, j \in 1..Len(r) : r[i] = r[j] => i = j
    BY DEF Distinct
  <2>5. SUFFICES ASSUME NEW m \in Lists, NEW q \in Lists,
                        NEW i \in 1..Len(order'[m]), NEW j \in 1..Len(order'[q]),
                        order'[m][i] = order'[q][j]
                 PROVE  m = q /\ i = j
    BY DEF Separate
  <2>6. CASE m = l /\ q = l
    BY <2>6, <2>4, <2>5, <1>1
  <2>7. CASE m = l /\ q # l
    BY <2>7, <2>2, <2>5, <1>1
  <2>8. CASE m # l /\ q = l
    BY <2>8, <2>2, <2>5, <1>1
  <2>9. CASE m # l /\ q # l
    BY <2>9, <2>3, <2>5, <1>1
  <2> QED BY <2>6, <2>7, <2>8, <2>9
<1> QED BY <1>1, <1>2, <1>3, <1>4 DEF Sound, WellLinked

\* mc_list_init empties a list and abandons its nodes.
LEMMA InitSound ==
    ASSUME Sound, NEW l \in Lists, mc_list_init(l),
           order' = [order EXCEPT ![l] = <<>>]
    PROVE  Sound'
<1>1. /\ head' = [head EXCEPT ![l] = NULL]
      /\ tail' = [tail EXCEPT ![l] = NULL]
      /\ count' = [count EXCEPT ![l] = 0]
      /\ next' = next /\ prev' = prev
  BY DEF mc_list_init
<1>2. /\ <<>> \in Seq(Nodes) /\ Len(<<>>) = 0
      /\ Distinct(<<>>)
      /\ \A i \in 1..Len(<<>>) : In(l, <<>>[i]) \/ Loose(<<>>[i])
      /\ Chain(<<>>, NULL, NULL, 0, next', prev')
  BY EmptySeq DEF Distinct, Chain
<1>3. next' \in [Nodes -> Nodes \union {NULL}] /\ prev' \in [Nodes -> Nodes \union {NULL}]
  BY <1>1 DEF Sound
<1> QED BY <1>1, <1>2, <1>3, OneListChanges

\* A step that touches neither the links nor the sequences.
LEMMA IdleSound ==
    ASSUME Sound, UNCHANGED <<heap, order>>
    PROVE  Sound'
BY DEF heap, Sound, WellLinked, Linked, Separate

\* mc_list_append keeps every list well linked, if the node was in none.
LEMMA AppendSound ==
    ASSUME Sound, NEW l \in Lists, NEW n \in Nodes, Loose(n),
           mc_list_append(l, n),
           order' = [order EXCEPT ![l] = Append(@, n)]
    PROVE  Sound'
<1> DEFINE s == order[l]
           h == IF count[l] = 0 THEN n ELSE head[l]
<1>1. /\ s \in Seq(Nodes)
      /\ DOMAIN s = 1..Len(s) /\ Len(s) \in Nat
      /\ Distinct(s)
      /\ Chain(s, head[l], tail[l], count[l], next, prev)
  BY SoundFacts
<1>2. \A i \in 1..Len(s) : s[i] # n
  BY <1>1 DEF Loose, In
<1>3. /\ next \in [Nodes -> Nodes \union {NULL}]
      /\ prev \in [Nodes -> Nodes \union {NULL}]
      /\ head \in [Lists -> Nodes \union {NULL}]
      /\ count \in [Lists -> Nat]
  BY DEF Sound
<1>4. /\ prev' = [prev EXCEPT ![n] = tail[l]]
      /\ next' = IF count[l] = 0 THEN [next EXCEPT ![n] = NULL]
                 ELSE [next EXCEPT ![n] = NULL, ![tail[l]] = n]
      /\ head' = [head EXCEPT ![l] = h]
      /\ tail' = [tail EXCEPT ![l] = n]
      /\ count' = [count EXCEPT ![l] = count[l] + 1]
  BY <1>3 DEF mc_list_append
<1> DEFINE c2 == count[l] + 1
<1>5. /\ Chain(Append(s, n), h, n, c2, next', prev')
      /\ LinksKept(s, n, next, prev, next', prev')
  <2>1. AppendEffect(s, n, head[l], tail[l], count[l], next, prev, h, c2, next', prev')
    BY <1>2, <1>4 DEF AppendEffect
  <2> HIDE DEF h, c2, s
  <2> QED BY <2>1, <1>1, <1>3, ChainAppend
<1>6. /\ Append(s, n) \in Seq(Nodes)
      /\ Len(Append(s, n)) = Len(s) + 1
      /\ \A i \in 1..Len(s) : Append(s, n)[i] = s[i]
      /\ Append(s, n)[Len(s) + 1] = n
  BY <1>1, AppendProperties
<1>7. Distinct(Append(s, n))
  BY <1>1, <1>2, <1>6 DEF Distinct
<1>8. \A i \in 1..Len(Append(s, n)) : In(l, Append(s, n)[i]) \/ Loose(Append(s, n)[i])
  BY <1>1, <1>6 DEF In
<1>9. \A x \in Nodes : ~In(l, x) /\ ~Loose(x) =>
        next'[x] = next[x] /\ prev'[x] = prev[x]
  BY <1>1, <1>5 DEF In, Loose, LinksKept
<1>10. h \in Nodes \union {NULL} /\ count[l] + 1 \in Nat
  BY <1>3
<1> HIDE DEF h
<1> QED BY <1>4, <1>5, <1>6, <1>7, <1>8, <1>9, <1>10, OneListChanges DEF LinksKept

\* mc_list_prepend keeps every list well linked, if the node was in none.
LEMMA PrependSound ==
    ASSUME Sound, NEW l \in Lists, NEW n \in Nodes, Loose(n),
           mc_list_prepend(l, n),
           order' = [order EXCEPT ![l] = <<n>> \o @]
    PROVE  Sound'
<1> DEFINE s == order[l]
           t == IF count[l] = 0 THEN n ELSE tail[l]
<1>1. /\ s \in Seq(Nodes)
      /\ DOMAIN s = 1..Len(s) /\ Len(s) \in Nat
      /\ Distinct(s)
      /\ Chain(s, head[l], tail[l], count[l], next, prev)
  BY SoundFacts
<1>2. \A i \in 1..Len(s) : s[i] # n
  BY <1>1 DEF Loose, In
<1>3. /\ next \in [Nodes -> Nodes \union {NULL}]
      /\ prev \in [Nodes -> Nodes \union {NULL}]
      /\ tail \in [Lists -> Nodes \union {NULL}]
      /\ count \in [Lists -> Nat]
  BY DEF Sound
<1>4. /\ next' = [next EXCEPT ![n] = head[l]]
      /\ prev' = IF count[l] = 0 THEN [prev EXCEPT ![n] = NULL]
                 ELSE [prev EXCEPT ![n] = NULL, ![head[l]] = n]
      /\ tail' = [tail EXCEPT ![l] = t]
      /\ head' = [head EXCEPT ![l] = n]
      /\ count' = [count EXCEPT ![l] = count[l] + 1]
  BY <1>3 DEF mc_list_prepend
<1> DEFINE c2 == count[l] + 1
<1>5. /\ Chain(<<n>> \o s, n, t, c2, next', prev')
      /\ LinksKept(s, n, next, prev, next', prev')
  <2>1. PrependEffect(s, n, head[l], tail[l], count[l], next, prev, t, c2, next', prev')
    BY <1>2, <1>4 DEF PrependEffect
  <2> HIDE DEF t, c2, s
  <2> QED BY <2>1, <1>1, <1>3, ChainPrepend
<1>6. /\ <<n>> \o s \in Seq(Nodes)
      /\ Len(<<n>> \o s) = Len(s) + 1
      /\ \A i \in 1..(Len(s) + 1) : (<<n>> \o s)[i] = IF i = 1 THEN n ELSE s[i - 1]
  BY <1>1, PrependFacts
<1>7. Distinct(<<n>> \o s)
  BY <1>1, <1>2, <1>6 DEF Distinct
<1>8. \A i \in 1..Len(<<n>> \o s) : In(l, (<<n>> \o s)[i]) \/ Loose((<<n>> \o s)[i])
  <2> TAKE i \in 1..Len(<<n>> \o s)
  <2>1. CASE i = 1
    BY <2>1, <1>6
  <2>2. CASE i # 1
    <3>1. i - 1 \in DOMAIN s /\ (<<n>> \o s)[i] = s[i - 1]
      BY <2>2, <1>1, <1>6
    <3> QED BY <3>1 DEF In
  <2> QED BY <2>1, <2>2
<1>9. \A x \in Nodes : ~In(l, x) /\ ~Loose(x) =>
        next'[x] = next[x] /\ prev'[x] = prev[x]
  BY <1>1, <1>5 DEF In, Loose, LinksKept
<1>10. t \in Nodes \union {NULL} /\ count[l] + 1 \in Nat
  BY <1>3
<1> HIDE DEF t
<1> QED BY <1>4, <1>5, <1>6, <1>7, <1>8, <1>9, <1>10, OneListChanges DEF LinksKept

\* mc_list_remove of the node at position i of a list unlinks that node alone.
LEMMA RemoveSound ==
    ASSUME Sound, NEW l \in Lists, NEW i \in 1..Len(order[l]),
           NEW n, n = order[l][i],
           mc_list_remove(l, n),
           order' = [order EXCEPT ![l] = RemoveAt(@, i)]
    PROVE  Sound'
<1> DEFINE s == order[l]
           h == IF prev[n] = NULL THEN next[n] ELSE head[l]
           t == IF next[n] = NULL THEN prev[n] ELSE tail[l]
<1>1. /\ s \in Seq(Nodes)
      /\ DOMAIN s = 1..Len(s) /\ Len(s) \in Nat
      /\ \A j \in 1..Len(s) : s[j] \in Nodes
      /\ Distinct(s)
      /\ Chain(s, head[l], tail[l], count[l], next, prev)
  BY SoundFacts
<1>2. /\ next \in [Nodes -> Nodes \union {NULL}]
      /\ prev \in [Nodes -> Nodes \union {NULL}]
      /\ head \in [Lists -> Nodes \union {NULL}]
      /\ tail \in [Lists -> Nodes \union {NULL}]
      /\ count \in [Lists -> Nat]
  BY DEF Sound
<1>3. /\ count[l] = Len(s) /\ count[l] # 0
      /\ prev[n] = NULL => head[l] = n
      /\ next[n] = NULL => tail[l] = n
  <2>1. /\ count[l] = Len(s)
        /\ head[l] = IF Len(s) = 0 THEN NULL ELSE s[1]
        /\ tail[l] = IF Len(s) = 0 THEN NULL ELSE s[Len(s)]
        /\ next[s[i]] = IF i = Len(s) THEN NULL ELSE s[i + 1]
        /\ prev[s[i]] = IF i = 1 THEN NULL ELSE s[i - 1]
    BY <1>1 DEF Chain
  <2>2. i # 1 => s[i - 1] \in Nodes
    BY <1>1
  <2>3. i # Len(s) => s[i + 1] \in Nodes
    BY <1>1
  <2> QED BY <2>1, <2>2, <2>3, <1>1, NullAssumption
<1>4. /\ next' = [(IF prev[n] = NULL THEN next ELSE [next EXCEPT ![prev[n]] = next[n]])
                     EXCEPT ![n] = NULL]
      /\ prev' = IF next[n] = NULL THEN [prev EXCEPT ![n] = NULL]
                 ELSE [prev EXCEPT ![next[n]] = prev[n], ![n] = NULL]
      /\ head' = [head EXCEPT ![l] = h]
      /\ tail' = [tail EXCEPT ![l] = t]
      /\ count' = [count EXCEPT ![l] = count[l] - 1]
  <2>1. SkipForward(l, n) /\ RemoveLinks(l, n)
    BY <1>3 DEF mc_list_remove, RemoveIgnores
  <2>2. head' = [head EXCEPT ![l] = h]
    BY <2>1, <1>2 DEF SkipForward
  <2>3. /\ next' = [BridgedNext(n) EXCEPT ![n] = NULL]
        /\ count' = [count EXCEPT ![l] = count[l] - 1]
        /\ prev' = IF next[n] = NULL THEN [prev EXCEPT ![n] = NULL]
                   ELSE [prev EXCEPT ![next[n]] = prev[n], ![n] = NULL]
    BY <2>1, <1>3 DEF RemoveLinks
  <2>4. tail' = [tail EXCEPT ![l] = t]
    BY <2>1, <1>2, <1>3 DEF RemoveLinks
  <2> QED BY <2>2, <2>3, <2>4 DEF BridgedNext
<1> DEFINE c2 == count[l] - 1
<1>5. /\ Chain(RemoveAt(s, i), h, t, c2, next', prev')
      /\ LinksKept(s, n, next, prev, next', prev')
  <2>1. UnlinkEffect(n, head[l], tail[l], count[l], next, prev, h, t, c2, next', prev')
    BY <1>4 DEF UnlinkEffect
  <2>2. i \in 1..Len(s) /\ n = s[i]
    OBVIOUS
  <2> HIDE DEF h, t, c2, s
  <2> QED BY <2>1, <2>2, <1>1, <1>2, ChainRemove
<1>6. /\ RemoveAt(s, i) \in Seq(Nodes)
      /\ Len(RemoveAt(s, i)) = Len(s) - 1
      /\ \A j \in 1..(Len(s) - 1) :
           RemoveAt(s, i)[j] = IF j < i THEN s[j] ELSE s[j + 1]
  BY <1>1, RemoveAtFacts
<1>7. Distinct(RemoveAt(s, i))
  <2> SUFFICES ASSUME NEW j \in 1..(Len(s) - 1), NEW m \in 1..(Len(s) - 1),
                      RemoveAt(s, i)[j] = RemoveAt(s, i)[m]
               PROVE  j = m
    BY <1>6 DEF Distinct
  <2> DEFINE at(x) == IF x < i THEN x ELSE x + 1
  <2>1. at(j) \in 1..Len(s) /\ at(m) \in 1..Len(s)
    BY <1>1
  <2>2. s[at(j)] = s[at(m)]
    BY <1>6
  <2>3. at(j) = at(m)
    BY <2>1, <2>2, <1>1 DEF Distinct
  <2> QED BY <2>3, <1>1
<1>8. \A j \in 1..Len(RemoveAt(s, i)) :
        In(l, RemoveAt(s, i)[j]) \/ Loose(RemoveAt(s, i)[j])
  <2> TAKE j \in 1..Len(RemoveAt(s, i))
  <2>1. j \in 1..Len(s) /\ j + 1 \in 1..Len(s)
    BY <1>1, <1>6
  <2>2. RemoveAt(s, i)[j] = s[j] \/ RemoveAt(s, i)[j] = s[j + 1]
    BY <1>1, <1>6
  <2> QED BY <2>1, <2>2, <1>1 DEF In
<1>9. \A x \in Nodes : ~In(l, x) /\ ~Loose(x) =>
        next'[x] = next[x] /\ prev'[x] = prev[x]
  BY <1>1, <1>5 DEF In, Loose, LinksKept
<1>10. h \in Nodes \union {NULL} /\ t \in Nodes \union {NULL} /\ count[l] - 1 \in Nat
  BY <1>1, <1>2, <1>3
<1> HIDE DEF h, t
<1> QED BY <1>4, <1>5, <1>6, <1>7, <1>8, <1>9, <1>10, OneListChanges DEF LinksKept

\* mc_list_remove of a node that is not in the list returns before it writes,
\* in the cases the callers' contract allows.
LEMMA StrangerIgnored ==
    ASSUME Sound, NEW l \in Lists, NEW n \in Nodes, ~In(l, n),
           order[l] = <<>> \/ prev[n] = NULL,
           mc_list_remove(l, n)
    PROVE  UNCHANGED heap
<1>1. /\ Chain(order[l], head[l], tail[l], count[l], next, prev)
      /\ DOMAIN order[l] = 1..Len(order[l]) /\ Len(order[l]) \in Nat
  BY SoundFacts
<1>2. /\ count[l] = Len(order[l])
      /\ head[l] = IF Len(order[l]) = 0 THEN NULL ELSE order[l][1]
  BY <1>1 DEF Chain
<1>3. RemoveIgnores(l, n)
  <2>1. CASE Len(order[l]) = 0
    BY <2>1, <1>2 DEF RemoveIgnores
  <2>2. CASE Len(order[l]) # 0
    <3>1. 1 \in 1..Len(order[l]) /\ order[l] # <<>>
      BY <2>2, <1>1
    <3>2. head[l] # n
      BY <3>1, <2>2, <1>1, <1>2 DEF In
    <3> QED BY <3>1, <3>2 DEF RemoveIgnores
  <2> QED BY <2>1, <2>2
<1> QED BY <1>3 DEF mc_list_remove

\* Pos names the position of a member.
LEMMA PosFacts ==
    ASSUME Sound, NEW l \in Lists, NEW n \in Nodes, In(l, n)
    PROVE  Pos(l, n) \in 1..Len(order[l]) /\ n = order[l][Pos(l, n)]
<1>1. DOMAIN order[l] = 1..Len(order[l])
  BY SoundFacts
<1> QED BY <1>1 DEF In, Pos

=============================================================================
