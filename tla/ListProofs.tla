----------------------------- MODULE ListProofs -----------------------------
(***************************************************************************)
(* For any lists and any nodes, the calls of list.c keep the links of      *)
(* every list those of the sequence its callers built.  The inductive      *)
(* invariant is TypeOK together with WellLinked.                           *)
(***************************************************************************)
EXTENDS List, ListLemmas, FiniteSetTheorems, WellFoundedInduction

\* Every call of list.c, made as its header asks, preserves the memory.
LEMMA StepSound ==
    ASSUME TypeOK, WellLinked, [Next]_vars
    PROVE  Sound'
<1>1. Sound
  BY DEF TypeOK, Sound
<1>2. CASE UNCHANGED vars
  BY <1>1, <1>2, IdleSound DEF vars
<1>3. ASSUME NEW l \in Lists, ReInit(l)
      PROVE  Sound'
  BY <1>1, <1>3, InitSound DEF ReInit
<1>4. ASSUME NEW l \in Lists, NEW n \in Nodes, PushTail(l, n)
      PROVE  Sound'
  BY <1>1, <1>4, AppendSound DEF PushTail
<1>5. ASSUME NEW l \in Lists, NEW n \in Nodes, PushHead(l, n)
      PROVE  Sound'
  BY <1>1, <1>5, PrependSound DEF PushHead
<1>6. ASSUME NEW l \in Lists, NEW n \in Nodes, RemoveMember(l, n)
      PROVE  Sound'
  BY <1>1, <1>6, PosFacts, RemoveSound DEF RemoveMember
<1>7. ASSUME NEW l \in Lists, NEW n \in Nodes, RemoveStranger(l, n)
      PROVE  Sound'
  <2>1. UNCHANGED <<heap, order>>
    BY <1>1, <1>7, StrangerIgnored DEF RemoveStranger
  <2> QED BY <1>1, <2>1, IdleSound
<1>8. ASSUME NEW l \in Lists, PopHead(l) \/ PopTail(l)
      PROVE  Sound'
  <2> DEFINE s == order[l]
  <2>1. /\ s \in Seq(Nodes) /\ Len(s) \in Nat
        /\ \A i \in 1..Len(s) : s[i] \in Nodes
        /\ Chain(s, head[l], tail[l], count[l], next, prev)
    BY <1>1, SoundFacts
  <2>2. /\ head[l] = IF Len(s) = 0 THEN NULL ELSE s[1]
        /\ tail[l] = IF Len(s) = 0 THEN NULL ELSE s[Len(s)]
    BY <2>1 DEF Chain
  <2>3. Len(s) = 0 <=> s = <<>>
    BY <2>1, EmptySeq
  <2>4. CASE Len(s) = 0
    <3>1. order \in [Lists -> Seq(Nodes)]
      BY <1>1 DEF Sound
    <3>2. UNCHANGED <<heap, order>>
      BY <1>8, <2>2, <2>3, <2>4, <3>1
      DEF PopHead, PopTail, mc_list_pop_head, mc_list_pop_tail
    <3> QED BY <1>1, <3>2, IdleSound
  <2>5. CASE Len(s) # 0 /\ PopHead(l)
    <3>1. 1 \in 1..Len(s) /\ head[l] = s[1] /\ head[l] # NULL
      BY <2>1, <2>2, <2>5, NullAssumption
    <3>2. mc_list_remove(l, head[l]) /\ order' = [order EXCEPT ![l] = RemoveAt(@, 1)]
      BY <2>3, <2>5, <3>1 DEF PopHead, mc_list_pop_head
    <3> QED BY <1>1, <3>1, <3>2, RemoveSound
  <2>6. CASE Len(s) # 0 /\ PopTail(l)
    <3>1. Len(s) \in 1..Len(s) /\ tail[l] = s[Len(s)] /\ tail[l] # NULL
      BY <2>1, <2>2, <2>6, NullAssumption
    <3>2. mc_list_remove(l, tail[l]) /\ order' = [order EXCEPT ![l] = RemoveAt(@, Len(s))]
      BY <2>3, <2>6, <3>1 DEF PopTail, mc_list_pop_tail
    <3> QED BY <1>1, <3>1, <3>2, RemoveSound
  <2> QED BY <1>8, <2>4, <2>5, <2>6
<1> QED BY <1>2, <1>3, <1>4, <1>5, <1>6, <1>7, <1>8 DEF Next

\* The result of a pop is a node or NULL, whatever the call.
LEMMA StepRet ==
    ASSUME TypeOK, [Next]_vars
    PROVE  ret' \in Nodes \union {NULL}
BY DEF TypeOK, Next, vars, ReInit, PushTail, PushHead, RemoveMember, RemoveStranger,
       PopHead, PopTail, mc_list_pop_head, mc_list_pop_tail

LEMMA InitIsSound == Init => TypeOK /\ WellLinked
<1> SUFFICES ASSUME Init PROVE TypeOK /\ WellLinked
  OBVIOUS
<1>1. \A l \in Lists : order[l] = <<>> /\ Len(order[l]) = 0
  BY EmptySeq DEF Init
<1>2. TypeOK
  BY EmptySeq DEF Init, TypeOK
<1>3. WellLinked
  BY <1>1 DEF Init, WellLinked, Linked, Chain, Separate
<1> QED BY <1>2, <1>3

\* For any number of lists and nodes, a program that pushes only nodes that are
\* in no list and removes only members, strangers to an empty list or nodes with
\* no predecessor never sees a list whose head, tail, count or links disagree.
THEOREM ListCorrect == Spec => [](TypeOK /\ WellLinked)
<1>1. Init => TypeOK /\ WellLinked
  BY InitIsSound
<1>2. TypeOK /\ WellLinked /\ [Next]_vars => (TypeOK /\ WellLinked)'
  BY StepSound, StepRet DEF Sound, TypeOK
<1> QED BY <1>1, <1>2, PTL DEF Spec

\* Heads, tails, links and what a pop returns are nodes or NULL, and no count
\* goes below zero (list.c:105-108).
COROLLARY ListTyped == Spec => []TypeOK
BY ListCorrect, PTL

-----------------------------------------------------------------------------
(* The walk                                                                *)

IsWalk(l, at) ==
    at = [k \in 1..(Cardinality(Nodes) + 1) |->
            IF k = 1 THEN head[l] ELSE mc_list_next(at[k - 1])]

LessThan == {p \in Nat \X Nat : p[1] < p[2]}

LEMMA LessWF == IsWellFoundedOn(LessThan, Nat)
<1>1. LessThan = OpToRel(<, Nat)
  BY Zenon DEF OpToRel, LessThan
<1> QED BY <1>1, NatLessThanWellFounded

\* Induction along a walk.
LEMMA ListInduction ==
    ASSUME NEW S, 0 \in S, \A n \in Nat : n \in S => n + 1 \in S
    PROVE  \A n \in Nat : n \in S
<1> SUFFICES ASSUME Nat \ S # {} PROVE FALSE
  OBVIOUS
<1> DEFINE T == Nat \ S
<1>1. PICK x \in T : \A y \in T : <<y, x>> \notin LessThan
  <2> HIDE DEF LessThan
  <2> QED BY LessWF, WFMin
<1>2. x \in Nat /\ x \notin S /\ x # 0
  OBVIOUS
<1>3. x - 1 \in Nat /\ (x - 1) + 1 = x
  BY <1>2
<1>4. x - 1 \in T
  BY <1>2, <1>3
<1>5. <<x - 1, x>> \in LessThan
  BY <1>2, <1>3 DEF LessThan
<1> QED BY <1>1, <1>4, <1>5

\* No list holds more nodes than there are.
LEMMA ListsFit ==
    ASSUME NEW s \in Seq(Nodes), Distinct(s)
    PROVE  /\ Cardinality(Nodes) \in Nat
           /\ Len(s) <= Cardinality(Nodes)
<1>1. Len(s) \in Nat /\ s \in [1..Len(s) -> Nodes]
  BY LenProperties
<1>2. s \in Injection(1..Len(s), Nodes)
  BY <1>1 DEF Injection, IsInjective, Distinct
<1>3. Cardinality(1..Len(s)) = Len(s)
  BY <1>1, FS_Interval
<1>4. Cardinality(Nodes) \in Nat
  BY NodesAssumption, FS_CardinalityType
<1> QED BY <1>2, <1>3, <1>4, NodesAssumption, FS_Injection

\* The walk visits the nodes of the list in order, and then stays at NULL.
LEMMA WalkIs ==
    ASSUME Sound, NEW l \in Lists
    PROVE  Walk(l) = [k \in 1..(Cardinality(Nodes) + 1) |->
                        IF k <= Len(order[l]) THEN order[l][k] ELSE NULL]
<1> DEFINE s == order[l]
           L == Len(s)
           C == Cardinality(Nodes)
           g == [k \in 1..(C + 1) |-> IF k <= L THEN s[k] ELSE NULL]
<1>1. /\ s \in Seq(Nodes) /\ L \in Nat /\ \A i \in 1..L : s[i] \in Nodes
      /\ Distinct(s) /\ Chain(s, head[l], tail[l], count[l], next, prev)
  BY SoundFacts
<1>2. C \in Nat /\ L <= C
  BY <1>1, ListsFit
<1>3. /\ head[l] = IF L = 0 THEN NULL ELSE s[1]
      /\ \A i \in 1..L : next[s[i]] = IF i = L THEN NULL ELSE s[i + 1]
      /\ \A i \in 1..L : s[i] # NULL
  BY <1>1, NullAssumption DEF Chain
<1> HIDE DEF s, C
<1>4. IsWalk(l, g)
  <2> SUFFICES ASSUME NEW k \in 1..(C + 1)
               PROVE  g[k] = IF k = 1 THEN head[l] ELSE mc_list_next(g[k - 1])
    BY DEF IsWalk, C
  <2>1. CASE k = 1
    BY <1>1, <1>2, <1>3, <2>1
  <2>2. CASE k # 1
    <3>1. k - 1 \in 1..(C + 1)
      BY <1>2, <2>2
    <3>2. CASE k - 1 <= L
      <4>1. k - 1 \in 1..L /\ g[k - 1] = s[k - 1]
        BY <1>1, <3>1, <3>2
      <4>2. mc_list_next(g[k - 1]) = IF k - 1 = L THEN NULL ELSE s[(k - 1) + 1]
        BY <1>3, <4>1 DEF mc_list_next
      <4> QED BY <1>1, <1>2, <2>2, <4>1, <4>2
    <3>3. CASE ~(k - 1 <= L)
      <4>1. g[k - 1] = NULL /\ g[k] = NULL
        BY <1>1, <1>2, <3>1, <3>3
      <4> QED BY <2>2, <4>1 DEF mc_list_next
    <3> QED BY <3>2, <3>3
  <2> QED BY <2>1, <2>2
<1>5. Walk(l) = CHOOSE at : IsWalk(l, at)
  BY DEF Walk, IsWalk
<1>6. IsWalk(l, Walk(l))
  BY <1>4, <1>5
<1>7. Walk(l) = g
  <2> DEFINE at == Walk(l)
             S == {n \in Nat : n \in 1..(C + 1) => at[n] = g[n]}
  <2>1. /\ DOMAIN at = 1..(C + 1) /\ at = [k \in 1..(C + 1) |-> at[k]]
        /\ \A k \in 1..(C + 1) :
             at[k] = IF k = 1 THEN head[l] ELSE mc_list_next(at[k - 1])
    BY <1>6 DEF IsWalk, C
  <2>2. \A k \in 1..(C + 1) :
             g[k] = IF k = 1 THEN head[l] ELSE mc_list_next(g[k - 1])
    BY <1>4 DEF IsWalk, C
  <2> HIDE DEF at, g
  <2>3. 0 \in S
    BY <1>2
  <2>4. ASSUME NEW n \in Nat, n \in S PROVE n + 1 \in S
    <3> SUFFICES ASSUME n + 1 \in 1..(C + 1) PROVE at[n + 1] = g[n + 1]
      OBVIOUS
    <3>1. CASE n = 0
      BY <2>1, <2>2, <3>1
    <3>2. CASE n # 0
      <4>1. n \in 1..(C + 1) /\ (n + 1) - 1 = n /\ n + 1 # 1
        BY <1>2, <3>2
      <4>2. at[n] = g[n]
        BY <2>4, <4>1
      <4>3. at[n + 1] = mc_list_next(at[n]) /\ g[n + 1] = mc_list_next(g[n])
        BY <2>1, <2>2, <4>1
      <4> QED BY <4>2, <4>3
    <3> QED BY <3>1, <3>2
  <2>5. \A n \in Nat : n \in S
    <3> HIDE DEF S
    <3> QED BY <2>3, <2>4, ListInduction
  <2>6. \A k \in 1..(C + 1) : at[k] = g[k]
    BY <1>2, <2>5
  <2> QED BY <2>1, <2>6 DEF at, g
<1> QED BY <1>7 DEF g, s, C

\* A reader of the memory finds the sequence that the callers built.
LEMMA ForwardIs ==
    ASSUME Sound, NEW l \in Lists
    PROVE  Forward(l) = order[l]
<1> DEFINE s == order[l]
           L == Len(s)
           C == Cardinality(Nodes)
           w == [k \in 1..(C + 1) |-> IF k <= L THEN s[k] ELSE NULL]
<1>1. s \in Seq(Nodes) /\ L \in Nat /\ \A i \in 1..L : s[i] \in Nodes
  BY SoundFacts
<1>2. C \in Nat /\ L <= C
  BY <1>1, SoundFacts, ListsFit
<1>3. Walk(l) = w
  BY WalkIs
<1> HIDE DEF s, C
<1>4. {k \in DOMAIN w : w[k] # NULL} = 1..L
  BY <1>1, <1>2, NullAssumption
<1>5. Cardinality(1..L) = L
  <2>1. 1 \in Int /\ L \in Int
    BY <1>1
  <2> HIDE DEF L
  <2>2. Cardinality(1..L) = IF 1 > L THEN 0 ELSE L - 1 + 1
    BY <2>1, FS_Interval
  <2> QED BY <1>1, <2>2
<1>6. \A i \in 1..L : w[i] = s[i]
  BY <1>1, <1>2
<1> HIDE DEF w
<1>7. /\ SubSeq(w, 1, L) \in Seq(Nodes) /\ Len(SubSeq(w, 1, L)) = L
      /\ \A i \in 1..L : SubSeq(w, 1, L)[i] = s[i]
  <2>1. \A i \in 1..L : w[i] \in Nodes
    BY <1>1, <1>6
  <2>2. /\ SubSeq(w, 1, L) \in Seq(Nodes)
        /\ Len(SubSeq(w, 1, L)) = IF 1 <= L THEN L - 1 + 1 ELSE 0
        /\ \A i \in 1..(L - 1 + 1) : SubSeq(w, 1, L)[i] = w[1 + i - 1]
    BY <1>1, <2>1, SubSeqProperties
  <2> QED BY <1>1, <1>6, <2>2
<1>8. SubSeq(w, 1, L) = s
  BY <1>1, <1>7, SeqEqual
<1> QED BY <1>3, <1>4, <1>5, <1>8 DEF Forward, s

-----------------------------------------------------------------------------
(* The calls as list.h promises them                                       *)

\* Closing the gap at either end of a sequence is dropping that end.
LEMMA RemoveEnds ==
    ASSUME NEW s \in Seq(Nodes), s # <<>>
    PROVE  /\ RemoveAt(s, 1) = Tail(s) /\ Head(s) = s[1]
           /\ RemoveAt(s, Len(s)) = Front(s) /\ Last(s) = s[Len(s)]
<1>1. Len(s) \in Nat /\ Len(s) >= 1 /\ \A i \in 1..Len(s) : s[i] \in Nodes
  BY LenProperties, EmptySeq, ElementOfSeq
<1>2. SubSeq(s, 1, 0) = <<>> /\ SubSeq(s, Len(s) + 1, Len(s)) = <<>>
  BY <1>1, SubSeqEmpty
<1>3. Tail(s) \in Seq(Nodes) /\ Tail(s) = SubSeq(s, 2, Len(s))
  BY HeadTailProperties, TailIsSubSeq
<1>4. Front(s) \in Seq(Nodes)
  BY <1>1, SubSeqProperties DEF Front
<1>5. RemoveAt(s, 1) = <<>> \o Tail(s)
  BY <1>2, <1>3 DEF RemoveAt
<1>6. RemoveAt(s, Len(s)) = Front(s) \o <<>>
  BY <1>2 DEF RemoveAt, Front
<1> QED BY <1>3, <1>4, <1>5, <1>6, ConcatEmptySeq DEF Last

LEMMA LooseIsFree ==
    ASSUME NEW n, Loose(n)
    PROVE  \A l \in Lists : n \notin ToSet(order[l])
BY DEF Loose, In, ToSet

\* What is read from the memory is what the callers asked for, before and after
\* a call.
SeenIsOrder == Seen = order

LEMMA SeenIs == Sound => SeenIsOrder
<1> SUFFICES ASSUME Sound PROVE Seen = order
  BY DEF SeenIsOrder
<1>1. order \in [Lists -> Seq(Nodes)]
  BY DEF Sound
<1>2. \A l \in Lists : Forward(l) = order[l]
  BY ForwardIs
<1> QED BY <1>1, <1>2 DEF Seen

LEMMA SeenIsNext == Sound' => SeenIsOrder'
BY SeenIs, PTL

\* So a call does to what is read what list.h says it does.
LEMMA StepIsPromised ==
    ASSUME Sound, Sound', Next
    PROVE  Abstract!Next
<1>1. Seen = order /\ Seen' = order'
  BY SeenIs, SeenIsNext DEF SeenIsOrder
<1>2. /\ order \in [Lists -> Seq(Nodes)]
      /\ \A l \in Lists : order[l] \in Seq(Nodes) /\ DOMAIN order[l] = 1..Len(order[l])
  BY SoundFacts DEF Sound
<1>3. PICK l \in Lists : \/ ReInit(l) \/ PopHead(l) \/ PopTail(l)
                         \/ \E n \in Nodes : \/ PushTail(l, n) \/ PushHead(l, n)
                                             \/ RemoveMember(l, n) \/ RemoveStranger(l, n)
  BY DEF Next
<1>4. CASE ReInit(l)
  <2>1. Abstract!Reset(l)
    BY <1>1, <1>4 DEF ReInit, Abstract!Reset
  <2> QED BY <2>1 DEF Abstract!Next
<1>5. CASE PopHead(l)
  <2>1. ret' = IF order[l] = <<>> THEN NULL ELSE Head(order[l])
    BY <1>2, <1>5, SoundFacts, EmptySeq, RemoveEnds DEF PopHead, mc_list_pop_head, Chain
  <2>2. order' = [order EXCEPT ![l] = IF @ = <<>> THEN @ ELSE Tail(@)]
    BY <1>2, <1>5, RemoveEnds DEF PopHead
  <2>3. Abstract!TakeFirst(l)
    BY <1>1, <2>1, <2>2 DEF Abstract!TakeFirst
  <2> QED BY <2>3 DEF Abstract!Next
<1>6. CASE PopTail(l)
  <2>1. ret' = IF order[l] = <<>> THEN NULL ELSE Last(order[l])
    BY <1>2, <1>6, SoundFacts, EmptySeq, RemoveEnds DEF PopTail, mc_list_pop_tail, Chain
  <2>2. order' = [order EXCEPT ![l] = IF @ = <<>> THEN @ ELSE Front(@)]
    BY <1>2, <1>6, RemoveEnds DEF PopTail
  <2>3. Abstract!TakeLast(l)
    BY <1>1, <2>1, <2>2 DEF Abstract!TakeLast, Abstract!Last, Last, Abstract!Front, Front
  <2> QED BY <2>3 DEF Abstract!Next
<1>7. ASSUME NEW n \in Nodes, PushTail(l, n) \/ PushHead(l, n)
      PROVE  Abstract!Next
  <2>1. n \in Abstract!Free
    BY <1>1, <1>7, LooseIsFree
    DEF Abstract!Free, Abstract!ToSet, ToSet, PushTail, PushHead
  <2>2. Abstract!PutLast(l, n) \/ Abstract!PutFirst(l, n)
    BY <1>1, <1>7, <2>1 DEF PushTail, PushHead, Abstract!PutLast, Abstract!PutFirst
  <2> QED BY <2>2 DEF Abstract!Next
<1>8. ASSUME NEW n \in Nodes, RemoveMember(l, n) \/ RemoveStranger(l, n)
      PROVE  Abstract!Next
  <2>1. CASE RemoveMember(l, n)
    <3>1. Pos(l, n) \in DOMAIN order[l] /\ order[l][Pos(l, n)] = n
      BY <1>2, <2>1, PosFacts DEF RemoveMember
    <3>2. order' = [order EXCEPT ![l] = RemoveAt(@, Pos(l, n))] /\ UNCHANGED ret
      BY <2>1 DEF RemoveMember
    <3>3. Abstract!TakeOut(l, n)
      BY <1>1, <3>1, <3>2 DEF Abstract!TakeOut, Abstract!RemoveAt, RemoveAt
    <3> QED BY <3>3 DEF Abstract!Next
  <2>2. CASE RemoveStranger(l, n)
    <3>1. n \notin ToSet(order[l]) /\ UNCHANGED <<order, ret>>
      BY <2>2 DEF RemoveStranger, In, ToSet
    <3>2. Abstract!TakeOut(l, n)
      BY <1>1, <3>1 DEF Abstract!TakeOut, Abstract!ToSet, ToSet
    <3> QED BY <3>2 DEF Abstract!Next
  <2> QED BY <1>8, <2>1, <2>2
<1> QED BY <1>3, <1>4, <1>5, <1>6, <1>7, <1>8

\* The lists, read link by link, are the sequences of list.h for any lists and
\* nodes: every call of list.c is the call of ListSpec, in what it does to them
\* and in what it returns.
THEOREM ListImplements == Spec => ImplementsSequences
<1>1. Init => Abstract!Init
  <2> SUFFICES ASSUME Init PROVE Abstract!Init
    OBVIOUS
  <2>1. Sound
    BY EmptySeq, InitIsSound DEF Sound, TypeOK
  <2> QED BY <2>1, SeenIs DEF SeenIsOrder, Init, Abstract!Init
<1>2. TypeOK /\ WellLinked /\ (TypeOK /\ WellLinked)' /\ [Next]_vars
        => [Abstract!Next]_(Abstract!specVars)
  <2> SUFFICES ASSUME TypeOK, WellLinked, (TypeOK /\ WellLinked)', [Next]_vars
               PROVE  [Abstract!Next]_(Abstract!specVars)
    OBVIOUS
  <2>1. Sound /\ Sound'
    BY DEF TypeOK, Sound
  <2>2. CASE Next
    BY <2>1, <2>2, StepIsPromised
  <2>3. CASE UNCHANGED vars
    BY <2>1, <2>3, SeenIs, SeenIsNext DEF SeenIsOrder, vars, Abstract!specVars
  <2> QED BY <2>2, <2>3
<1> QED BY <1>1, <1>2, ListCorrect, PTL DEF Spec, ImplementsSequences, Abstract!Spec

=============================================================================
