---------------------------- MODULE SystemProofs ----------------------------
(***************************************************************************)
(* For any tree of systems, on any devices, and any lines: an id that a    *)
(* system offers reaches a leaf that offers it, whatever is read-only; the *)
(* tree behaves as the flat table of its leaves' members.                  *)
(***************************************************************************)
EXTENDS Console, FiniteSetTheorems, SequenceTheorems, WellFoundedInduction, TLAPS

-----------------------------------------------------------------------------
(* Induction on the natural numbers, over sets                             *)

LessThan == {p \in Nat \X Nat : p[1] < p[2]}

LEMMA LessWF == IsWellFoundedOn(LessThan, Nat)
<1>1. LessThan = OpToRel(<, Nat)
  BY Zenon DEF OpToRel, LessThan
<1> QED BY <1>1, NatLessThanWellFounded

LEMMA NatLeast ==
    ASSUME NEW T, T \subseteq Nat, T # {}
    PROVE  \E x \in T : \A y \in T : x <= y
<1>1. PICK x \in T : \A y \in T : ~ (<<y, x>> \in LessThan)
  <2> HIDE DEF LessThan
  <2> QED BY LessWF, WFMin
<1>2. x \in Nat /\ \A y \in T : y \in Nat
  OBVIOUS
<1>3. ASSUME NEW y \in T PROVE x <= y
  <2>1. <<y, x>> \notin LessThan /\ <<y, x>> \in Nat \X Nat
    BY <1>1, <1>2
  <2>2. ~(<<y, x>>[1] < <<y, x>>[2])
    BY <2>1 DEF LessThan
  <2> QED BY <1>2, <2>2
<1> QED BY <1>3

LEMMA MinIsLeast ==
    ASSUME NEW T, T \subseteq Nat, T # {}
    PROVE  Min(T) \in T /\ \A y \in T : Min(T) <= y
<1>1. \E x \in T : \A y \in T : x <= y
  BY NatLeast
<1> QED BY <1>1 DEF Min

LEMMA Induction ==
    ASSUME NEW S, 0 \in S, \A n \in Nat : n \in S => n + 1 \in S
    PROVE  \A n \in Nat : n \in S
<1> SUFFICES ASSUME Nat \ S # {} PROVE FALSE
  OBVIOUS
<1>1. PICK x \in Nat \ S : \A y \in Nat \ S : x <= y
  BY NatLeast
<1>2. x # 0 /\ x - 1 \in Nat
  BY <1>1
<1>3. x - 1 \in S
  BY <1>1, <1>2
<1> QED BY <1>1, <1>2, <1>3

LEMMA FunctionIsSeq ==
    ASSUME NEW T, NEW L \in Nat, NEW f \in [1..L -> T]
    PROVE  f \in Seq(T) /\ Len(f) = L
<1>1. f = [i \in 1..L |-> f[i]] /\ \A i \in 1..L : f[i] \in T
  OBVIOUS
<1>2. [i \in 1..L |-> f[i]] \in Seq(T) /\ Len([i \in 1..L |-> f[i]]) = L
  BY <1>1
<1> QED BY <1>1, <1>2

\* What fits in a uint8_t.
LEMMA IdIsNat == \A id \in Ids : id \in Nat
BY DEF Ids, Byte

LEMMA Bytes ==
    /\ \A n \in Nat : n % Byte \in Ids /\ n % Byte <= n /\ (n < Byte => n % Byte = n)
    /\ \A n \in Ids, m \in Nat : m <= n => m \in Ids
<1>1. ASSUME NEW n \in Nat
      PROVE  n % Byte \in Ids /\ n % Byte <= n /\ (n < Byte => n % Byte = n)
  BY DEF Ids, Byte
<1>2. \A n \in Ids, m \in Nat : m <= n => m \in Ids
  BY DEF Ids, Byte
<1> QED BY <1>1, <1>2

LEMMA Below ==
    ASSUME NEW n \in Ids, NEW i \in 0..(n - 1)
    PROVE  i \in Ids /\ i < n
BY DEF Ids, Byte

-----------------------------------------------------------------------------
(* Sums of counts                                                          *)

IsSums(counts, sum) ==
    sum = [n \in 0..Len(counts) |-> IF n = 0 THEN 0 ELSE sum[n - 1] + counts[n]]

LEMMA SumsExist ==
    ASSUME NEW counts, Len(counts) \in Nat
    PROVE  \E sum : IsSums(counts, sum)
<1> DEFINE L == Len(counts)
           Upto(m, f) == \A n \in 0..L : n <= m =>
                            f[n] = IF n = 0 THEN 0 ELSE f[n - 1] + counts[n]
           S == {m \in Nat : \E f : Upto(m, f)}
<1>1. 0 \in S
  <2>1. Upto(0, [n \in 0..L |-> 0])
    OBVIOUS
  <2> QED BY <2>1
<1>2. ASSUME NEW m \in Nat, m \in S PROVE m + 1 \in S
  <2>1. PICK f : Upto(m, f)
    BY <1>2
  <2> DEFINE g == [n \in 0..L |-> IF n = m + 1 THEN f[m] + counts[m + 1] ELSE f[n]]
  <2>2. ASSUME NEW n \in 0..L, n <= m + 1
        PROVE  g[n] = IF n = 0 THEN 0 ELSE g[n - 1] + counts[n]
    <3>1. CASE n = m + 1
      BY <3>1
    <3>2. CASE n <= m
      BY <2>1, <3>2
    <3> QED BY <2>2, <3>1, <3>2
  <2> HIDE DEF g
  <2>3. Upto(m + 1, g)
    BY <2>2
  <2> QED BY <2>3
<1> HIDE DEF S
<1>3. L \in S
  BY <1>1, <1>2, Induction
<1>4. PICK f : Upto(L, f)
  BY <1>3 DEF S
<1> DEFINE g == [n \in 0..L |-> f[n]]
<1>5. IsSums(counts, g)
  <2>1. ASSUME NEW n \in 0..L PROVE g[n] = IF n = 0 THEN 0 ELSE g[n - 1] + counts[n]
    BY <1>4
  <2> HIDE DEF g
  <2>2. g = [n \in 0..L |-> g[n]]
    BY DEF g
  <2> QED BY <2>1, <2>2 DEF IsSums
<1> QED BY <1>5

\* Sums is the running sum.
LEMMA SumsStep ==
    ASSUME NEW counts, Len(counts) \in Nat
    PROVE  /\ Sums(counts)[0] = 0
           /\ \A n \in 1..Len(counts) : Sums(counts)[n] = Sums(counts)[n - 1] + counts[n]
<1>1. Sums(counts) = CHOOSE sum : IsSums(counts, sum)
  BY DEF Sums, IsSums
<1>2. IsSums(counts, Sums(counts))
  BY <1>1, SumsExist
<1> HIDE DEF Sums
<1> QED BY <1>2 DEF IsSums

\* Counts are never negative, so sums only grow.
LEMMA SumsGrow ==
    ASSUME NEW counts \in Seq(Nat)
    PROVE  /\ \A n \in 0..Len(counts) : Sums(counts)[n] \in Nat
           /\ \A m, n \in 0..Len(counts) : m <= n => Sums(counts)[m] <= Sums(counts)[n]
<1> DEFINE L == Len(counts)
           sum == Sums(counts)
           S == {n \in Nat : n <= L => \A m \in 0..n : sum[m] \in Nat /\ sum[m] <= sum[n]}
<1>0. /\ L \in Nat /\ \A n \in 1..L : counts[n] \in Nat
      /\ sum[0] = 0
      /\ \A n \in 1..L : sum[n] = sum[n - 1] + counts[n]
  BY SumsStep
<1> HIDE DEF L, sum
<1>1. 0 \in S
  BY <1>0
<1>2. ASSUME NEW n \in Nat, n \in S PROVE n + 1 \in S
  <2> SUFFICES ASSUME n + 1 <= L
               PROVE  \A m \in 0..(n + 1) : sum[m] \in Nat /\ sum[m] <= sum[n + 1]
    OBVIOUS
  <2>1. sum[n] \in Nat /\ \A m \in 0..n : sum[m] \in Nat /\ sum[m] <= sum[n]
    BY <1>0, <1>2
  <2>2. n + 1 \in 1..L
    BY <1>0
  <2>3. sum[n + 1] = sum[n] + counts[n + 1] /\ counts[n + 1] \in Nat
    BY <1>0, <2>2
  <2>4. sum[n + 1] \in Nat /\ sum[n] <= sum[n + 1]
    BY <2>1, <2>3
  <2>5. \A m \in 0..(n + 1) : m = n + 1 \/ m \in 0..n
    OBVIOUS
  <2> QED BY <2>1, <2>4, <2>5
<1> HIDE DEF S
<1>3. \A n \in Nat : n \in S
  BY <1>1, <1>2, Induction
<1>4. \A n \in 0..L : sum[n] \in Nat /\ \A m \in 0..n : sum[m] <= sum[n]
  BY <1>0, <1>3 DEF S
<1> QED BY <1>0, <1>4 DEF L, sum

LEMMA TotalIs ==
    ASSUME NEW counts \in Seq(Nat)
    PROVE  /\ Sums(counts)[Len(counts)] \in Nat
           /\ Total(counts) \in Ids /\ Total(counts) <= Sums(counts)[Len(counts)]
<1>1. Len(counts) \in 0..Len(counts)
  OBVIOUS
<1>2. Sums(counts)[Len(counts)] \in Nat
  BY <1>1, SumsGrow
<1> QED BY <1>2, Bytes DEF Total

\* The scan finds the child that an id falls in, and what the id is there.
LEMMA RouteFinds ==
    ASSUME NEW counts \in Seq(Nat), NEW c \in 1..Len(counts), NEW k \in Nat, k < counts[c]
    PROVE  Route(counts, Sums(counts)[c - 1] + k) = [child |-> c, id |-> k]
<1> DEFINE sum == Sums(counts)
           id == sum[c - 1] + k
           here == {i \in DOMAIN counts : id - sum[i - 1] < counts[i]}
<1>1. /\ Len(counts) \in Nat /\ DOMAIN counts = 1..Len(counts)
      /\ \A n \in 1..Len(counts) : counts[n] \in Nat
  OBVIOUS
<1>2. /\ \A n \in 1..Len(counts) : sum[n] = sum[n - 1] + counts[n]
      /\ \A n \in 0..Len(counts) : sum[n] \in Nat
      /\ \A m, n \in 0..Len(counts) : m <= n => sum[m] <= sum[n]
  BY SumsStep, SumsGrow, SMTT(30)
<1>3. here \subseteq 1..Len(counts) /\ here \subseteq Nat /\ c \in Nat
  BY <1>1
<1> HIDE DEF sum
<1>4. c \in here
  BY <1>1, <1>2, SMTT(30)
<1>5. Min(here) = c
  <2> SUFFICES ASSUME NEW i \in here, i < c PROVE FALSE
    <3> HIDE DEF here
    <3>1. Min(here) \in here /\ Min(here) <= c
      BY <1>3, <1>4, MinIsLeast
    <3>2. ~(Min(here) < c)
      BY <3>1
    <3>3. Min(here) \in Nat
      BY <1>3, <3>1
    <3> QED BY <1>3, <3>1, <3>2, <3>3
  <2>1. i \in 1..Len(counts) /\ id - sum[i - 1] < counts[i]
    BY <1>1
  <2>2. id < sum[i] /\ sum[i] \in Nat
    <3>1. c - 1 \in 0..Len(counts) /\ i - 1 \in 0..Len(counts) /\ i \in 0..Len(counts)
      BY <1>1, <2>1
    <3> HIDE DEF here
    <3>2. sum[c - 1] \in Nat /\ sum[i - 1] \in Nat /\ sum[i] \in Nat
      BY <1>2, <3>1
    <3>3. id \in Nat
      BY <3>2
    <3> HIDE DEF id
    <3>4. sum[i] = sum[i - 1] + counts[i] /\ counts[i] \in Nat
      BY <1>1, <1>2, <2>1
    <3> QED BY <2>1, <3>2, <3>3, <3>4
  <2>3. i <= c - 1 /\ i \in 0..Len(counts) /\ c - 1 \in 0..Len(counts)
    BY <1>1, <1>3, <2>1
  <2>4. sum[i] <= sum[c - 1] /\ sum[c - 1] \in Nat
    BY <1>2, <2>3
  <2> QED BY <2>2, <2>4
<1>6. id - sum[c - 1] = k
  BY <1>2, SMTT(30)
<1> QED BY <1>4, <1>5, <1>6 DEF Route, sum

\* What the scan finds is a child and an id that it offers; it finds one for
\* every id below the sum of the counts.
LEMMA RouteSound ==
    ASSUME NEW counts \in Seq(Nat), NEW id \in Nat
    PROVE  LET there == Route(counts, id)
           IN  /\ there.child # 0 =>
                    /\ there.child \in 1..Len(counts)
                    /\ there.id \in Nat /\ there.id < counts[there.child]
                    /\ id = Sums(counts)[there.child - 1] + there.id
               /\ id < Sums(counts)[Len(counts)] => there.child # 0
<1> DEFINE L == Len(counts)
           sum == Sums(counts)
           here == {i \in DOMAIN counts : id - sum[i - 1] < counts[i]}
           there == Route(counts, id)
<1>1. /\ L \in Nat /\ DOMAIN counts = 1..L
      /\ \A n \in 1..L : counts[n] \in Nat
  OBVIOUS
<1>2. /\ sum[0] = 0
      /\ \A n \in 1..L : sum[n] = sum[n - 1] + counts[n]
      /\ \A n \in 0..L : sum[n] \in Nat
  BY SumsStep, SumsGrow
<1>3. there = IF here = {} THEN [child |-> 0, id |-> 0]
              ELSE [child |-> Min(here), id |-> id - sum[Min(here) - 1]]
  BY DEF Route
<1> HIDE DEF L, sum, there
<1>4. CASE here = {}
  <2> DEFINE S == {n \in Nat : n <= L => sum[n] <= id}
  <2>1. 0 \in S
    BY <1>2
  <2>2. ASSUME NEW n \in Nat, n \in S PROVE n + 1 \in S
    <3> SUFFICES ASSUME n + 1 \in 1..L PROVE sum[n + 1] <= id
      BY <1>1
    <3>1. ~(id - sum[n] < counts[n + 1])
      <4>1. n + 1 \notin here /\ (n + 1) - 1 = n
        BY <1>4
      <4> QED BY <1>1, <4>1
    <3> QED BY <1>1, <1>2, <3>1
  <2> HIDE DEF S
  <2>3. L \in S
    BY <1>1, <2>1, <2>2, Induction
  <2>4. sum[L] <= id
    BY <1>1, <2>3 DEF S
  <2>5. ~(id < sum[L]) /\ there.child = 0
    BY <1>1, <1>2, <1>3, <1>4, <2>4
  <2> QED BY <2>5 DEF L, sum, there
<1>5. CASE here # {}
  <2>1. here \subseteq Nat /\ here \subseteq 1..L
    BY <1>1
  <2> DEFINE c == Min(here)
  <2>2. c \in here /\ \A i \in here : c <= i
    <3> HIDE DEF here
    <3> QED BY <1>5, <2>1, MinIsLeast
  <2>3. c \in 1..L /\ id - sum[c - 1] < counts[c]
    BY <1>1, <2>2
  <2> HIDE DEF here
  <2>4. there.child = c /\ there.id = id - sum[c - 1]
    BY <1>3, <1>5
  <2> DEFINE S == {n \in Nat : n < c => sum[n] <= id}
  <2> HIDE DEF c
  <2>5. 0 \in S
    BY <1>2
  <2>6. ASSUME NEW n \in Nat, n \in S PROVE n + 1 \in S
    <3> SUFFICES ASSUME n + 1 < c PROVE sum[n + 1] <= id
      OBVIOUS
    <3>1. n + 1 \in 1..L /\ n + 1 \notin here /\ (n + 1) - 1 = n
      BY <1>1, <2>2, <2>3 DEF c
    <3>2. ~(id - sum[n] < counts[n + 1])
      BY <1>1, <3>1 DEF here
    <3> QED BY <1>1, <1>2, <3>1, <3>2
  <2> HIDE DEF S
  <2>7. c - 1 \in S
    <3>1. c - 1 \in Nat
      BY <1>1, <2>3
    <3> QED BY <2>5, <2>6, <3>1, Induction
  <2>8. sum[c - 1] <= id /\ sum[c - 1] \in Nat
    BY <1>1, <1>2, <2>3, <2>7 DEF S
  <2>9. /\ there.child # 0 /\ there.child \in 1..L
        /\ there.id \in Nat /\ there.id < counts[there.child]
        /\ id = sum[there.child - 1] + there.id
    BY <1>1, <2>3, <2>4, <2>8
  <2> QED BY <2>9 DEF L, sum, there
<1> QED BY <1>4, <1>5

-----------------------------------------------------------------------------
(* The tree                                                                *)

LEMMA Depth ==
    \E depth \in [Systems -> Nat], N \in Nat :
             /\ \A s \in Systems : depth[s] < N
             /\ \A c \in Composites : \A i \in DOMAIN Kids[c] :
                  Kids[c][i] \in Systems /\ depth[Kids[c][i]] < depth[c]
<1>1. Cardinality(Composites) \in Nat
  BY FS_CardinalityType, CompositeAssumption
<1>2. PICK depth \in [Systems -> 0..Cardinality(Composites)] :
         \A c \in Composites : \A i \in DOMAIN Kids[c] : depth[Kids[c][i]] < depth[c]
  BY CompositeAssumption
<1>3. \A c \in Composites : \A i \in DOMAIN Kids[c] : Kids[c][i] \in Systems
  BY CompositeAssumption
<1>4. depth \in [Systems -> Nat] /\ \A s \in Systems : depth[s] < Cardinality(Composites) + 1
  BY <1>1, <1>2
<1> QED BY <1>1, <1>2, <1>3, <1>4

\* What holds of every leaf, and of a composite when it does of its children.
LEMMA TreeInduction ==
    ASSUME NEW S, Leaves \subseteq S,
           \A c \in Composites : (\A i \in DOMAIN Kids[c] : Kids[c][i] \in S) => c \in S
    PROVE  Systems \subseteq S
<1>1. PICK depth \in [Systems -> Nat], N \in Nat :
         /\ \A s \in Systems : depth[s] < N
         /\ \A c \in Composites : \A i \in DOMAIN Kids[c] :
              Kids[c][i] \in Systems /\ depth[Kids[c][i]] < depth[c]
  BY Depth
<1> DEFINE T == {m \in Nat : \A s \in Systems : depth[s] < m => s \in S}
<1>2. 0 \in T
  OBVIOUS
<1>3. ASSUME NEW m \in Nat, m \in T PROVE m + 1 \in T
  <2> SUFFICES ASSUME NEW s \in Systems, depth[s] < m + 1 PROVE s \in S
    OBVIOUS
  <2>1. CASE s \in Leaves
    BY <2>1
  <2>2. CASE s \in Composites
    <3>1. \A i \in DOMAIN Kids[s] : Kids[s][i] \in Systems /\ depth[Kids[s][i]] < m
      BY <1>1, <2>2
    <3> QED BY <1>3, <2>2, <3>1
  <2> QED BY <2>1, <2>2 DEF Systems
<1> HIDE DEF T
<1>4. N \in T
  BY <1>2, <1>3, Induction
<1> QED BY <1>1, <1>4 DEF T

CountOf(R, type, count, s) ==
    IF s \in Leaves THEN LeafCount(R, s, type)
    ELSE Total([i \in DOMAIN Kids[s] |-> count[Kids[s][i]]])

IsCount(R, type, count) == count = [s \in Systems |-> CountOf(R, type, count, s)]

LEMMA CountExists ==
    ASSUME NEW R, NEW type
    PROVE  \E count : IsCount(R, type, count)
<1>1. PICK depth \in [Systems -> Nat], N \in Nat :
         /\ \A s \in Systems : depth[s] < N
         /\ \A c \in Composites : \A i \in DOMAIN Kids[c] :
              Kids[c][i] \in Systems /\ depth[Kids[c][i]] < depth[c]
  BY Depth
<1>2. ASSUME NEW f, NEW g, NEW s \in Systems,
             s \in Composites => \A i \in DOMAIN Kids[s] : f[Kids[s][i]] = g[Kids[s][i]]
      PROVE  CountOf(R, type, f, s) = CountOf(R, type, g, s)
  <2>1. s \in Composites =>
          [i \in DOMAIN Kids[s] |-> f[Kids[s][i]]] = [i \in DOMAIN Kids[s] |-> g[Kids[s][i]]]
    BY <1>2
  <2> QED BY <2>1 DEF CountOf, Systems
<1> DEFINE Upto(m, f) == \A s \in Systems : depth[s] < m => f[s] = CountOf(R, type, f, s)
           S == {m \in Nat : \E f : Upto(m, f)}
<1>3. 0 \in S
  OBVIOUS
<1>4. ASSUME NEW m \in Nat, m \in S PROVE m + 1 \in S
  <2>1. PICK f : Upto(m, f)
    BY <1>4
  <2> DEFINE g == [s \in Systems |-> IF depth[s] = m THEN CountOf(R, type, f, s) ELSE f[s]]
  <2>2. ASSUME NEW s \in Systems, depth[s] < m + 1
        PROVE  g[s] = CountOf(R, type, g, s)
    <3>1. s \in Composites => \A i \in DOMAIN Kids[s] : f[Kids[s][i]] = g[Kids[s][i]]
      BY <1>1, <2>2
    <3>2. CountOf(R, type, f, s) = CountOf(R, type, g, s)
      <4> HIDE DEF g
      <4> QED BY <1>2, <3>1
    <3>3. g[s] = CountOf(R, type, f, s)
      BY <1>1, <2>1, <2>2
    <3> QED BY <3>2, <3>3
  <2> HIDE DEF g
  <2> QED BY <2>2
<1> HIDE DEF S
<1>5. N \in S
  BY <1>3, <1>4, Induction
<1>6. PICK f : Upto(N, f)
  BY <1>5 DEF S
<1> DEFINE g == [s \in Systems |-> f[s]]
<1>7. ASSUME NEW s \in Systems PROVE f[s] = CountOf(R, type, g, s)
  <2>1. s \in Composites => \A i \in DOMAIN Kids[s] : f[Kids[s][i]] = g[Kids[s][i]]
    BY <1>1
  <2>2. CountOf(R, type, f, s) = CountOf(R, type, g, s)
    <3> HIDE DEF g
    <3> QED BY <1>2, <2>1
  <2> QED BY <1>1, <1>6, <2>2
<1>8. IsCount(R, type, g)
  <2>1. \A s \in Systems : f[s] = CountOf(R, type, g, s)
    BY <1>7
  <2>2. [s \in Systems |-> f[s]] = [s \in Systems |-> CountOf(R, type, g, s)]
    <3> HIDE DEF g
    <3> QED BY <2>1
  <2> QED BY <2>2 DEF IsCount
<1> QED BY <1>8

\* A leaf offers what its driver counts, a composite what its children do.
LEMMA CountIs ==
    ASSUME NEW R \in Bits, NEW type \in Members, NEW s \in Systems
    PROVE  Count[R][type][s] = IF s \in Leaves THEN LeafCount(R, s, type)
                               ELSE Total(KidCounts(R, type, s))
<1> DEFINE count == CHOOSE count : IsCount(R, type, count)
<1>1. Count[R][type] = [t \in Systems |-> count[t]]
  BY DEF Count, IsCount, CountOf
<1>2. IsCount(R, type, count)
  BY CountExists
<1> HIDE DEF count
<1>3. count = [t \in Systems |-> CountOf(R, type, count, t)]
  BY <1>2 DEF IsCount
<1>4. Count[R][type] = count
  BY <1>1, <1>3
<1>5. count[s] = CountOf(R, type, count, s)
  BY <1>3
<1> QED BY <1>4, <1>5 DEF CountOf, KidCounts

LEMMA LeafCounts ==
    ASSUME NEW R \in Bits, NEW type \in Members, NEW s
    PROVE  LeafCount(R, s, type) \in 0..5
BY DEF LeafCount, digital_sys_count, analog_sys_count, Members, Types

LEMMA KidsOf ==
    ASSUME NEW c \in Composites
    PROVE  /\ Len(Kids[c]) \in Nat /\ DOMAIN Kids[c] = 1..Len(Kids[c])
           /\ \A i \in 1..Len(Kids[c]) : Kids[c][i] \in Systems
<1>1. Kids[c] \in Seq(Systems)
  BY CompositeAssumption
<1> QED BY <1>1

LEMMA CountIsByte ==
    ASSUME NEW R \in Bits, NEW type \in Members
    PROVE  \A s \in Systems : Count[R][type][s] \in Ids
<1> DEFINE S == {s \in Systems : Count[R][type][s] \in Ids}
<1>1. Leaves \subseteq S
  <2> SUFFICES ASSUME NEW s \in Leaves PROVE s \in Systems /\ Count[R][type][s] \in Ids
    OBVIOUS
  <2>1. s \in Systems
    BY DEF Systems
  <2>2. Count[R][type][s] \in 0..5
    BY <2>1, CountIs, LeafCounts
  <2> QED BY <2>1, <2>2 DEF Ids, Byte
<1>2. ASSUME NEW c \in Composites, \A i \in DOMAIN Kids[c] : Kids[c][i] \in S
      PROVE  c \in S
  <2> DEFINE counts == KidCounts(R, type, c)
  <2>1. \A i \in DOMAIN Kids[c] : Count[R][type][Kids[c][i]] \in Nat
    BY <1>2, IdIsNat
  <2>2. counts \in [1..Len(Kids[c]) -> Nat]
    BY <2>1, KidsOf DEF KidCounts
  <2>3. c \in Systems /\ c \notin Leaves
    BY CompositeAssumption DEF Systems
  <2>4. Count[R][type][c] = Total(counts)
    BY <2>3, CountIs
  <2> HIDE DEF counts
  <2>5. counts \in Seq(Nat)
    BY <2>2, KidsOf, FunctionIsSeq
  <2> QED BY <2>3, <2>4, <2>5, TotalIs
<1> HIDE DEF S
<1>3. Systems \subseteq S
  BY <1>1, <1>2, TreeInduction
<1> QED BY <1>3 DEF S

\* The counts of the children of a composite.
LEMMA KidCountsAre ==
    ASSUME NEW R \in Bits, NEW type \in Members, NEW c \in Composites
    PROVE  /\ KidCounts(R, type, c) \in Seq(Nat)
           /\ Len(KidCounts(R, type, c)) = Len(Kids[c])
           /\ \A i \in 1..Len(Kids[c]) :
                KidCounts(R, type, c)[i] = Count[R][type][Kids[c][i]]
           /\ Count[R][type][c] = Total(KidCounts(R, type, c))
<1>1. \A i \in DOMAIN Kids[c] : Count[R][type][Kids[c][i]] \in Nat
  BY CountIsByte, KidsOf, IdIsNat
<1>2. KidCounts(R, type, c) \in [1..Len(Kids[c]) -> Nat]
  BY <1>1, KidsOf DEF KidCounts
<1>3. c \in Systems /\ c \notin Leaves
  BY CompositeAssumption DEF Systems
<1>4. Count[R][type][c] = Total(KidCounts(R, type, c))
  BY <1>3, CountIs
<1>5. \A i \in 1..Len(Kids[c]) : KidCounts(R, type, c)[i] = Count[R][type][Kids[c][i]]
  BY KidsOf DEF KidCounts
<1> QED BY <1>2, <1>4, <1>5, KidsOf, FunctionIsSeq

-----------------------------------------------------------------------------
(* Who answers to an id                                                    *)

DispatchOf(R, type, to, s) ==
    [id \in Ids |->
       IF s \in Leaves THEN [system |-> s, id |-> id]
       ELSE LET there == Route(KidCounts(R, type, s), id)
            IN  IF there.child = 0 THEN None
                ELSE to[Kids[s][there.child]][there.id]]

IsDispatch(R, type, to) == to = [s \in Systems |-> DispatchOf(R, type, to, s)]

\* The child that the scan finds is one of the children.
LEMMA RouteChild ==
    ASSUME NEW R \in Bits, NEW type \in Members, NEW c \in Composites,
           NEW id \in Ids, Route(KidCounts(R, type, c), id).child # 0
    PROVE  Route(KidCounts(R, type, c), id).child \in DOMAIN Kids[c]
<1> DEFINE counts == KidCounts(R, type, c)
<1>1. id \in Nat /\ counts \in Seq(Nat) /\ Len(counts) = Len(Kids[c])
  BY IdIsNat, KidCountsAre
<1> HIDE DEF counts
<1>2. Route(counts, id).child # 0 => Route(counts, id).child \in 1..Len(counts)
  BY <1>1, RouteSound
<1> QED BY <1>1, <1>2, KidsOf DEF counts

LEMMA DispatchExists ==
    ASSUME NEW R \in Bits, NEW type \in Members
    PROVE  \E to : IsDispatch(R, type, to)
<1>1. PICK depth \in [Systems -> Nat], N \in Nat :
         /\ \A s \in Systems : depth[s] < N
         /\ \A c \in Composites : \A i \in DOMAIN Kids[c] :
              Kids[c][i] \in Systems /\ depth[Kids[c][i]] < depth[c]
  BY Depth
<1>2. ASSUME NEW f, NEW g, NEW s \in Systems,
             s \in Composites => \A i \in DOMAIN Kids[s] : f[Kids[s][i]] = g[Kids[s][i]]
      PROVE  DispatchOf(R, type, f, s) = DispatchOf(R, type, g, s)
  <2>1. ASSUME NEW id \in Ids, s \notin Leaves,
               Route(KidCounts(R, type, s), id).child # 0
        PROVE  f[Kids[s][Route(KidCounts(R, type, s), id).child]] =
               g[Kids[s][Route(KidCounts(R, type, s), id).child]]
    BY <1>2, <2>1, RouteChild DEF Systems
  <2> QED BY <2>1 DEF DispatchOf
<1> DEFINE Upto(m, f) == \A s \in Systems : depth[s] < m => f[s] = DispatchOf(R, type, f, s)
           S == {m \in Nat : \E f : Upto(m, f)}
<1>3. 0 \in S
  OBVIOUS
<1>4. ASSUME NEW m \in Nat, m \in S PROVE m + 1 \in S
  <2>1. PICK f : Upto(m, f)
    BY <1>4
  <2> DEFINE g == [s \in Systems |-> IF depth[s] = m THEN DispatchOf(R, type, f, s) ELSE f[s]]
  <2>2. ASSUME NEW s \in Systems, depth[s] < m + 1
        PROVE  g[s] = DispatchOf(R, type, g, s)
    <3>1. s \in Composites => \A i \in DOMAIN Kids[s] : f[Kids[s][i]] = g[Kids[s][i]]
      BY <1>1, <2>2
    <3>2. DispatchOf(R, type, f, s) = DispatchOf(R, type, g, s)
      <4> HIDE DEF g
      <4> QED BY <1>2, <3>1
    <3>3. g[s] = DispatchOf(R, type, f, s)
      BY <1>1, <2>1, <2>2
    <3> QED BY <3>2, <3>3
  <2> HIDE DEF g
  <2> QED BY <2>2
<1> HIDE DEF S
<1>5. N \in S
  BY <1>3, <1>4, Induction
<1>6. PICK f : Upto(N, f)
  BY <1>5 DEF S
<1> DEFINE g == [s \in Systems |-> f[s]]
<1>7. ASSUME NEW s \in Systems PROVE f[s] = DispatchOf(R, type, g, s)
  <2>1. s \in Composites => \A i \in DOMAIN Kids[s] : f[Kids[s][i]] = g[Kids[s][i]]
    BY <1>1
  <2>2. DispatchOf(R, type, f, s) = DispatchOf(R, type, g, s)
    <3> HIDE DEF g
    <3> QED BY <1>2, <2>1
  <2> QED BY <1>1, <1>6, <2>2
<1>8. IsDispatch(R, type, g)
  <2>1. [s \in Systems |-> f[s]] = [s \in Systems |-> DispatchOf(R, type, g, s)]
    <3> HIDE DEF g
    <3> QED BY <1>7
  <2> QED BY <2>1 DEF IsDispatch
<1> QED BY <1>8

\* A leaf answers to every id, a composite passes the id on.
LEMMA DispatchIs ==
    ASSUME NEW R \in Bits, NEW type \in Members, NEW s \in Systems
    PROVE  Dispatch[R][type][s] = DispatchOf(R, type, Dispatch[R][type], s)
<1> DEFINE to == CHOOSE to : IsDispatch(R, type, to)
<1>1. Dispatch[R][type] = [t \in Systems |-> [n \in Ids |-> to[t][n]]]
  BY DEF Dispatch, IsDispatch, DispatchOf
<1>2. IsDispatch(R, type, to)
  BY DispatchExists
<1> HIDE DEF to
<1>3. to = [t \in Systems |-> DispatchOf(R, type, to, t)]
  BY <1>2 DEF IsDispatch
<1>4. Dispatch[R][type] = to
  <2>1. \A t \in Systems : to[t] = [n \in Ids |-> to[t][n]]
    BY <1>3 DEF DispatchOf
  <2>2. to = [t \in Systems |-> to[t]]
    BY <1>3
  <2> QED BY <1>1, <2>1, <2>2
<1> QED BY <1>3, <1>4

LEMMA DispatchLeaf ==
    ASSUME NEW R \in Bits, NEW type \in Members, NEW s \in Leaves,
           NEW id \in Ids
    PROVE  /\ s \in Systems /\ Count[R][type][s] = LeafCount(R, s, type)
           /\ Dispatch[R][type][s][id] = [system |-> s, id |-> id]
<1>1. s \in Systems
  BY DEF Systems
<1>2. Dispatch[R][type][s] = DispatchOf(R, type, Dispatch[R][type], s)
  BY <1>1, DispatchIs
<1> QED BY <1>1, <1>2, CountIs DEF DispatchOf

LEMMA DispatchKid ==
    ASSUME NEW R \in Bits, NEW type \in Members, NEW c \in Composites,
           NEW id \in Ids, NEW there, there = Route(KidCounts(R, type, c), id),
           there.child # 0
    PROVE  Dispatch[R][type][c][id] = Dispatch[R][type][Kids[c][there.child]][there.id]
<1>1. c \in Systems /\ c \notin Leaves
  BY CompositeAssumption DEF Systems
<1>2. Dispatch[R][type][c] = DispatchOf(R, type, Dispatch[R][type], c)
  BY <1>1, DispatchIs
<1> QED BY <1>1, <1>2 DEF DispatchOf

\* A child takes the ids that the composite offers.
LEMMA OfferedByChild ==
    ASSUME NEW R \in Bits, NEW type \in Members, NEW c \in Composites,
           NEW id \in Ids, id < Count[R][type][c]
    PROVE  LET there == Route(KidCounts(R, type, c), id)
           IN  /\ there.child # 0 /\ there.child \in DOMAIN Kids[c]
               /\ there.child \in 1..Len(Kids[c])
               /\ Kids[c][there.child] \in Systems
               /\ there.id \in Ids /\ there.id < Count[R][type][Kids[c][there.child]]
               /\ id = Sums(KidCounts(R, type, c))[there.child - 1] + there.id
<1> DEFINE counts == KidCounts(R, type, c)
           there == Route(counts, id)
           total == Sums(counts)[Len(counts)]
<1>1. /\ counts \in Seq(Nat) /\ Len(counts) = Len(Kids[c])
      /\ \A i \in 1..Len(Kids[c]) : counts[i] = Count[R][type][Kids[c][i]]
      /\ id < Total(counts)
  <2>1. Count[R][type][c] = Total(counts)
    BY KidCountsAre
  <2> QED BY <2>1, KidCountsAre
<1> HIDE DEF counts
<1>2. /\ total \in Nat /\ Total(counts) \in Nat /\ Total(counts) <= total
      /\ id \in Nat
  BY <1>1, TotalIs, IdIsNat
<1>3. id < total
  <2> HIDE DEF total
  <2> QED BY <1>1, <1>2
<1>4. /\ there.child # 0 /\ there.child \in 1..Len(counts)
      /\ there.id \in Nat /\ there.id < counts[there.child]
      /\ id = Sums(counts)[there.child - 1] + there.id
  BY <1>1, <1>2, <1>3, RouteSound
<1> HIDE DEF there
<1>5. /\ there.child \in DOMAIN Kids[c] /\ there.child \in 1..Len(Kids[c])
      /\ Kids[c][there.child] \in Systems
      /\ counts[there.child] = Count[R][type][Kids[c][there.child]]
  BY <1>1, <1>4, KidsOf
<1>6. counts[there.child] \in Ids
  BY <1>5, CountIsByte
<1>7. there.id \in Ids
  <2>1. counts[there.child] \in Nat
    BY <1>6, IdIsNat
  <2>2. there.id <= counts[there.child]
    BY <1>4, <2>1
  <2> QED BY <1>4, <1>6, <2>2, Bytes
<1> QED BY <1>4, <1>5, <1>7 DEF there, counts

\* A leaf, and a member of it that it offers.
Member(R, type, to) ==
    /\ to.system \in Leaves
    /\ to.id \in Nat /\ to.id < LeafCount(R, to.system, type)
    /\ to # None

\* An id that a system offers reaches a leaf of it, which offers what the id
\* has become there.
LEMMA OfferedIsReached ==
    ASSUME NEW R \in Bits, NEW type \in Members
    PROVE  \A s \in Systems : \A id \in Ids :
             id < Count[R][type][s] => Member(R, type, Dispatch[R][type][s][id])
<1> DEFINE S == {s \in Systems : \A id \in Ids :
                   id < Count[R][type][s] => Member(R, type, Dispatch[R][type][s][id])}
<1>1. Leaves \subseteq S
  <2> SUFFICES ASSUME NEW s \in Leaves, NEW id \in Ids, id < Count[R][type][s]
               PROVE  Member(R, type, Dispatch[R][type][s][id])
    BY DEF Systems
  <2>2. Dispatch[R][type][s][id] = [system |-> s, id |-> id]
    BY DispatchLeaf
  <2>3. id < LeafCount(R, s, type) /\ id \in Nat
    BY DispatchLeaf, IdIsNat
  <2>4. s # Nobody
    BY LeavesAssumption
  <2> QED BY <2>2, <2>3, <2>4 DEF Member, None
<1>2. ASSUME NEW c \in Composites, \A i \in DOMAIN Kids[c] : Kids[c][i] \in S
      PROVE  c \in S
  <2>1. c \in Systems /\ c \notin Leaves
    BY CompositeAssumption DEF Systems
  <2> SUFFICES ASSUME NEW id \in Ids, id < Count[R][type][c]
               PROVE  Member(R, type, Dispatch[R][type][c][id])
    BY <2>1
  <2> DEFINE there == Route(KidCounts(R, type, c), id)
  <2>3. /\ there.child # 0 /\ there.child \in DOMAIN Kids[c]
        /\ there.id \in Ids /\ there.id < Count[R][type][Kids[c][there.child]]
    BY OfferedByChild
  <2>2. Dispatch[R][type][c][id] = Dispatch[R][type][Kids[c][there.child]][there.id]
    BY <2>3, DispatchKid
  <2> HIDE DEF there
  <2>4. Member(R, type, Dispatch[R][type][Kids[c][there.child]][there.id])
    BY <1>2, <2>3
  <2> QED BY <2>2, <2>3, <2>4
<1> HIDE DEF S
<1>3. Systems \subseteq S
  BY <1>1, <1>2, TreeInduction
<1> QED BY <1>3 DEF S

-----------------------------------------------------------------------------
(* Aliases                                                                 *)

AliasOf(R, alias, s) ==
    [id \in Ids |->
       IF s \in Leaves
       THEN IF id < LeafCount(R, s, "alias") THEN leaf_get_alias(s, id)
            ELSE Info("none", {})
       ELSE LET there == Route(KidCounts(R, "alias", s), id)
                info == alias[Kids[s][there.child]][there.id]
            IN  IF there.child = 0 THEN Info("none", {})
                ELSE [info EXCEPT !.id = (@ + Offset(R, info.type, s, there.child)) % Byte]]

IsAlias(R, alias) == alias = [s \in Systems |-> AliasOf(R, alias, s)]

LEMMA AliasExists ==
    ASSUME NEW R \in Bits
    PROVE  \E alias : IsAlias(R, alias)
<1>1. PICK depth \in [Systems -> Nat], N \in Nat :
         /\ \A s \in Systems : depth[s] < N
         /\ \A c \in Composites : \A i \in DOMAIN Kids[c] :
              Kids[c][i] \in Systems /\ depth[Kids[c][i]] < depth[c]
  BY Depth
<1>2. ASSUME NEW f, NEW g, NEW s \in Systems,
             s \in Composites => \A i \in DOMAIN Kids[s] : f[Kids[s][i]] = g[Kids[s][i]]
      PROVE  AliasOf(R, f, s) = AliasOf(R, g, s)
  <2>1. ASSUME NEW id \in Ids, s \notin Leaves,
               Route(KidCounts(R, "alias", s), id).child # 0
        PROVE  f[Kids[s][Route(KidCounts(R, "alias", s), id).child]] =
               g[Kids[s][Route(KidCounts(R, "alias", s), id).child]]
    BY <1>2, <2>1, RouteChild DEF Systems, Members
  <2> QED BY <2>1 DEF AliasOf
<1> DEFINE Upto(m, f) == \A s \in Systems : depth[s] < m => f[s] = AliasOf(R, f, s)
           S == {m \in Nat : \E f : Upto(m, f)}
<1>3. 0 \in S
  OBVIOUS
<1>4. ASSUME NEW m \in Nat, m \in S PROVE m + 1 \in S
  <2>1. PICK f : Upto(m, f)
    BY <1>4
  <2> DEFINE g == [s \in Systems |-> IF depth[s] = m THEN AliasOf(R, f, s) ELSE f[s]]
  <2>2. ASSUME NEW s \in Systems, depth[s] < m + 1
        PROVE  g[s] = AliasOf(R, g, s)
    <3>1. s \in Composites => \A i \in DOMAIN Kids[s] : f[Kids[s][i]] = g[Kids[s][i]]
      BY <1>1, <2>2
    <3>2. AliasOf(R, f, s) = AliasOf(R, g, s)
      <4> HIDE DEF g
      <4> QED BY <1>2, <3>1
    <3>3. g[s] = AliasOf(R, f, s)
      BY <1>1, <2>1, <2>2
    <3> QED BY <3>2, <3>3
  <2> HIDE DEF g
  <2> QED BY <2>2
<1> HIDE DEF S
<1>5. N \in S
  BY <1>3, <1>4, Induction
<1>6. PICK f : Upto(N, f)
  BY <1>5 DEF S
<1> DEFINE g == [s \in Systems |-> f[s]]
<1>7. ASSUME NEW s \in Systems PROVE f[s] = AliasOf(R, g, s)
  <2>1. s \in Composites => \A i \in DOMAIN Kids[s] : f[Kids[s][i]] = g[Kids[s][i]]
    BY <1>1
  <2>2. AliasOf(R, f, s) = AliasOf(R, g, s)
    <3> HIDE DEF g
    <3> QED BY <1>2, <2>1
  <2> QED BY <1>1, <1>6, <2>2
<1>8. IsAlias(R, g)
  <2>1. [s \in Systems |-> f[s]] = [s \in Systems |-> AliasOf(R, g, s)]
    <3> HIDE DEF g
    <3> QED BY <1>7
  <2> QED BY <2>1 DEF IsAlias
<1> QED BY <1>8

LEMMA AliasIs ==
    ASSUME NEW R \in Bits, NEW s \in Systems
    PROVE  mc_composite_get_alias[R][s] = AliasOf(R, mc_composite_get_alias[R], s)
<1> DEFINE alias == CHOOSE alias : IsAlias(R, alias)
<1>1. mc_composite_get_alias[R] = [t \in Systems |-> [n \in Ids |-> alias[t][n]]]
  BY DEF mc_composite_get_alias, IsAlias, AliasOf
<1>2. IsAlias(R, alias)
  BY AliasExists
<1> HIDE DEF alias
<1>3. alias = [t \in Systems |-> AliasOf(R, alias, t)]
  BY <1>2 DEF IsAlias
<1>4. mc_composite_get_alias[R] = alias
  <2>1. \A t \in Systems : alias[t] = [n \in Ids |-> alias[t][n]]
    BY <1>3 DEF AliasOf
  <2>2. alias = [t \in Systems |-> alias[t]]
    BY <1>3
  <2> QED BY <1>1, <2>1, <2>2
<1> QED BY <1>3, <1>4

\* What an alias may stand for.
Infos == [type : Types, id : Ids, preset : {{}, {0}, {1}}]

\* The aliases of a leaf are of members that it offers, which have local id 0.
LEMMA AliasLeaf ==
    ASSUME NEW R \in Bits, NEW s \in Leaves, NEW id \in Ids, id < Count[R]["alias"][s]
    PROVE  LET info == mc_composite_get_alias[R][s][id]
           IN  /\ info \in Infos /\ info.id = 0
               /\ 0 < Count[R][info.type][s]
<1>1. /\ s \in Systems /\ Count[R]["alias"][s] = LeafCount(R, s, "alias")
      /\ \A type \in Types : Count[R][type][s] = LeafCount(R, s, type)
  BY DispatchLeaf DEF Members, Types
<1>2. mc_composite_get_alias[R][s] = AliasOf(R, mc_composite_get_alias[R], s)
  BY <1>1, AliasIs
<1>3. mc_composite_get_alias[R][s][id] = leaf_get_alias(s, id)
  BY <1>1, <1>2 DEF AliasOf
<1> DEFINE info == leaf_get_alias(s, id)
<1>4. /\ info \in [type : Types, id : {0}, preset : {{}, {0}, {1}}]
      /\ 0 < LeafCount(R, s, info.type)
  <2>1. id \in Nat /\ id < LeafCount(R, s, "alias")
    BY <1>1, IdIsNat
  <2>2. CASE s \in DigitalSystems /\ ~R[Context(Device[s])]
    <3>1. id \in 0..4
      BY <2>1, <2>2 DEF LeafCount, digital_sys_count
    <3>2. id = 0 \/ id = 1 \/ id = 2 \/ id = 3 \/ id = 4
      BY <3>1
    <3>3. LeafCount(R, s, "f") = 1 /\ LeafCount(R, s, "x") = 1 /\ LeafCount(R, s, "y") = 1
      BY <2>2 DEF LeafCount, digital_sys_count
    <3>4. info = digital_sys_get_alias(id)
      BY <2>2 DEF leaf_get_alias
    <3>5. /\ info = Info("y", {}) \/ info = Info("x", {}) \/ info = Info("x", {1})
             \/ info = Info("x", {0}) \/ info = Info("f", {})
      BY <3>2, <3>4 DEF digital_sys_get_alias
    <3> HIDE DEF info
    <3> QED BY <3>3, <3>5 DEF Info, Types
  <2>3. CASE s \notin DigitalSystems /\ ~R[Context(Device[s])]
    <3>1. id \in 0..1
      BY <2>1, <2>3 DEF LeafCount, analog_sys_count
    <3>2. id = 0 \/ id = 1
      BY <3>1
    <3>3. LeafCount(R, s, "x") = 1 /\ LeafCount(R, s, "y") = 1
      BY <2>3 DEF LeafCount, analog_sys_count
    <3>4. info = analog_sys_get_alias(id)
      BY <2>3 DEF leaf_get_alias
    <3>5. info = Info("y", {}) \/ info = Info("x", {})
      BY <3>2, <3>4 DEF analog_sys_get_alias
    <3> HIDE DEF info
    <3> QED BY <3>3, <3>5 DEF Info, Types
  <2>4. CASE R[Context(Device[s])]
    <3>1. id = 0 /\ LeafCount(R, s, "y") = 1
      BY <2>1, <2>4 DEF LeafCount, analog_sys_count, digital_sys_count
    <3>2. info = Info("y", {})
      BY <3>1 DEF leaf_get_alias, digital_sys_get_alias, analog_sys_get_alias
    <3> HIDE DEF info
    <3> QED BY <3>1, <3>2 DEF Info, Types
  <2> QED BY <2>2, <2>3, <2>4
<1> HIDE DEF info
<1>5. 0 \in Ids
  BY DEF Ids, Byte
<1> QED BY <1>1, <1>3, <1>4, <1>5 DEF Infos, info

LEMMA AliasKid ==
    ASSUME NEW R \in Bits, NEW c \in Composites, NEW id \in Ids
    PROVE  LET there == Route(KidCounts(R, "alias", c), id)
               info == mc_composite_get_alias[R][Kids[c][there.child]][there.id]
               alias == mc_composite_get_alias[R][c][id]
           IN  there.child # 0 /\ info \in Infos =>
                 /\ alias.type = info.type /\ alias.preset = info.preset
                 /\ alias.id = (info.id + Offset(R, info.type, c, there.child)) % Byte
                 /\ alias = [type |-> alias.type, id |-> alias.id, preset |-> alias.preset]
<1> DEFINE there == Route(KidCounts(R, "alias", c), id)
           info == mc_composite_get_alias[R][Kids[c][there.child]][there.id]
<1>1. c \in Systems /\ c \notin Leaves
  BY CompositeAssumption DEF Systems
<1>2. mc_composite_get_alias[R][c] = AliasOf(R, mc_composite_get_alias[R], c)
  BY <1>1, AliasIs
<1>3. there.child # 0 =>
        mc_composite_get_alias[R][c][id] =
          [info EXCEPT !.id = (@ + Offset(R, info.type, c, there.child)) % Byte]
  BY <1>1, <1>2 DEF AliasOf
<1>4. ASSUME there.child # 0, info \in Infos
      PROVE  mc_composite_get_alias[R][c][id] =
               [type |-> info.type, preset |-> info.preset,
                id |-> (info.id + Offset(R, info.type, c, there.child)) % Byte]
  <2> HIDE DEF info, there
  <2> QED BY <1>3, <1>4 DEF Infos
<1> HIDE DEF info
<1>5. ASSUME there.child # 0, info \in Infos
      PROVE  LET alias == mc_composite_get_alias[R][c][id]
             IN  /\ alias.type = info.type /\ alias.preset = info.preset
                 /\ alias.id = (info.id + Offset(R, info.type, c, there.child)) % Byte
                 /\ alias = [type |-> alias.type, id |-> alias.id, preset |-> alias.preset]
  BY <1>4, <1>5
<1> QED BY <1>5 DEF info

\* Whatever the tree, an alias is of a function, an input or an output.
LEMMA AliasTyped ==
    ASSUME NEW R \in Bits
    PROVE  \A s \in Systems : \A id \in Ids :
             id < Count[R]["alias"][s] => mc_composite_get_alias[R][s][id] \in Infos
<1> DEFINE S == {s \in Systems : \A id \in Ids :
                   id < Count[R]["alias"][s] => mc_composite_get_alias[R][s][id] \in Infos}
<1>1. Leaves \subseteq S
  BY AliasLeaf DEF Systems
<1>2. ASSUME NEW c \in Composites, \A i \in DOMAIN Kids[c] : Kids[c][i] \in S
      PROVE  c \in S
  <2>1. c \in Systems
    BY DEF Systems
  <2> SUFFICES ASSUME NEW id \in Ids, id < Count[R]["alias"][c]
               PROVE  mc_composite_get_alias[R][c][id] \in Infos
    BY <2>1
  <2> DEFINE there == Route(KidCounts(R, "alias", c), id)
             kid == Kids[c][there.child]
             info == mc_composite_get_alias[R][kid][there.id]
  <2>2. /\ there.child # 0 /\ there.child \in DOMAIN Kids[c]
        /\ there.child \in 1..Len(Kids[c])
        /\ there.id \in Ids /\ there.id < Count[R]["alias"][kid]
    BY OfferedByChild DEF Members
  <2>3. info \in Infos
    <3> HIDE DEF there
    <3> QED BY <1>2, <2>2
  <2> DEFINE offset == Offset(R, info.type, c, there.child)
             alias == mc_composite_get_alias[R][c][id]
  <2>4. /\ alias.type = info.type /\ alias.preset = info.preset
        /\ alias.id = (info.id + offset) % Byte
        /\ alias = [type |-> alias.type, id |-> alias.id, preset |-> alias.preset]
    BY <2>2, <2>3, AliasKid
  <2>5. offset \in Nat
    <3> DEFINE counts == KidCounts(R, info.type, c)
    <3>1. info.type \in Members
      BY <2>3 DEF Infos, Members
    <3>2. counts \in Seq(Nat) /\ Len(counts) = Len(Kids[c])
      BY <3>1, KidCountsAre
    <3> HIDE DEF there, counts
    <3>3. there.child - 1 \in 0..Len(counts)
      BY <2>2, <3>2, KidsOf
    <3>4. Sums(counts)[there.child - 1] \in Nat
      BY <3>2, <3>3, SumsGrow
    <3>5. Sums(counts)[there.child - 1] % Byte \in Nat
      BY <3>4, Bytes, IdIsNat
    <3> QED BY <3>5 DEF Offset, counts
  <2> HIDE DEF offset, info, alias
  <2>6. info.id \in Nat
    BY <2>3, IdIsNat DEF Infos
  <2>7. (info.id + offset) % Byte \in Ids
    BY <2>5, <2>6, Bytes
  <2>8. alias \in Infos
    BY <2>3, <2>4, <2>7 DEF Infos
  <2> QED BY <2>8 DEF alias
<1> HIDE DEF S
<1>3. Systems \subseteq S
  BY <1>1, <1>2, TreeInduction
<1> QED BY <1>3 DEF S

\* Where the counts of the children fit in a byte, adding what the children
\* before one offer to an id of it goes nowhere past a byte.
LEMMA OffsetFits ==
    ASSUME NEW counts \in Seq(Nat), NEW c \in 1..Len(counts), NEW k \in Nat, k < counts[c],
           Sums(counts)[Len(counts)] < Byte
    PROVE  /\ (k + (Sums(counts)[c - 1] % Byte)) % Byte = Sums(counts)[c - 1] + k
           /\ Sums(counts)[c - 1] + k \in Ids
           /\ Sums(counts)[c - 1] + k < Total(counts)
<1> DEFINE before == Sums(counts)[c - 1]
           here == counts[c]
           after == Sums(counts)[c]
           total == Sums(counts)[Len(counts)]
<1>1. c - 1 \in 0..Len(counts) /\ c \in 0..Len(counts) /\ Len(counts) \in 0..Len(counts)
  OBVIOUS
<1>2. before \in Nat /\ after \in Nat /\ total \in Nat /\ after <= total
  BY <1>1, SumsGrow
<1>3. after = before + here
  BY SumsStep
<1>4. here \in Nat
  OBVIOUS
<1>5. Total(counts) = total % Byte
  BY DEF Total
<1> HIDE DEF before, here, after, total
<1>6. k < here /\ total < Byte
  BY DEF here, total
<1>7. total % Byte = total
  BY <1>2, <1>6 DEF Byte
<1>8. before + k < total /\ before < Byte /\ before + k < Byte
  BY <1>2, <1>3, <1>4, <1>6, <1>7 DEF Byte
<1>9. before % Byte = before /\ (k + (before % Byte)) % Byte = before + k
  BY <1>2, <1>8 DEF Byte
<1>10. before + k \in Ids
  BY <1>2, <1>8 DEF Ids, Byte
<1> QED BY <1>5, <1>7, <1>8, <1>9, <1>10 DEF before, total

\* What AliasesAgree says of one alias.
Agrees(R, s, id) ==
    LET info == mc_composite_get_alias[R][s][id]
    IN  /\ info \in Infos
        /\ info.id < Count[R][info.type][s]
        /\ Dispatch[R][info.type][s][info.id] =
             [system |-> Dispatch[R]["alias"][s][id].system, id |-> 0]

LEMMA AgreesLeaf ==
    ASSUME NEW R \in Bits, NEW s \in Leaves, NEW id \in Ids, id < Count[R]["alias"][s]
    PROVE  Agrees(R, s, id)
<1> DEFINE info == mc_composite_get_alias[R][s][id]
<1>1. info \in Infos /\ info.id = 0 /\ 0 < Count[R][info.type][s]
  BY AliasLeaf
<1> HIDE DEF info
<1>2. 0 \in Ids /\ info.type \in Members /\ "alias" \in Members
  BY <1>1 DEF Infos, Members, Ids, Byte
<1>3. Dispatch[R][info.type][s][0] = [system |-> s, id |-> 0]
  BY <1>2, DispatchLeaf
<1>4. Dispatch[R]["alias"][s][id] = [system |-> s, id |-> id]
  BY <1>2, DispatchLeaf
<1> QED BY <1>1, <1>3, <1>4 DEF Agrees, info

\* An alias agrees when the alias of the child that it comes from does.
LEMMA AgreesKid ==
    ASSUME TreeFits, NEW R \in Bits, NEW c \in Composites,
           NEW id \in Ids, id < Count[R]["alias"][c],
           \A i \in DOMAIN Kids[c] : \A n \in Ids :
             n < Count[R]["alias"][Kids[c][i]] => Agrees(R, Kids[c][i], n)
    PROVE  Agrees(R, c, id)
<1> DEFINE there == Route(KidCounts(R, "alias", c), id)
           kid == Kids[c][there.child]
           info == mc_composite_get_alias[R][kid][there.id]
           alias == mc_composite_get_alias[R][c][id]
           counts == KidCounts(R, info.type, c)
<1>1. "alias" \in Members
  BY DEF Members
<1>2. /\ there.child # 0 /\ there.child \in DOMAIN Kids[c]
      /\ there.child \in 1..Len(Kids[c]) /\ kid \in Systems
      /\ there.id \in Ids /\ there.id < Count[R]["alias"][kid]
  BY <1>1, OfferedByChild
<1>3. Agrees(R, kid, there.id)
  <2> HIDE DEF there
  <2> QED BY <1>2
<1>4. /\ info \in Infos /\ info.id < Count[R][info.type][kid]
      /\ Dispatch[R][info.type][kid][info.id] =
           [system |-> Dispatch[R]["alias"][kid][there.id].system, id |-> 0]
  BY <1>3 DEF Agrees
<1>5. /\ alias.type = info.type /\ alias.preset = info.preset
      /\ alias.id = (info.id + Offset(R, info.type, c, there.child)) % Byte
      /\ alias = [type |-> alias.type, id |-> alias.id, preset |-> alias.preset]
  BY <1>2, <1>4, AliasKid
<1>6. Dispatch[R]["alias"][c][id] = Dispatch[R]["alias"][kid][there.id]
  <2>1. there = Route(KidCounts(R, "alias", c), id)
    OBVIOUS
  <2> HIDE DEF there
  <2> QED BY <1>1, <1>2, <2>1, DispatchKid
<1> HIDE DEF alias, info, kid, there
<1>7. info.type \in Members /\ info.id \in Nat
  BY <1>4, IdIsNat DEF Infos, Members
<1>8. /\ counts \in Seq(Nat) /\ Len(counts) = Len(Kids[c])
      /\ counts[there.child] = Count[R][info.type][kid]
      /\ Count[R][info.type][c] = Total(counts)
  BY <1>2, <1>7, KidCountsAre DEF kid
<1>9. Sums(counts)[Len(counts)] < Byte
  BY <1>7 DEF TreeFits
<1>10. Offset(R, info.type, c, there.child) = Sums(counts)[there.child - 1] % Byte
  BY DEF Offset
<1> DEFINE new == Sums(counts)[there.child - 1] + info.id
<1> HIDE DEF counts
<1>11. there.child \in 1..Len(counts) /\ info.id < counts[there.child]
  BY <1>2, <1>4, <1>8
<1>12. /\ (info.id + (Sums(counts)[there.child - 1] % Byte)) % Byte = new
       /\ new \in Ids /\ new < Total(counts)
  BY <1>7, <1>8, <1>9, <1>11, OffsetFits
<1>13. Route(counts, new) = [child |-> there.child, id |-> info.id]
  BY <1>7, <1>8, <1>11, RouteFinds
<1>14. alias.id = new
  BY <1>5, <1>10, <1>12
<1> HIDE DEF new
<1>15. Dispatch[R][info.type][c][new] = Dispatch[R][info.type][kid][info.id]
  <2> DEFINE back == Route(KidCounts(R, info.type, c), new)
  <2>1. back.child = there.child /\ back.id = info.id
    BY <1>13 DEF counts
  <2>2. back.child # 0
    BY <1>2, <2>1
  <2>3. Dispatch[R][info.type][c][new] = Dispatch[R][info.type][Kids[c][back.child]][back.id]
    BY <1>7, <1>12, <2>2, DispatchKid
  <2> QED BY <2>1, <2>3 DEF kid
<1>16. alias \in Infos
  BY <1>4, <1>5, <1>12, <1>14 DEF Infos
<1>17. alias.id < Count[R][alias.type][c]
  BY <1>5, <1>8, <1>12, <1>14
<1>18. Dispatch[R][alias.type][c][alias.id] =
         [system |-> Dispatch[R]["alias"][c][id].system, id |-> 0]
  BY <1>4, <1>5, <1>6, <1>14, <1>15
<1> QED BY <1>16, <1>17, <1>18 DEF Agrees, alias

LEMMA AllAgree ==
    ASSUME TreeFits, NEW R \in Bits
    PROVE  \A s \in Systems : \A id \in Ids : id < Count[R]["alias"][s] => Agrees(R, s, id)
<1> DEFINE S == {s \in Systems : \A id \in Ids :
                   id < Count[R]["alias"][s] => Agrees(R, s, id)}
<1>1. Leaves \subseteq S
  BY AgreesLeaf DEF Systems
<1>2. ASSUME NEW c \in Composites, \A i \in DOMAIN Kids[c] : Kids[c][i] \in S
      PROVE  c \in S
  <2>1. c \in Systems
    BY DEF Systems
  <2>2. \A i \in DOMAIN Kids[c] : \A n \in Ids :
          n < Count[R]["alias"][Kids[c][i]] => Agrees(R, Kids[c][i], n)
    BY <1>2
  <2>3. \A id \in Ids : id < Count[R]["alias"][c] => Agrees(R, c, id)
    BY <2>2, AgreesKid
  <2> QED BY <2>1, <2>3
<1> HIDE DEF S
<1>3. Systems \subseteq S
  BY <1>1, <1>2, TreeInduction
<1> QED BY <1>3 DEF S

-----------------------------------------------------------------------------
(* The devices                                                             *)

\* What devices answer, and with it what the guards of core.c do.
Statuses == Faults \cup {"OK", Protected}
AllStatuses == Statuses \cup {"INVALID_ARGS", "NOT_SUPPORTED"}

LEMMA ContextOf == \A d \in Devices : Context(d) \in Contexts
BY DEF Contexts

\* States of the devices with every digital one at 0 or 1.
States == {D \in DeviceStates : \A d \in Digitals : D.value[d] \in {0, 1}}

\* A call with value n on device d: it is refused, with the devices left alone,
\* if and only if the device is locked; else n is in the device, whatever the
\* driver then reports.
Writes(call_, D, d, n) ==
    /\ call_.dev \in States
    /\ call_.status \in Statuses
    /\ call_.dev.read_only = D.read_only
    /\ \A e \in Devices \ {d} : call_.dev.value[e] = D.value[e]
    /\ IF D.read_only[Context(d)] THEN call_.dev = D /\ call_.status = Protected
       ELSE call_.dev.value[d] = n /\ call_.status # Protected

LEMMA DataObjectWrites ==
    ASSUME NEW D \in States, NEW d \in Devices, NEW n \in Numbers,
           d \in Digitals => n \in {0, 1}, ~D.read_only[Context(d)]
    PROVE  Writes([dev |-> [D EXCEPT !.value[d] = n], status |-> D.error[Context(d)]], D, d, n)
<1> DEFINE E == [D EXCEPT !.value[d] = n]
<1>1. /\ D \in DeviceStates /\ \A e \in Digitals : D.value[e] \in {0, 1}
      /\ D.value \in [Devices -> Numbers] /\ D.read_only \in [Contexts -> BOOLEAN]
      /\ D.error \in [Contexts -> Faults \cup {"OK"}]
  BY DEF States, DeviceStates
<1>2. /\ E \in DeviceStates /\ E.read_only = D.read_only
      /\ E.value = [D.value EXCEPT ![d] = n]
  BY <1>1 DEF DeviceStates
<1>3. E.value[d] = n /\ \A e \in Devices \ {d} : E.value[e] = D.value[e]
  BY <1>1, <1>2
<1> HIDE DEF E
<1>4. \A e \in Digitals : E.value[e] \in {0, 1}
  BY <1>1, <1>3 DEF Devices
<1>5. D.error[Context(d)] \in Faults \cup {"OK"}
  BY <1>1, ContextOf
<1>6. D.error[Context(d)] \in Statuses /\ D.error[Context(d)] # Protected
  BY <1>5, DevicesAssumption DEF Statuses, Protected
<1> QED BY <1>2, <1>3, <1>4, <1>6 DEF Writes, States, E

LEMMA RefuseWrites ==
    ASSUME NEW D \in States, NEW d \in Devices, NEW n, D.read_only[Context(d)]
    PROVE  Writes(Refuse(D, Protected), D, d, n)
BY DEF Refuse, Writes, Statuses

LEMMA AnalogSet ==
    ASSUME NEW D \in States, NEW d \in Analogs, NEW n \in Numbers
    PROVE  Writes(mc_analog_set_value(D, d, n), D, d, n)
<1>1. d \in Devices /\ n \in Numbers /\ d \notin Digitals
  BY DevicesAssumption DEF Devices, Numbers
<1> QED BY <1>1, DataObjectWrites, RefuseWrites
        DEF mc_analog_set_value, mc_analog_data_object_set_value

LEMMA DigitalSet ==
    ASSUME NEW D \in States, NEW d \in Digitals, NEW n
    PROVE  Writes(mc_digital_set_state(D, d, n), D, d, IF n = 0 THEN 0 ELSE 1)
<1> DEFINE bit == IF n = 0 THEN 0 ELSE 1
<1>1. d \in Devices /\ bit \in Numbers /\ bit \in {0, 1}
  BY DEF Devices, Numbers
<1>2. mc_digital_set_state(D, d, n) =
        IF D.read_only[Context(d)] THEN Refuse(D, Protected)
        ELSE [dev |-> [D EXCEPT !.value[d] = bit], status |-> D.error[Context(d)]]
  BY DEF mc_digital_set_state, mc_digital_data_object_set_state
<1> HIDE DEF bit
<1>3. Writes(mc_digital_set_state(D, d, n), D, d, bit)
  BY <1>1, <1>2, DataObjectWrites, RefuseWrites
<1> QED BY <1>1, <1>3 DEF bit

\* What any call leaves: the same locks, and the locked devices as they were.
Respects(call_, D) ==
    /\ call_.dev \in States
    /\ call_.status \in Statuses
    /\ call_.dev.read_only = D.read_only
    /\ \A d \in Devices : D.read_only[Context(d)] => call_.dev.value[d] = D.value[d]

LEMMA WritesRespects ==
    ASSUME NEW c, NEW D \in States, NEW d \in Devices, NEW n, Writes(c, D, d, n)
    PROVE  Respects(c, D)
BY DEF Writes, Respects

LEMMA ToggleRespects ==
    ASSUME NEW D \in States, NEW d \in Digitals
    PROVE  Respects(mc_digital_toggle(D, d), D)
<1> DEFINE n == 1 - Read(D, d).value[1]
<1>1. d \in Devices /\ D.error[Context(d)] \in Statuses
  <2>1. d \in Devices
    BY DEF Devices
  <2>2. D.error \in [Contexts -> Faults \cup {"OK"}]
    BY DEF States, DeviceStates
  <2> QED BY <2>1, <2>2, ContextOf DEF Statuses
<1>2. mc_digital_toggle(D, d) =
        IF D.error[Context(d)] # "OK" THEN Refuse(D, D.error[Context(d)])
        ELSE mc_digital_set_state(D, d, n)
  BY DEF mc_digital_toggle, mc_digital_get_state, Read
<1> HIDE DEF n
<1>3. Respects(mc_digital_set_state(D, d, n), D)
  BY <1>1, DigitalSet, WritesRespects
<1>4. Respects(Refuse(D, D.error[Context(d)]), D)
  BY <1>1 DEF Refuse, Respects
<1> QED BY <1>2, <1>3, <1>4

\* An init starts the device over, and locks or unlocks it.
LEMMA InitStates ==
    ASSUME NEW D \in States, NEW d \in Devices, NEW b \in BOOLEAN
    PROVE  Initialized(D, d, b) \in States
<1> DEFINE c == Context(d)
           value == [D.value EXCEPT ![d] = 0]
           read_only == [D.read_only EXCEPT ![c] = b]
           error == [D.error EXCEPT ![c] = "OK"]
<1>1. /\ D.value \in [Devices -> Numbers] /\ D.read_only \in [Contexts -> BOOLEAN]
      /\ D.error \in [Contexts -> Faults \cup {"OK"}]
      /\ \A e \in Digitals : D.value[e] \in {0, 1}
      /\ c \in Contexts /\ 0 \in Numbers
  BY ContextOf DEF States, DeviceStates, Numbers
<1>2. Initialized(D, d, b) = [value |-> value, read_only |-> read_only, error |-> error]
  BY DEF Initialized
<1>3. /\ value \in [Devices -> Numbers] /\ read_only \in [Contexts -> BOOLEAN]
      /\ error \in [Contexts -> Faults \cup {"OK"}]
  BY <1>1
<1>4. \A e \in Digitals : value[e] \in {0, 1}
  BY <1>1 DEF Devices
<1> HIDE DEF value, read_only, error
<1> QED BY <1>2, <1>3, <1>4 DEF States, DeviceStates

\* Answers to the application itself are no answers of a system.
Own(answered) ==
    /\ answered.op \notin {"write", "invoke"} /\ answered.by = Nobody
    /\ answered.status \in Statuses /\ answered.value = <<>>

LEMMA CallsStep ==
    ASSUME dev \in States, Calls
    PROVE  dev' \in States /\ Own(reply')
<1>1. ASSUME NEW d \in Switched, NEW b \in BOOLEAN, InitDevice(d, b)
      PROVE  dev' \in States /\ Own(reply')
  <2>1. d \in Devices /\ dev' = Initialized(dev, d, b)
    BY <1>1, DevicesAssumption DEF InitDevice, Did, mc_digital_init, mc_analog_init
  <2>2. Own(reply')
    BY <1>1 DEF InitDevice, Did, Answer, Own, Nobody, Statuses
  <2> QED BY <2>1, <2>2, InitStates
<1>2. ASSUME NEW d \in Switched, NEW b \in BOOLEAN, SetReadOnly(d, b)
      PROVE  dev' \in States /\ Own(reply')
  <2>1. d \in Devices /\ dev' = [dev EXCEPT !.read_only[Context(d)] = b]
    BY <1>2, DevicesAssumption DEF SetReadOnly, Did
  <2>2. Context(d) \in Contexts
    BY <2>1, ContextOf
  <2>3. dev' \in DeviceStates /\ dev'.value = dev.value
    BY <2>1, <2>2 DEF States, DeviceStates
  <2>4. Own(reply')
    BY <1>2 DEF SetReadOnly, Did, Answer, Own, Nobody, Statuses
  <2> QED BY <2>3, <2>4 DEF States
<1>3. ASSUME NEW d \in Digitals, ToggleDevice(d)
      PROVE  dev' \in States /\ Own(reply')
  <2>1. Respects(mc_digital_toggle(dev, d), dev)
    BY ToggleRespects
  <2>2. /\ dev' = mc_digital_toggle(dev, d).dev
        /\ reply' = Answer("toggle", mc_digital_toggle(dev, d).status, <<>>, "nobody")
    BY <1>3 DEF ToggleDevice, Did
  <2> QED BY <2>1, <2>2 DEF Respects, Answer, Own, Nobody
<1>4. ASSUME NEW d \in Devices, NEW n \in Levels, SetDevice(d, n)
      PROVE  dev' \in States /\ Own(reply')
  <2> DEFINE set == IF d \in Digitals THEN mc_digital_set_state(dev, d, n)
                    ELSE mc_analog_set_value(dev, d, n)
  <2>1. dev' = set.dev /\ reply' = Answer("set", set.status, <<>>, "nobody")
    BY <1>4 DEF SetDevice, Did
  <2>2. Respects(set, dev)
    BY DigitalSet, AnalogSet, WritesRespects DEF Devices, Numbers
  <2> HIDE DEF set
  <2> QED BY <2>1, <2>2 DEF Respects, Answer, Own, Nobody
<1> QED BY <1>1, <1>2, <1>3, <1>4 DEF Calls

\* An interrupt locks nothing.
LEMMA ChangesStep ==
    ASSUME dev \in States, Changes
    PROVE  /\ dev' \in States /\ dev'.read_only = dev.read_only
           /\ reply' = Quiet
<1>1. ASSUME NEW d \in Devices, NEW n \in Numbers, d \in Digitals => n \in {0, 1}, Moves(d, n)
      PROVE  dev' \in States /\ dev'.read_only = dev.read_only /\ reply' = Quiet
  <2>1. /\ dev' \in DeviceStates /\ dev'.read_only = dev.read_only
        /\ dev'.value = [dev.value EXCEPT ![d] = n]
    BY <1>1 DEF Moves, States, DeviceStates
  <2>2. \A e \in Digitals : dev'.value[e] \in {0, 1}
    BY <1>1, <2>1 DEF States, DeviceStates, Devices
  <2> QED BY <1>1, <2>1, <2>2 DEF Moves, States
<1>2. ASSUME NEW c \in Contexts, NEW e \in Faults \cup {"OK"}, Fails(c, e)
      PROVE  dev' \in States /\ dev'.read_only = dev.read_only /\ reply' = Quiet
  <2>1. /\ dev' \in DeviceStates /\ dev'.read_only = dev.read_only
        /\ dev'.value = dev.value
    BY <1>2 DEF Fails, States, DeviceStates
  <2> QED BY <1>2, <2>1 DEF Fails, States
<1>3. Digitals \subseteq Devices /\ {0, 1} \subseteq Numbers
  BY DEF Devices, Numbers
<1>4. Analogs \subseteq Devices /\ Levels \subseteq Numbers /\ Analogs \cap Digitals = {}
  BY DevicesAssumption DEF Devices, Numbers
<1> QED BY <1>1, <1>2, <1>3, <1>4 DEF Changes

-----------------------------------------------------------------------------
(* Commands                                                                *)

\* A system under a call that has not returned is digital, its device is not
\* locked, and its target is the other value than the one it read.
PendingOK(D, aims, waiting) ==
    /\ waiting \in [leaf : DigitalSystems \cup {Nobody}, seen : {0, 1}]
    /\ waiting.leaf = Nobody => waiting = Idle
    /\ waiting # Idle => /\ ~D.read_only[Context(Device[waiting.leaf])]
                         /\ aims[waiting.leaf] = 1 - waiting.seen

TargetsOK(aims) ==
    /\ aims \in [Leaves -> Numbers]
    /\ \A s \in DigitalSystems : aims[s] \in {0, 1}

ReplyOK(answered) ==
    /\ answered.by \in Leaves \cup {Nobody}
    /\ answered.status \in AllStatuses
    /\ answered.value = <<>> \/ \E n \in Numbers : answered.value = <<n>>
    /\ answered.op \in {"write", "invoke"} => answered.status # Protected

SystemInv ==
    dev \in States /\ TargetsOK(target) /\ PendingOK(dev, target, pending) /\ ReplyOK(reply)

\* What OkMeansApplied says of a step.
Applied ==
    LET s == reply'.by
        raced == reply'.op = "invoke" /\ dev.value[Device[s]] # pending.seen
    IN  /\ reply'.op \in {"write", "invoke"}
        /\ reply'.status = "OK"
        /\ ~raced
        => target'[s] = dev'.value[Device[s]]

\* What is answered INVALID_ARGS has done nothing.
Harmless == reply'.status = "INVALID_ARGS" => UNCHANGED <<dev, target>>

LEMMA StatusFacts ==
    /\ Statuses \subseteq AllStatuses
    /\ \A status \in {"OK", Protected} \cup Faults : status # "INVALID_ARGS"
    /\ {"INVALID_ARGS", "NOT_SUPPORTED"} \subseteq AllStatuses
    /\ "INVALID_ARGS" \notin {"OK", Protected} /\ "NOT_SUPPORTED" \notin {"OK", Protected}
    /\ \A status \in Faults : status \notin {"OK", Protected}
BY PiecesAssumption, DevicesAssumption DEF Statuses, AllStatuses, Protected

LEMMA LeavesHave ==
    /\ \A s \in DigitalSystems : /\ s \in Leaves /\ s \notin AnalogSystems /\ s # Nobody
                                 /\ Device[s] \in Digitals /\ Device[s] \in Devices
    /\ \A s \in AnalogSystems : /\ s \in Leaves /\ s \notin DigitalSystems
                                /\ Device[s] \in Analogs /\ Device[s] \in Devices
    /\ \A s \in Leaves : s # Nobody /\ (s \in DigitalSystems \/ s \in AnalogSystems)
BY LeavesAssumption DEF Leaves, Devices

\* A leaf that offers a function is digital, and its device is not locked; one
\* that offers an input has a device that is not locked.
LEMMA ReachedIsWritable ==
    ASSUME dev \in States, NEW s \in Systems, NEW id \in Ids, NEW type \in {"f", "x"},
           Reaches(type, s, id)
    PROVE  /\ To(type, s, id) \in Leaves
           /\ type = "f" => To(type, s, id) \in DigitalSystems
           /\ ~dev.read_only[Context(Device[To(type, s, id)])]
<1> DEFINE to == Dispatch[dev.read_only][type][s][id]
<1>1. dev.read_only \in Bits /\ type \in Members
  BY DEF States, DeviceStates, Bits, Members, Types
<1>2. Member(dev.read_only, type, to)
  BY <1>1, OfferedIsReached DEF Reaches
<1> HIDE DEF to
<1>3. to.system \in Leaves /\ 0 < LeafCount(dev.read_only, to.system, type)
  <2>1. LeafCount(dev.read_only, to.system, type) \in 0..5
    BY <1>1, LeafCounts
  <2> QED BY <1>2, <2>1 DEF Member
<1> DEFINE leaf == to.system
           locked == dev.read_only[Context(Device[leaf])]
<1> HIDE DEF leaf, locked
<1>4. /\ leaf \in DigitalSystems \/ leaf \in AnalogSystems
      /\ leaf \in DigitalSystems => leaf \notin AnalogSystems
  BY <1>3, LeavesHave DEF leaf
<1>5. leaf \in DigitalSystems =>
        0 < (IF locked THEN [f |-> 0, x |-> 0, y |-> 1, alias |-> 1][type]
             ELSE [f |-> 1, x |-> 1, y |-> 1, alias |-> 5][type])
  BY <1>3 DEF LeafCount, digital_sys_count, leaf, locked
<1>6. leaf \notin DigitalSystems =>
        0 < (IF locked THEN [f |-> 0, x |-> 0, y |-> 1, alias |-> 1][type]
             ELSE [f |-> 0, x |-> 1, y |-> 1, alias |-> 2][type])
  BY <1>3 DEF LeafCount, analog_sys_count, leaf, locked
<1>7. ~locked /\ (type = "f" => leaf \in DigitalSystems)
  <2>1. CASE type = "f"  BY <1>5, <1>6, <2>1
  <2>2. CASE type = "x"  BY <1>5, <1>6, <2>2
  <2> QED BY <2>1, <2>2
<1>8. leaf = To(type, s, id)
  BY DEF leaf, to, To
<1> QED BY <1>3, <1>7, <1>8 DEF leaf, locked

LEMMA QuietIsOK ==
    /\ ReplyOK(Quiet)
    /\ reply' = Quiet => Applied /\ Harmless
<1>1. /\ Quiet.op = "none" /\ Quiet.by = Nobody /\ Quiet.status = "OK"
      /\ Quiet.value = <<>>
  BY DEF Quiet, Answer, Nobody
<1> QED BY <1>1 DEF ReplyOK, Applied, Harmless, AllStatuses, Statuses

LEMMA RefusedStep ==
    ASSUME SystemInv, NEW op, NEW status \in AllStatuses \ {"OK", Protected}, Refused(op, status)
    PROVE  SystemInv' /\ Applied /\ Harmless
<1>1. dev' = dev /\ target' = target /\ pending' = pending
  BY DEF Refused
<1>2. /\ reply'.op = op /\ reply'.status = status /\ reply'.by = Nobody
      /\ reply'.value = <<>>
  BY DEF Refused, Answer
<1>3. ReplyOK(reply')
  BY <1>2 DEF ReplyOK
<1> QED BY <1>1, <1>2, <1>3 DEF SystemInv, Applied, Harmless

LEMMA WriteAtStep ==
    ASSUME SystemInv, pending = Idle, NEW s \in Leaves, NEW val \in Numbers,
           ~dev.read_only[Context(Device[s])], WriteAt(s, val)
    PROVE  SystemInv' /\ Applied /\ Harmless /\ pending' = Idle
<1>0. dev \in States /\ TargetsOK(target) /\ pending' = pending
  BY DEF SystemInv, WriteAt
<1>1. ASSUME NEW n \in Numbers, NEW call, s \in DigitalSystems => n \in {0, 1},
             Writes(call, dev, Device[s], n), dev' = call.dev,
             target' = [target EXCEPT ![s] = n],
             reply' = Answer("write", call.status, <<>>, s)
      PROVE  SystemInv' /\ Applied /\ Harmless /\ pending' = Idle
  <2>1. /\ dev' \in States /\ dev'.value[Device[s]] = n
        /\ call.status # Protected /\ call.status \in Statuses
    BY <1>1 DEF Writes
  <2>2. TargetsOK(target')
    BY <1>0, <1>1, LeavesHave DEF TargetsOK
  <2>3. PendingOK(dev', target', pending')
    BY <1>0 DEF PendingOK, Idle
  <2>4. /\ reply'.op = "write" /\ reply'.by = s /\ reply'.status = call.status
        /\ reply'.value = <<>>
    BY <1>1 DEF Answer
  <2>5. ReplyOK(reply') /\ Harmless
    BY <2>1, <2>4, StatusFacts DEF ReplyOK, Harmless, Statuses
  <2>6. target'[s] = n
    BY <1>0, <1>1 DEF TargetsOK
  <2>7. Applied
    BY <2>1, <2>4, <2>6 DEF Applied
  <2> QED BY <1>0, <2>1, <2>2, <2>3, <2>5, <2>7 DEF SystemInv
<1>2. CASE s \in DigitalSystems /\ digital_sys_write_input(s, val)
  <2> DEFINE bit == IF val = 0 THEN 0 ELSE 1
             call == mc_digital_set_state(dev, Device[s], val)
  <2>1. bit \in Numbers /\ bit \in {0, 1}
    BY DEF Numbers
  <2>2. Writes(call, dev, Device[s], bit)
    BY <1>0, <1>2, LeavesHave, DigitalSet
  <2>3. /\ dev' = call.dev /\ target' = [target EXCEPT ![s] = bit]
        /\ reply' = Answer("write", call.status, <<>>, s)
    BY <1>2 DEF digital_sys_write_input
  <2> HIDE DEF bit, call
  <2> QED BY <1>1, <2>1, <2>2, <2>3
<1>3. CASE s \in AnalogSystems /\ analog_sys_write_input(s, val)
  <2> DEFINE call == mc_analog_set_value(dev, Device[s], val)
  <2>1. s \notin DigitalSystems
    BY <1>3, LeavesHave
  <2>2. Writes(call, dev, Device[s], val)
    BY <1>0, <1>3, LeavesHave, AnalogSet
  <2>3. /\ dev' = call.dev /\ target' = [target EXCEPT ![s] = val]
        /\ reply' = Answer("write", call.status, <<>>, s)
    BY <1>3 DEF analog_sys_write_input
  <2> HIDE DEF call
  <2> QED BY <1>1, <2>1, <2>2, <2>3
<1> QED BY <1>2, <1>3 DEF WriteAt

LEMMA ReadAtStep ==
    ASSUME SystemInv, NEW s \in Leaves, ReadInputAt(s) \/ ReadOutputAt(s)
    PROVE  SystemInv' /\ Applied /\ Harmless /\ UNCHANGED <<dev, target, pending>>
<1>1. dev' = dev /\ target' = target /\ pending' = pending
  BY DEF ReadInputAt, ReadOutputAt
<1>2. /\ dev \in States /\ TargetsOK(target)
      /\ Device[s] \in Devices /\ Context(Device[s]) \in Contexts
  BY LeavesHave, ContextOf DEF SystemInv
<1>3. /\ target[s] \in Numbers /\ dev.value[Device[s]] \in Numbers
      /\ dev.error[Context(Device[s])] \in Statuses
  BY <1>2 DEF States, DeviceStates, TargetsOK, Statuses
<1>4. /\ reply'.op = "read" /\ reply'.by = s
      /\ \/ reply'.status = "OK" /\ reply'.value = <<target[s]>>
         \/ /\ reply'.status = dev.error[Context(Device[s])]
            /\ reply'.value \in {<<>>, <<dev.value[Device[s]]>>}
  BY DEF ReadInputAt, ReadOutputAt, Answer, mc_digital_get_state, mc_analog_get_value, Read
<1>5. reply'.status \in AllStatuses
  BY <1>3, <1>4 DEF AllStatuses, Statuses
<1>6. ReplyOK(reply')
  BY <1>3, <1>4, <1>5 DEF ReplyOK
<1> QED BY <1>1, <1>4, <1>6 DEF SystemInv, Applied, Harmless

LEMMA InvokeAtStep ==
    ASSUME SystemInv, NEW s \in DigitalSystems, ~dev.read_only[Context(Device[s])],
           InvokeAt(s)
    PROVE  SystemInv' /\ Applied /\ Harmless
<1> DEFINE error == dev.error[Context(Device[s])]
           n == dev.value[Device[s]]
<1>1. /\ dev \in States /\ TargetsOK(target)
      /\ n \in {0, 1} /\ error \in Faults \cup {"OK"}
  <2>1. Device[s] \in Digitals /\ Context(Device[s]) \in Contexts
    BY LeavesHave, ContextOf
  <2> QED BY <2>1 DEF SystemInv, States, DeviceStates
<1>2. error # "OK" => error \in AllStatuses \ {"OK", Protected}
  BY <1>1, StatusFacts DEF AllStatuses, Statuses
<1>3. \/ error # "OK" /\ Refused("invoke", error)
      \/ /\ error = "OK"
         /\ target' = [target EXCEPT ![s] = 1 - n]
         /\ pending' = [leaf |-> s, seen |-> n]
         /\ reply' = Quiet /\ dev' = dev
  BY DEF InvokeAt, mc_digital_get_state, Read
<1> HIDE DEF error, n
<1>4. CASE error # "OK" /\ Refused("invoke", error)
  BY <1>2, <1>4, RefusedStep
<1>5. CASE /\ target' = [target EXCEPT ![s] = 1 - n]
           /\ pending' = [leaf |-> s, seen |-> n]
           /\ reply' = Quiet /\ dev' = dev
  <2>1. 1 - n \in {0, 1} /\ 1 - n \in Numbers
    BY <1>1 DEF Numbers
  <2>2. TargetsOK(target') /\ target'[s] = 1 - n
    BY <1>1, <1>5, <2>1, LeavesHave DEF TargetsOK
  <2>3. PendingOK(dev', target', pending')
    BY <1>1, <1>5, <2>2, LeavesHave DEF PendingOK
  <2>5. ReplyOK(reply') /\ Applied /\ Harmless
    BY <1>5, QuietIsOK
  <2> QED BY <1>1, <1>5, <2>2, <2>3, <2>5 DEF SystemInv
<1> QED BY <1>3, <1>4, <1>5

LEMMA InvokeStep ==
    ASSUME SystemInv, NEW s \in Systems, NEW id \in Ids, mc_sys_invoke(s, id)
    PROVE  SystemInv' /\ Applied /\ Harmless
<1>1. dev \in States
  BY DEF SystemInv
<1>2. CASE Reaches("f", s, id) /\ InvokeAt(To("f", s, id))
  BY <1>1, <1>2, ReachedIsWritable, InvokeAtStep
<1> QED BY <1>2, StatusFacts, RefusedStep DEF mc_sys_invoke

LEMMA WriteStep ==
    ASSUME SystemInv, pending = Idle, NEW s \in Systems, NEW id \in Ids, NEW val \in Numbers,
           mc_sys_write_input(s, id, val)
    PROVE  SystemInv' /\ Applied /\ Harmless /\ pending' = Idle
<1>1. dev \in States
  BY DEF SystemInv
<1>2. CASE Reaches("x", s, id) /\ WriteAt(To("x", s, id), val)
  BY <1>1, <1>2, ReachedIsWritable, WriteAtStep
<1>3. CASE Refused("write", "INVALID_ARGS")
  BY <1>3, StatusFacts, RefusedStep DEF Refused
<1> QED BY <1>2, <1>3 DEF mc_sys_write_input

LEMMA ReadStep ==
    ASSUME SystemInv, NEW s \in Systems, NEW id \in Ids,
           mc_sys_read_input(s, id) \/ mc_sys_read_output(s, id)
    PROVE  SystemInv' /\ Applied /\ Harmless /\ UNCHANGED <<dev, target, pending>>
<1>1. dev.read_only \in Bits /\ \A type \in {"x", "y"} : type \in Members
  BY DEF SystemInv, States, DeviceStates, Bits, Members, Types
<1>2. \A type \in {"x", "y"} : Reaches(type, s, id) => To(type, s, id) \in Leaves
  BY <1>1, OfferedIsReached DEF Reaches, To, Member
<1>3. CASE Refused("read", "INVALID_ARGS")
  BY <1>3, StatusFacts, RefusedStep DEF Refused
<1> QED BY <1>2, <1>3, ReadAtStep DEF mc_sys_read_input, mc_sys_read_output

LEMMA ToggleStep ==
    ASSUME SystemInv, Toggle
    PROVE  SystemInv' /\ Applied /\ Harmless /\ pending' = Idle
<1> DEFINE s == pending.leaf
           D == Device[s]
           call == mc_digital_toggle(dev, D)
           error == dev.error[Context(D)]
           n == 1 - dev.value[D]
<1>1. /\ s \in DigitalSystems /\ pending # Idle
      /\ ~dev.read_only[Context(D)] /\ target[s] = 1 - pending.seen
      /\ dev \in States /\ TargetsOK(target)
  BY DEF SystemInv, Toggle, PendingOK, Idle
<1>2. /\ dev' = call.dev /\ reply' = Answer("invoke", call.status, <<>>, s)
      /\ pending' = Idle /\ target' = target
  BY DEF Toggle
<1>3. D \in Digitals /\ Context(D) \in Contexts /\ s \in Leaves
  BY <1>1, LeavesHave, ContextOf
<1>4. dev.value[D] \in {0, 1} /\ error \in Faults \cup {"OK"}
  BY <1>1, <1>3 DEF States, DeviceStates
<1>5. call = IF error # "OK" THEN Refuse(dev, error) ELSE mc_digital_set_state(dev, D, n)
  BY DEF mc_digital_toggle, mc_digital_get_state, Read
<1>6. /\ call.dev \in States /\ call.status # Protected /\ call.status \in Statuses
      /\ call.status = "OK" => call.dev.value[D] = n
  <2>1. CASE error # "OK"
    BY <1>1, <1>4, <1>5, <2>1, StatusFacts DEF Refuse, Statuses
  <2>2. CASE error = "OK"
    <3>1. Writes(mc_digital_set_state(dev, D, n), dev, D, IF n = 0 THEN 0 ELSE 1)
      BY <1>1, <1>3, DigitalSet
    <3>2. (IF n = 0 THEN 0 ELSE 1) = n
      BY <1>4
    <3> HIDE DEF n
    <3> QED BY <1>1, <1>5, <2>2, <3>1, <3>2 DEF Writes
  <2> QED BY <2>1, <2>2
<1> HIDE DEF call, n
<1>7. PendingOK(dev', target', pending')
  BY <1>2 DEF PendingOK, Idle
<1>8. /\ reply'.op = "invoke" /\ reply'.by = s /\ reply'.status = call.status
      /\ reply'.value = <<>>
  BY <1>2 DEF Answer
<1>9. ReplyOK(reply') /\ Harmless
  BY <1>3, <1>6, <1>8, StatusFacts DEF ReplyOK, Harmless, Statuses
<1>10. Applied
  BY <1>1, <1>2, <1>6, <1>8 DEF Applied, n
<1> QED BY <1>1, <1>2, <1>6, <1>7, <1>9, <1>10 DEF SystemInv

LEMMA LeafInitStep ==
    ASSUME SystemInv, pending = Idle, NEW S, leaf_init(S)
    PROVE  SystemInv' /\ Applied /\ Harmless
<1> DEFINE start(s) == IF Read(dev, Device[s]).status = "OK"
                       THEN Read(dev, Device[s]).value[1] ELSE 0
<1>1. /\ dev' = dev /\ pending' = pending /\ reply' = Quiet
      /\ target' = [s \in Leaves |-> IF s \in S THEN start(s) ELSE target[s]]
  BY DEF leaf_init
<1>2. \A s \in Leaves : start(s) = IF dev.error[Context(Device[s])] = "OK"
                                   THEN dev.value[Device[s]] ELSE 0
  BY DEF Read
<1>3. /\ dev \in States /\ TargetsOK(target)
  BY DEF SystemInv
<1>4. /\ \A s \in Leaves : start(s) \in Numbers
      /\ \A s \in DigitalSystems : start(s) \in {0, 1}
  <2>1. /\ \A d \in Devices : dev.value[d] \in Numbers
        /\ \A d \in Digitals : dev.value[d] \in {0, 1}
        /\ 0 \in Numbers
    BY <1>3 DEF States, DeviceStates, Numbers
  <2> HIDE DEF start
  <2> QED BY <1>2, <2>1, LeavesHave
<1> HIDE DEF start
<1>5. TargetsOK(target')
  BY <1>1, <1>3, <1>4, LeavesHave DEF TargetsOK
<1>6. PendingOK(dev', target', pending')
  BY <1>1 DEF PendingOK, Idle
<1> QED BY <1>1, <1>3, <1>5, <1>6, QuietIsOK DEF SystemInv

\* Calls of the application are made with nothing pending; devices change at
\* any time, but lock nothing.
LEMMA SurroundingsStep ==
    ASSUME SystemInv, (pending = Idle /\ Calls) \/ Changes, UNCHANGED <<target, pending>>
    PROVE  SystemInv' /\ Applied
<1>0. dev \in States
  BY DEF SystemInv
<1>1. CASE pending = Idle /\ Calls
  <2>1. dev' \in States /\ Own(reply')
    BY <1>0, <1>1, CallsStep
  <2>2. PendingOK(dev', target', pending')
    BY <1>1 DEF PendingOK, Idle
  <2>3. reply'.status \in AllStatuses
    BY <2>1, StatusFacts DEF Own
  <2> QED BY <2>1, <2>2, <2>3 DEF SystemInv, Applied, ReplyOK, Own
<1>2. CASE Changes
  <2>1. dev' \in States /\ dev'.read_only = dev.read_only /\ reply' = Quiet
    BY <1>0, <1>2, ChangesStep
  <2>2. PendingOK(dev', target', pending')
    BY <2>1 DEF SystemInv, PendingOK
  <2> QED BY <1>2, <2>1, <2>2, QuietIsOK DEF SystemInv
<1> QED BY <1>1, <1>2

-----------------------------------------------------------------------------
(* The systems                                                             *)

LEMMA SystemInit == Init => SystemInv
<1> SUFFICES ASSUME Init PROVE SystemInv
  OBVIOUS
<1>1. dev \in States
  BY DEF Init, DevicesInit, States, DeviceStates, Numbers, Devices
<1>2. TargetsOK(target) /\ PendingOK(dev, target, pending)
  BY LeavesHave DEF Init, TargetsOK, PendingOK, Idle, Numbers
<1>3. ReplyOK(reply)
  BY QuietIsOK DEF Init, DevicesInit
<1> QED BY <1>1, <1>2, <1>3 DEF SystemInv

LEMMA SystemStep == SystemInv /\ [Next]_vars => SystemInv' /\ [Applied]_vars
<1> SUFFICES ASSUME SystemInv, [Next]_vars PROVE SystemInv' /\ [Applied]_vars
  OBVIOUS
<1>1. Tops \subseteq Systems /\ \A id \in 0..MaxSent : id \in Ids
  <2>1. MaxSent \in Ids /\ Tops \subseteq Systems
    BY CompositeAssumption
  <2> QED BY <2>1 DEF Ids, Byte
<1>2. CASE Commands
  <2>1. PICK s \in Tops :
          \/ mc_sys_init(s)
          \/ \E id \in 0..MaxSent :
               \/ mc_sys_invoke(s, id)
               \/ \E val \in Numbers : mc_sys_write_input(s, id, val)
               \/ mc_sys_read_input(s, id)
               \/ mc_sys_read_output(s, id)
    BY <1>2 DEF Commands
  <2>2. s \in Systems /\ pending = Idle
    BY <1>1, <1>2 DEF Commands
  <2>3. CASE mc_sys_init(s)
    BY <2>2, <2>3, LeafInitStep DEF mc_sys_init
  <2>4. ASSUME NEW id \in 0..MaxSent, mc_sys_invoke(s, id) PROVE SystemInv' /\ Applied
    BY <1>1, <2>2, <2>4, InvokeStep
  <2>5. ASSUME NEW id \in 0..MaxSent, NEW val \in Numbers, mc_sys_write_input(s, id, val)
        PROVE  SystemInv' /\ Applied
    BY <1>1, <2>2, <2>5, WriteStep
  <2>6. ASSUME NEW id \in 0..MaxSent, mc_sys_read_input(s, id) \/ mc_sys_read_output(s, id)
        PROVE  SystemInv' /\ Applied
    BY <1>1, <2>2, <2>6, ReadStep
  <2> QED BY <2>1, <2>3, <2>4, <2>5, <2>6
<1>3. CASE Toggle
  BY <1>3, ToggleStep
<1>4. CASE Surroundings
  BY <1>4, SurroundingsStep DEF Surroundings
<1>5. CASE UNCHANGED vars
  BY <1>5 DEF vars, SystemInv
<1> QED BY <1>2, <1>3, <1>4, <1>5 DEF Next

THEOREM SystemSafe == Spec => []SystemInv
<1>1. SystemInv /\ [Next]_vars => SystemInv'
  BY SystemStep
<1> QED BY <1>1, SystemInit, PTL DEF Spec

LEMMA InvIsTyped == SystemInv => TypeOK
BY DEF SystemInv, States, TargetsOK, PendingOK, ReplyOK, TypeOK

\* Devices, targets and the call under way keep to their types.
COROLLARY SystemTyped == Spec => []TypeOK
BY SystemSafe, InvIsTyped, PTL

\* No command, to a system of any depth, runs into write protection: what the
\* lock of a device would refuse is refused as an id that is not there.
THEOREM SystemWrites == Spec => []InputsAreWritable
<1>1. SystemInv => InputsAreWritable
  BY DEF SystemInv, ReplyOK, PendingOK, InputsAreWritable
<1> QED BY <1>1, SystemSafe, PTL

\* A write or a toggle that is answered OK has put the target of its system in
\* the device, whichever systems share it and whatever changes it meanwhile.
THEOREM SystemApplies == Spec => OkMeansApplied
<1>1. SystemInv /\ [Next]_vars =>
        [ LET s == reply'.by
              raced == /\ reply'.op = "invoke"
                       /\ dev.value[Device[s]] # pending.seen
          IN  /\ reply'.op \in {"write", "invoke"}
              /\ reply'.status = "OK"
              /\ ~raced
              => target'[s] = dev'.value[Device[s]] ]_vars
  BY SystemStep DEF Applied
<1> QED BY <1>1, SystemSafe, PTL DEF Spec, OkMeansApplied

\* In a tree whose counts fit in a byte, an alias gives the id of a command of
\* the leaf that offers the alias, at every level and under any locks.
THEOREM SystemAliases == TreeFits => (Spec => []AliasesAgree)
<1> SUFFICES ASSUME TreeFits PROVE Spec => []AliasesAgree
  OBVIOUS
<1>1. ASSUME SystemInv PROVE AliasesAgree
  <2> DEFINE R == dev.read_only
  <2> SUFFICES ASSUME NEW s \in Tops, NEW id \in 0..(Count[R]["alias"][s] - 1)
               PROVE  LET info == mc_composite_get_alias[R][s][id]
                      IN  /\ info.id < Count[R][info.type][s]
                          /\ Dispatch[R][info.type][s][info.id] =
                               [system |-> Dispatch[R]["alias"][s][id].system, id |-> 0]
    BY DEF AliasesAgree
  <2>1. R \in Bits /\ s \in Systems /\ "alias" \in Members
    BY <1>1, CompositeAssumption DEF SystemInv, States, DeviceStates, Bits, Members
  <2>2. Count[R]["alias"][s] \in Ids
    BY <2>1, CountIsByte
  <2>3. id \in Ids /\ id < Count[R]["alias"][s]
    <3> HIDE DEF R
    <3> QED BY <2>2, Below
  <2> HIDE DEF R
  <2> QED BY <2>1, <2>3, AllAgree DEF Agrees
<1>2. Spec => []SystemInv
  BY SystemSafe
<1> QED BY <1>1, <1>2, PTL

-----------------------------------------------------------------------------
(* The answers of the console                                              *)

IsFlat(seqs, flat) ==
    flat = [i \in 1..Len(seqs) |-> IF i = 1 THEN seqs[i] ELSE flat[i - 1] \o seqs[i]]

LEMMA FlatExists ==
    ASSUME NEW seqs, Len(seqs) \in Nat
    PROVE  \E flat : IsFlat(seqs, flat)
<1> DEFINE L == Len(seqs)
           Upto(m, f) == \A i \in 1..L : i <= m =>
                            f[i] = IF i = 1 THEN seqs[i] ELSE f[i - 1] \o seqs[i]
           S == {m \in Nat : \E f : Upto(m, f)}
<1>1. 0 \in S
  <2>1. Upto(0, [i \in 1..L |-> 0])
    OBVIOUS
  <2> QED BY <2>1
<1>2. ASSUME NEW m \in Nat, m \in S PROVE m + 1 \in S
  <2>1. PICK f : Upto(m, f)
    BY <1>2
  <2> DEFINE next == IF m = 0 THEN seqs[1] ELSE f[m] \o seqs[m + 1]
             g == [i \in 1..L |-> IF i = m + 1 THEN next ELSE f[i]]
  <2>2. ASSUME NEW i \in 1..L, i <= m + 1
        PROVE  g[i] = IF i = 1 THEN seqs[i] ELSE g[i - 1] \o seqs[i]
    <3>1. CASE i = m + 1
      <4>1. g[i] = next
        BY <3>1
      <4>2. m # 0 => g[i - 1] = f[m] /\ i - 1 = m
        BY <3>1
      <4> HIDE DEF g
      <4> QED BY <3>1, <4>1, <4>2
    <3>2. CASE i <= m
      <4>1. g[i] = f[i] /\ (i # 1 => g[i - 1] = f[i - 1])
        BY <3>2
      <4> HIDE DEF g
      <4> QED BY <2>1, <3>2, <4>1
    <3> QED BY <2>2, <3>1, <3>2
  <2> HIDE DEF g
  <2>3. Upto(m + 1, g)
    BY <2>2
  <2> QED BY <2>3
<1> HIDE DEF S
<1>3. L \in S
  BY <1>1, <1>2, Induction
<1>4. PICK f : Upto(L, f)
  BY <1>3 DEF S
<1> DEFINE g == [i \in 1..L |-> f[i]]
<1>5. IsFlat(seqs, g)
  <2>1. ASSUME NEW i \in 1..L PROVE g[i] = IF i = 1 THEN seqs[i] ELSE g[i - 1] \o seqs[i]
    <3>1. g[i] = f[i] /\ (i # 1 => g[i - 1] = f[i - 1])
      OBVIOUS
    <3> HIDE DEF g
    <3> QED BY <1>4, <3>1
  <2> HIDE DEF g
  <2>2. g = [i \in 1..L |-> g[i]]
    BY DEF g
  <2> QED BY <2>1, <2>2 DEF IsFlat
<1> QED BY <1>5

LEMMA FlatIsSeq ==
    ASSUME NEW T, NEW seqs \in Seq(Seq(T)), NEW flat, IsFlat(seqs, flat)
    PROVE  \A i \in 1..Len(seqs) : flat[i] \in Seq(T)
<1> DEFINE L == Len(seqs)
           S == {i \in Nat : i + 1 \in 1..L => flat[i + 1] \in Seq(T)}
<1>1. L \in Nat /\ \A i \in 1..L : seqs[i] \in Seq(T)
  OBVIOUS
<1>2. \A i \in 1..L : flat[i] = IF i = 1 THEN seqs[i] ELSE flat[i - 1] \o seqs[i]
  BY DEF IsFlat
<1> HIDE DEF L
<1>3. 0 \in S
  BY <1>1, <1>2
<1>4. ASSUME NEW i \in Nat, i \in S PROVE i + 1 \in S
  <2> SUFFICES ASSUME (i + 1) + 1 \in 1..L PROVE flat[(i + 1) + 1] \in Seq(T)
    OBVIOUS
  <2> DEFINE j == (i + 1) + 1
  <2>1. j # 1 /\ j - 1 = i + 1 /\ i + 1 \in 1..L /\ j \in 1..L
    BY <1>1
  <2>2. flat[j - 1] \in Seq(T) /\ seqs[j] \in Seq(T)
    BY <1>1, <1>4, <2>1
  <2> HIDE DEF j
  <2>3. flat[j] = flat[j - 1] \o seqs[j]
    BY <1>2, <2>1
  <2>4. flat[j] \in Seq(T)
    BY <2>2, <2>3, ConcatProperties
  <2> QED BY <2>4 DEF j
<1> HIDE DEF S
<1>5. \A i \in Nat : i \in S
  BY <1>3, <1>4, Induction
<1>6. ASSUME NEW i \in 1..L PROVE flat[i] \in Seq(T)
  <2>1. i - 1 \in Nat /\ (i - 1) + 1 = i
    BY <1>1
  <2> QED BY <1>5, <2>1 DEF S
<1> QED BY <1>6 DEF L

LEMMA FlattenIsFlat ==
    ASSUME NEW seqs, Len(seqs) \in Nat
    PROVE  \E flat : /\ IsFlat(seqs, flat)
                     /\ FlattenSeq(seqs) = IF Len(seqs) = 0 THEN seqs ELSE flat[Len(seqs)]
<1> DEFINE flat == CHOOSE flat : IsFlat(seqs, flat)
<1>1. IsFlat(seqs, flat)
  BY FlatExists
<1>2. FlattenSeq(seqs) = IF Len(seqs) = 0 THEN seqs ELSE flat[Len(seqs)]
  BY DEF FlattenSeq, IsFlat
<1> HIDE DEF flat
<1> QED BY <1>1, <1>2

LEMMA FlattenIsSeq ==
    ASSUME NEW T, NEW seqs \in Seq(Seq(T))
    PROVE  FlattenSeq(seqs) \in Seq(T)
<1>1. Len(seqs) \in Nat /\ (Len(seqs) = 0 => seqs = <<>>)
  OBVIOUS
<1>2. PICK flat : /\ IsFlat(seqs, flat)
                  /\ FlattenSeq(seqs) = IF Len(seqs) = 0 THEN seqs ELSE flat[Len(seqs)]
  BY <1>1, FlattenIsFlat
<1>3. Len(seqs) # 0 => Len(seqs) \in 1..Len(seqs)
  BY <1>1
<1>4. <<>> \in Seq(T)
  OBVIOUS
<1> QED BY <1>1, <1>2, <1>3, <1>4, FlatIsSeq

\* Nothing of the sequences is lost.
LEMMA FlattenHolds ==
    ASSUME NEW T, NEW seqs \in Seq(Seq(T)), NEW i \in 1..Len(seqs), NEW k \in DOMAIN seqs[i]
    PROVE  \E n \in DOMAIN FlattenSeq(seqs) : FlattenSeq(seqs)[n] = seqs[i][k]
<1> DEFINE L == Len(seqs)
           x == seqs[i][k]
<1>1. L \in Nat /\ \A j \in 1..L : seqs[j] \in Seq(T)
  OBVIOUS
<1>2. PICK flat : /\ IsFlat(seqs, flat)
                  /\ FlattenSeq(seqs) = IF L = 0 THEN seqs ELSE flat[L]
  BY <1>1, FlattenIsFlat
<1>3. \A j \in 1..L : flat[j] = IF j = 1 THEN seqs[j] ELSE flat[j - 1] \o seqs[j]
  BY <1>2 DEF IsFlat
<1>4. \A j \in 1..L : flat[j] \in Seq(T)
  BY <1>2, FlatIsSeq
<1> DEFINE Holds(j) == \E n \in DOMAIN flat[j] : flat[j][n] = x
           S == {m \in Nat : i + m \in 1..L => Holds(i + m)}
<1>5. ASSUME NEW s \in Seq(T), NEW t \in Seq(T), NEW n
      PROVE  /\ n \in DOMAIN s => n \in DOMAIN (s \o t) /\ (s \o t)[n] = s[n]
             /\ n \in DOMAIN t => Len(s) + n \in DOMAIN (s \o t) /\ (s \o t)[Len(s) + n] = t[n]
  OBVIOUS
<1> HIDE DEF L
<1>6. 0 \in S
  <2>1. i + 0 = i /\ i \in 1..L /\ i - 1 \in Int
    BY DEF L
  <2>2. Holds(i)
    <3>1. CASE i = 1
      <4>1. flat[i] = seqs[i]
        BY <1>3, <2>1, <3>1
      <4> QED BY <4>1
    <3>2. CASE i # 1
      <4>1. i - 1 \in 1..L
        BY <1>1, <2>1, <3>2
      <4>2. flat[i - 1] \in Seq(T) /\ seqs[i] \in Seq(T) /\ flat[i] = flat[i - 1] \o seqs[i]
        BY <1>1, <1>3, <1>4, <2>1, <3>2, <4>1
      <4>3. /\ Len(flat[i - 1]) + k \in DOMAIN (flat[i - 1] \o seqs[i])
            /\ (flat[i - 1] \o seqs[i])[Len(flat[i - 1]) + k] = seqs[i][k]
        BY <1>5, <4>2, Zenon
      <4> QED BY <4>2, <4>3, Zenon
    <3> QED BY <3>1, <3>2
  <2> QED BY <2>1, <2>2
<1>7. ASSUME NEW m \in Nat, m \in S PROVE m + 1 \in S
  <2> SUFFICES ASSUME i + (m + 1) \in 1..L PROVE Holds(i + (m + 1))
    OBVIOUS
  <2> DEFINE j == i + (m + 1)
  <2>1. i \in 1..L
    BY DEF L
  <2>2. j # 1 /\ j - 1 = i + m /\ i + m \in 1..L /\ j \in 1..L
    BY <1>1, <2>1
  <2>3. Holds(i + m)
    BY <1>7, <2>2
  <2> HIDE DEF j
  <2>4. flat[j] = flat[j - 1] \o seqs[j] /\ flat[j - 1] \in Seq(T) /\ seqs[j] \in Seq(T)
    BY <1>1, <1>3, <1>4, <2>2
  <2>5. PICK n \in DOMAIN flat[j - 1] : flat[j - 1][n] = x
    BY <2>2, <2>3
  <2>6. n \in DOMAIN (flat[j - 1] \o seqs[j]) /\ (flat[j - 1] \o seqs[j])[n] = x
    BY <1>5, <2>4, <2>5, Zenon
  <2>7. Holds(j)
    BY <2>4, <2>6, Zenon
  <2> QED BY <2>7 DEF j
<1>8. Holds(L) /\ L # 0
  <2> HIDE DEF Holds
  <2>1. L - i \in Nat /\ i + (L - i) = L /\ L \in 1..L /\ L # 0
    BY <1>1 DEF L
  <2> HIDE DEF S
  <2>2. L - i \in S
    BY <1>6, <1>7, <2>1, Induction
  <2> QED BY <2>1, <2>2 DEF S
<1> QED BY <1>2, <1>8

-----------------------------------------------------------------------------
(* The leaves of a system                                                  *)

OrderOf(order, s) ==
    IF s \in Leaves THEN <<s>>
    ELSE FlattenSeq([i \in DOMAIN Kids[s] |-> order[Kids[s][i]]])

IsOrder(order) == order = [s \in Systems |-> OrderOf(order, s)]

LEMMA OrderExists == \E order : IsOrder(order)
<1>1. PICK depth \in [Systems -> Nat], N \in Nat :
         /\ \A s \in Systems : depth[s] < N
         /\ \A c \in Composites : \A i \in DOMAIN Kids[c] :
              Kids[c][i] \in Systems /\ depth[Kids[c][i]] < depth[c]
  BY Depth
<1>2. ASSUME NEW f, NEW g, NEW s \in Systems,
             s \in Composites => \A i \in DOMAIN Kids[s] : f[Kids[s][i]] = g[Kids[s][i]]
      PROVE  OrderOf(f, s) = OrderOf(g, s)
  <2>1. s \in Composites =>
          [i \in DOMAIN Kids[s] |-> f[Kids[s][i]]] = [i \in DOMAIN Kids[s] |-> g[Kids[s][i]]]
    BY <1>2
  <2> QED BY <2>1 DEF OrderOf, Systems
<1> DEFINE Upto(m, f) == \A s \in Systems : depth[s] < m => f[s] = OrderOf(f, s)
           S == {m \in Nat : \E f : Upto(m, f)}
<1>3. 0 \in S
  OBVIOUS
<1>4. ASSUME NEW m \in Nat, m \in S PROVE m + 1 \in S
  <2>1. PICK f : Upto(m, f)
    BY <1>4
  <2> DEFINE g == [s \in Systems |-> IF depth[s] = m THEN OrderOf(f, s) ELSE f[s]]
  <2>2. ASSUME NEW s \in Systems, depth[s] < m + 1
        PROVE  g[s] = OrderOf(g, s)
    <3>1. s \in Composites => \A i \in DOMAIN Kids[s] : f[Kids[s][i]] = g[Kids[s][i]]
      BY <1>1, <2>2
    <3>2. OrderOf(f, s) = OrderOf(g, s)
      <4> HIDE DEF g
      <4> QED BY <1>2, <3>1
    <3>3. g[s] = OrderOf(f, s)
      BY <1>1, <2>1, <2>2
    <3> QED BY <3>2, <3>3
  <2> HIDE DEF g
  <2> QED BY <2>2
<1> HIDE DEF S
<1>5. N \in S
  BY <1>3, <1>4, Induction
<1>6. PICK f : Upto(N, f)
  BY <1>5 DEF S
<1> DEFINE g == [s \in Systems |-> f[s]]
<1>7. ASSUME NEW s \in Systems PROVE f[s] = OrderOf(g, s)
  <2>1. s \in Composites => \A i \in DOMAIN Kids[s] : f[Kids[s][i]] = g[Kids[s][i]]
    BY <1>1
  <2>2. OrderOf(f, s) = OrderOf(g, s)
    <3> HIDE DEF g
    <3> QED BY <1>2, <2>1
  <2> QED BY <1>1, <1>6, <2>2
<1>8. IsOrder(g)
  <2>1. [s \in Systems |-> f[s]] = [s \in Systems |-> OrderOf(g, s)]
    <3> HIDE DEF g
    <3> QED BY <1>7
  <2> QED BY <2>1 DEF IsOrder
<1> QED BY <1>8

LEMMA OrderIs == \A s \in Systems : LeafOrder[s] = OrderOf(LeafOrder, s)
<1> DEFINE order == CHOOSE order : IsOrder(order)
<1>1. LeafOrder = [s \in Systems |-> order[s]]
  BY DEF LeafOrder, IsOrder, OrderOf
<1>2. IsOrder(order)
  BY OrderExists
<1> HIDE DEF order
<1>3. order = [s \in Systems |-> OrderOf(order, s)]
  BY <1>2 DEF IsOrder
<1>4. LeafOrder = order
  BY <1>1, <1>3
<1> QED BY <1>3, <1>4

LEMMA OrderIsSeq == \A s \in Systems : LeafOrder[s] \in Seq(Leaves)
<1> DEFINE S == {s \in Systems : LeafOrder[s] \in Seq(Leaves)}
<1>1. Leaves \subseteq S
  <2> SUFFICES ASSUME NEW s \in Leaves PROVE LeafOrder[s] \in Seq(Leaves)
    BY DEF Systems
  <2>1. LeafOrder[s] = <<s>>
    BY OrderIs DEF OrderOf, Systems
  <2> QED BY <2>1
<1>2. ASSUME NEW c \in Composites, \A i \in DOMAIN Kids[c] : Kids[c][i] \in S
      PROVE  c \in S
  <2>1. c \in Systems /\ c \notin Leaves
    BY CompositeAssumption DEF Systems
  <2> DEFINE seqs == [i \in DOMAIN Kids[c] |-> LeafOrder[Kids[c][i]]]
  <2>2. LeafOrder[c] = FlattenSeq(seqs)
    BY <2>1, OrderIs DEF OrderOf
  <2>3. seqs \in Seq(Seq(Leaves))
    <3>1. Len(Kids[c]) \in Nat /\ DOMAIN Kids[c] = 1..Len(Kids[c])
      BY KidsOf
    <3> QED BY <1>2, <3>1
  <2> HIDE DEF seqs
  <2>4. FlattenSeq(seqs) \in Seq(Leaves)
    BY <2>3, FlattenIsSeq
  <2> QED BY <2>1, <2>2, <2>4
<1> HIDE DEF S
<1>3. Systems \subseteq S
  BY <1>1, <1>2, TreeInduction
<1> QED BY <1>3 DEF S

Inside(leaf, s) == \E i \in DOMAIN LeafOrder[s] : LeafOrder[s][i] = leaf

LEMMA InsideKid ==
    ASSUME NEW c \in Composites, NEW i \in DOMAIN Kids[c], NEW leaf, Inside(leaf, Kids[c][i])
    PROVE  Inside(leaf, c)
<1> DEFINE seqs == [j \in DOMAIN Kids[c] |-> LeafOrder[Kids[c][j]]]
<1>1. c \in Systems /\ c \notin Leaves
  BY CompositeAssumption DEF Systems
<1>2. LeafOrder[c] = FlattenSeq(seqs)
  BY <1>1, OrderIs DEF OrderOf
<1>3. /\ Len(Kids[c]) \in Nat /\ DOMAIN Kids[c] = 1..Len(Kids[c])
      /\ \A j \in DOMAIN Kids[c] : Kids[c][j] \in Systems
  BY KidsOf
<1>4. seqs \in Seq(Seq(Leaves)) /\ i \in 1..Len(seqs) /\ seqs[i] = LeafOrder[Kids[c][i]]
  BY <1>3, OrderIsSeq
<1> HIDE DEF seqs
<1>5. PICK k \in DOMAIN seqs[i] : seqs[i][k] = leaf
  BY <1>4 DEF Inside
<1>6. \E n \in DOMAIN FlattenSeq(seqs) : FlattenSeq(seqs)[n] = seqs[i][k]
  BY <1>4, FlattenHolds
<1> QED BY <1>2, <1>5, <1>6 DEF Inside

\* A command reaches a leaf of the system that it is sent to.
LEMMA ReachedIsInside ==
    ASSUME NEW R \in Bits, NEW type \in Members
    PROVE  \A s \in Systems : \A id \in Ids :
             id < Count[R][type][s] => Inside(Dispatch[R][type][s][id].system, s)
<1> DEFINE S == {s \in Systems : \A id \in Ids :
                   id < Count[R][type][s] => Inside(Dispatch[R][type][s][id].system, s)}
<1>1. Leaves \subseteq S
  <2> SUFFICES ASSUME NEW s \in Leaves, NEW id \in Ids
               PROVE  Inside(Dispatch[R][type][s][id].system, s)
    BY DEF Systems
  <2>1. Dispatch[R][type][s][id].system = s
    <3>1. Dispatch[R][type][s][id] = [system |-> s, id |-> id]
      BY DispatchLeaf
    <3> QED BY <3>1
  <2>2. LeafOrder[s] = <<s>>
    BY OrderIs DEF OrderOf, Systems
  <2>3. 1 \in DOMAIN <<s>> /\ <<s>>[1] = s
    OBVIOUS
  <2> QED BY <2>1, <2>2, <2>3 DEF Inside
<1>2. ASSUME NEW c \in Composites, \A i \in DOMAIN Kids[c] : Kids[c][i] \in S
      PROVE  c \in S
  <2>1. c \in Systems
    BY DEF Systems
  <2> SUFFICES ASSUME NEW id \in Ids, id < Count[R][type][c]
               PROVE  Inside(Dispatch[R][type][c][id].system, c)
    BY <2>1
  <2> DEFINE there == Route(KidCounts(R, type, c), id)
  <2>2. /\ there.child # 0 /\ there.child \in DOMAIN Kids[c]
        /\ there.id \in Ids /\ there.id < Count[R][type][Kids[c][there.child]]
    BY OfferedByChild
  <2>3. Dispatch[R][type][c][id] = Dispatch[R][type][Kids[c][there.child]][there.id]
    BY <2>2, DispatchKid
  <2> HIDE DEF there
  <2>4. Inside(Dispatch[R][type][Kids[c][there.child]][there.id].system, Kids[c][there.child])
    BY <1>2, <2>2
  <2> QED BY <2>2, <2>3, <2>4, InsideKid
<1> HIDE DEF S
<1>3. Systems \subseteq S
  BY <1>1, <1>2, TreeInduction
<1> QED BY <1>3 DEF S

-----------------------------------------------------------------------------
(* The flat table of a system                                               *)

LEMMA ConcatRegroups ==
    ASSUME NEW T, NEW u \in Seq(T), NEW v \in Seq(T), NEW w \in Seq(T)
    PROVE  (u \o v) \o w = u \o (v \o w)
BY ConcatAssociative

LEMMA ConcatPlaces ==
    ASSUME NEW T, NEW a \in Seq(T), NEW b \in Seq(T)
    PROVE  /\ a \o b \in Seq(T) /\ Len(a) \in Nat /\ Len(b) \in Nat
           /\ Len(a \o b) = Len(a) + Len(b)
           /\ \A k \in 1..Len(a) : (a \o b)[k] = a[k]
           /\ \A k \in 1..Len(b) : (a \o b)[Len(a) + k] = b[k]
OBVIOUS

\* Where each item of the sequences comes to lie.
LEMMA FlattenPlaces ==
    ASSUME NEW T, NEW seqs \in Seq(Seq(T)), NEW counts \in Seq(Nat),
           Len(counts) = Len(seqs), \A i \in 1..Len(seqs) : counts[i] = Len(seqs[i])
    PROVE  /\ Len(FlattenSeq(seqs)) = Sums(counts)[Len(seqs)]
           /\ \A i \in 1..Len(seqs) : \A k \in 1..Len(seqs[i]) :
                FlattenSeq(seqs)[Sums(counts)[i - 1] + k] = seqs[i][k]
<1> DEFINE L == Len(seqs)
           sum == Sums(counts)
<1>1. /\ L \in Nat /\ (L = 0 => seqs = <<>>)
      /\ \A j \in 1..L : seqs[j] \in Seq(T) /\ Len(seqs[j]) \in Nat
  OBVIOUS
<1>2. PICK flat : /\ IsFlat(seqs, flat)
                  /\ FlattenSeq(seqs) = IF L = 0 THEN seqs ELSE flat[L]
  BY <1>1, FlattenIsFlat
<1>3. \A j \in 1..L : /\ flat[j] = IF j = 1 THEN seqs[j] ELSE flat[j - 1] \o seqs[j]
                      /\ flat[j] \in Seq(T)
  BY <1>2, FlatIsSeq DEF IsFlat
<1>4. /\ sum[0] = 0
      /\ \A n \in 1..L : sum[n] = sum[n - 1] + Len(seqs[n])
      /\ \A n \in 0..L : sum[n] \in Nat
      /\ \A m, n \in 0..L : m <= n => sum[m] <= sum[n]
  BY SumsStep, SumsGrow
<1> DEFINE Places(n) == /\ Len(flat[n]) = sum[n]
                        /\ \A i \in 1..n : \A k \in 1..Len(seqs[i]) :
                             flat[n][sum[i - 1] + k] = seqs[i][k]
           S == {n \in Nat : n \in 1..L => Places(n)}
<1> HIDE DEF L, sum
<1>5. 0 \in S
  OBVIOUS
<1>6. ASSUME NEW n \in Nat, n \in S PROVE n + 1 \in S
  <2> SUFFICES ASSUME n + 1 \in 1..L PROVE Places(n + 1)
    OBVIOUS
  <2>1. n + 1 \in 1..L /\ n \in 0..L /\ (n + 1) - 1 = n
    BY <1>1
  <2>2. sum[n + 1] = sum[n] + Len(seqs[n + 1]) /\ sum[n] \in Nat
    BY <1>4, <2>1
  <2>3. CASE n = 0
    <3>1. flat[n + 1] = seqs[n + 1] /\ sum[n] = 0
      BY <1>3, <1>4, <2>1, <2>3
    <3>2. Len(seqs[n + 1]) \in Nat
      BY <1>1, <2>1
    <3>3. \A i \in 1..(n + 1) : i = n + 1
      BY <2>3
    <3>4. ASSUME NEW k \in 1..Len(seqs[n + 1])
          PROVE  flat[n + 1][sum[(n + 1) - 1] + k] = seqs[n + 1][k]
      <4>1. sum[n] + k = k
        BY <3>1, <3>2
      <4> QED BY <2>1, <3>1, <4>1
    <3>5. Len(flat[n + 1]) = sum[n + 1]
      BY <2>2, <3>1, <3>2
    <3>6. ASSUME NEW i \in 1..(n + 1), NEW k \in 1..Len(seqs[i])
          PROVE  flat[n + 1][sum[i - 1] + k] = seqs[i][k]
      <4>1. i = n + 1
        BY <3>3
      <4> QED BY <3>4, <4>1
    <3> QED BY <3>5, <3>6
  <2>4. CASE n # 0
    <3>1. n \in 1..L
      BY <1>1, <2>1, <2>4
    <3>2. Places(n)
      BY <1>6, <3>1
    <3>3. flat[n + 1] = flat[n] \o seqs[n + 1] /\ flat[n] \in Seq(T) /\ seqs[n + 1] \in Seq(T)
      <4>1. n + 1 # 1
        BY <2>4
      <4> QED BY <1>1, <1>3, <2>1, <3>1, <4>1
    <3> DEFINE a == flat[n]
               b == seqs[n + 1]
    <3>4. /\ Len(a) = sum[n] /\ Len(b) \in Nat
          /\ Len(a \o b) = Len(a) + Len(b)
          /\ \A k \in 1..Len(a) : (a \o b)[k] = a[k]
          /\ \A k \in 1..Len(b) : (a \o b)[Len(a) + k] = b[k]
      <4>1. Len(a) = sum[n]
        BY <3>2
      <4>2. a \in Seq(T) /\ b \in Seq(T)
        BY <3>3
      <4> HIDE DEF a, b
      <4>3. \A u \in Seq(T), v \in Seq(T) :
               /\ Len(v) \in Nat /\ Len(u \o v) = Len(u) + Len(v)
               /\ \A k \in 1..Len(u) : (u \o v)[k] = u[k]
               /\ \A k \in 1..Len(v) : (u \o v)[Len(u) + k] = v[k]
        BY ConcatPlaces
      <4> QED BY <4>1, <4>2, <4>3, Zenon
    <3>5. Len(flat[n + 1]) = sum[n + 1]
      BY <2>2, <3>3, <3>4
    <3>6. ASSUME NEW i \in 1..n, NEW k \in 1..Len(seqs[i])
          PROVE  flat[n + 1][sum[i - 1] + k] = seqs[i][k]
      <4>1. i \in 1..L /\ i \in 0..L /\ i - 1 \in 0..L
        BY <1>1, <3>1
      <4>2. /\ sum[i - 1] \in Nat /\ sum[i] \in Nat /\ sum[i] <= sum[n]
            /\ sum[i] = sum[i - 1] + Len(seqs[i]) /\ Len(seqs[i]) \in Nat
        BY <1>1, <1>4, <2>1, <4>1
      <4> DEFINE p == sum[i - 1] + k
                 x == sum[i - 1]
                 y == sum[i]
                 l == Len(seqs[i])
                 z == sum[n]
      <4>3. p \in 1..Len(a)
        <5>1. Len(a) = z /\ p = x + k /\ k \in 1..l
          BY <3>4
        <5>2. x \in Nat /\ y \in Nat /\ z \in Nat /\ y <= z /\ y = x + l /\ l \in Nat
          BY <2>2, <4>2
        <5> HIDE DEF a, p, x, y, l, z
        <5> QED BY <5>1, <5>2
      <4>4. flat[n][p] = seqs[i][k]
        BY <3>2
      <4>5. (a \o b)[p] = a[p]
        <5> HIDE DEF p
        <5> QED BY <3>4, <4>3
      <4> QED BY <3>3, <4>4, <4>5
    <3>7. ASSUME NEW k \in 1..Len(seqs[n + 1])
          PROVE  flat[n + 1][sum[(n + 1) - 1] + k] = seqs[n + 1][k]
      <4>1. (a \o b)[Len(a) + k] = b[k]
        BY <3>4
      <4> QED BY <2>1, <3>3, <3>4, <4>1
    <3>8. \A i \in 1..(n + 1) : i = n + 1 \/ i \in 1..n
      OBVIOUS
    <3> QED BY <3>5, <3>6, <3>7, <3>8
  <2> QED BY <2>3, <2>4
<1>7. CASE L = 0
  BY <1>1, <1>2, <1>4, <1>7 DEF L, sum
<1>8. CASE L # 0
  <2> HIDE DEF S
  <2>1. L \in S
    BY <1>1, <1>5, <1>6, Induction
  <2>2. Places(L)
    BY <1>1, <1>8, <2>1 DEF S
  <2>3. FlattenSeq(seqs) = flat[L]
    BY <1>2, <1>8 DEF L
  <2> QED BY <2>2, <2>3 DEF L, sum
<1> QED BY <1>7, <1>8

\* A sequence in two parts is flat where each part is.
LEMMA FlattenConcat ==
    ASSUME NEW T, NEW a \in Seq(Seq(T)), NEW b \in Seq(Seq(T))
    PROVE  FlattenSeq(a \o b) = FlattenSeq(a) \o FlattenSeq(b)
<1> DEFINE ab == a \o b
           A == Len(a)
           B == Len(b)
<1>1. /\ A \in Nat /\ B \in Nat /\ ab \in Seq(Seq(T)) /\ Len(ab) = A + B
      /\ (A = 0 => a = <<>>) /\ (B = 0 => b = <<>>)
      /\ \A i \in 1..A : a[i] \in Seq(T) /\ ab[i] = a[i]
      /\ \A i \in 1..B : b[i] \in Seq(T) /\ ab[A + i] = b[i]
  OBVIOUS
<1>2. PICK fa : /\ IsFlat(a, fa)
                /\ FlattenSeq(a) = IF A = 0 THEN a ELSE fa[A]
  BY <1>1, FlattenIsFlat
<1>3. PICK fb : /\ IsFlat(b, fb)
                /\ FlattenSeq(b) = IF B = 0 THEN b ELSE fb[B]
  BY <1>1, FlattenIsFlat
<1> HIDE DEF ab
<1>4. PICK f : /\ IsFlat(ab, f)
               /\ FlattenSeq(ab) = IF A + B = 0 THEN ab ELSE f[A + B]
  <2> HIDE DEF A, B
  <2>1. Len(ab) = A + B /\ Len(ab) \in Nat
    BY <1>1
  <2>2. \E f : /\ IsFlat(ab, f)
               /\ FlattenSeq(ab) = IF Len(ab) = 0 THEN ab ELSE f[Len(ab)]
    BY <2>1, FlattenIsFlat
  <2> QED BY <2>1, <2>2
<1>5. /\ FlattenSeq(a) \in Seq(T) /\ FlattenSeq(b) \in Seq(T) /\ FlattenSeq(ab) \in Seq(T)
  BY <1>1, FlattenIsSeq
<1>6. /\ \A i \in 1..A : /\ fa[i] = IF i = 1 THEN a[i] ELSE fa[i - 1] \o a[i]
                         /\ fa[i] \in Seq(T)
      /\ \A i \in 1..B : /\ fb[i] = IF i = 1 THEN b[i] ELSE fb[i - 1] \o b[i]
                         /\ fb[i] \in Seq(T)
      /\ \A i \in 1..(A + B) : f[i] = IF i = 1 THEN ab[i] ELSE f[i - 1] \o ab[i]
  <2>1. \A i \in 1..A : /\ fa[i] = IF i = 1 THEN a[i] ELSE fa[i - 1] \o a[i]
                        /\ fa[i] \in Seq(T)
    BY <1>2, FlatIsSeq DEF IsFlat
  <2>2. \A i \in 1..B : /\ fb[i] = IF i = 1 THEN b[i] ELSE fb[i - 1] \o b[i]
                        /\ fb[i] \in Seq(T)
    BY <1>3, FlatIsSeq DEF IsFlat
  <2> HIDE DEF A, B
  <2>3. \A i \in 1..(A + B) : f[i] = IF i = 1 THEN ab[i] ELSE f[i - 1] \o ab[i]
    BY <1>1, <1>4 DEF IsFlat
  <2> QED BY <2>1, <2>2, <2>3
<1> HIDE DEF A, B
<1>7. CASE A = 0
  <2>1. a = <<>> /\ FlattenSeq(a) = <<>>
    BY <1>1, <1>2, <1>7
  <2>2. a \o b = b
    BY <2>1, ConcatEmptySeq
  <2> QED BY <1>5, <2>1, <2>2, ConcatEmptySeq
<1>8. CASE A # 0 /\ B = 0
  <2>1. b = <<>> /\ FlattenSeq(b) = <<>>
    BY <1>1, <1>3, <1>8
  <2>2. a \o b = a
    BY <2>1, ConcatEmptySeq
  <2> QED BY <1>5, <2>1, <2>2, ConcatEmptySeq
<1>9. CASE A # 0 /\ B # 0
  <2> DEFINE S == {n \in Nat : n + 1 \in 1..A => f[n + 1] = fa[n + 1]}
  <2>1. 0 \in S
    <3>1. 1 \in 1..A /\ 1 \in 1..(A + B) /\ 0 + 1 = 1
      BY <1>1, <1>9
    <3>2. f[1] = ab[1] /\ fa[1] = a[1] /\ ab[1] = a[1]
      BY <1>1, <1>6, <3>1
    <3> QED BY <3>1, <3>2
  <2>2. ASSUME NEW n \in Nat, n \in S PROVE n + 1 \in S
    <3> SUFFICES ASSUME (n + 1) + 1 \in 1..A PROVE f[(n + 1) + 1] = fa[(n + 1) + 1]
      OBVIOUS
    <3> DEFINE j == (n + 1) + 1
    <3>1. j # 1 /\ j - 1 = n + 1 /\ n + 1 \in 1..A /\ j \in 1..A /\ j \in 1..(A + B)
      BY <1>1
    <3>2. f[j - 1] = fa[j - 1]
      BY <2>2, <3>1
    <3> HIDE DEF j
    <3>3. f[j] = f[j - 1] \o ab[j] /\ fa[j] = fa[j - 1] \o a[j] /\ ab[j] = a[j]
      BY <1>1, <1>6, <3>1
    <3>4. f[j] = fa[j]
      BY <3>2, <3>3
    <3> QED BY <3>4 DEF j
  <2>3. f[A] = fa[A] /\ A \in 1..A
    <3>1. A - 1 \in Nat /\ (A - 1) + 1 = A /\ A \in 1..A
      BY <1>1, <1>9
    <3> HIDE DEF S
    <3>2. A - 1 \in S
      BY <2>1, <2>2, <3>1, Induction
    <3> QED BY <3>1, <3>2 DEF S
  <2> HIDE DEF S
  <2> DEFINE Q == {n \in Nat : n + 1 \in 1..B => f[A + (n + 1)] = fa[A] \o fb[n + 1]}
  <2>4. 0 \in Q
    <3>1. /\ 1 \in 1..B /\ A + 1 \in 1..(A + B) /\ 0 + 1 = 1 /\ A + 1 # 1 /\ (A + 1) - 1 = A
      BY <1>1, <1>9
    <3>2. f[A + 1] = f[A] \o ab[A + 1] /\ fb[1] = b[1] /\ ab[A + 1] = b[1]
      BY <1>1, <1>6, <3>1
    <3> QED BY <2>3, <3>1, <3>2
  <2>5. ASSUME NEW n \in Nat, n \in Q PROVE n + 1 \in Q
    <3> SUFFICES ASSUME (n + 1) + 1 \in 1..B
                 PROVE  f[A + ((n + 1) + 1)] = fa[A] \o fb[(n + 1) + 1]
      <4>1. n + 1 \in Nat
        OBVIOUS
      <4> QED BY <4>1, Zenon
    <3> DEFINE j == (n + 1) + 1
    <3>1. /\ j # 1 /\ j - 1 = n + 1 /\ n + 1 \in 1..B /\ j \in 1..B /\ j - 1 \in 1..B
          /\ A + j \in 1..(A + B) /\ A + j # 1 /\ (A + j) - 1 = A + (j - 1)
      BY <1>1
    <3>2. f[A + (j - 1)] = fa[A] \o fb[j - 1]
      BY <2>5, <3>1
    <3> HIDE DEF j
    <3>3. /\ fb[j] = fb[j - 1] \o b[j]
          /\ fa[A] \in Seq(T) /\ fb[j - 1] \in Seq(T)
      BY <1>6, <2>3, <3>1
    <3>6. b[j] \in Seq(T) /\ ab[A + j] = b[j]
      BY <1>1, <3>1
    <3>7. f[A + j] = f[A + (j - 1)] \o b[j]
      <4>1. f[A + j] = f[(A + j) - 1] \o ab[A + j]
        BY <1>6, <3>1
      <4> QED BY <3>1, <3>6, <4>1
    <3>4. (fa[A] \o fb[j - 1]) \o b[j] = fa[A] \o (fb[j - 1] \o b[j])
      <4> DEFINE u == fa[A]
                 v == fb[j - 1]
                 w == b[j]
      <4>1. u \in Seq(T) /\ v \in Seq(T) /\ w \in Seq(T)
        BY <3>3, <3>6
      <4> HIDE DEF u, v, w
      <4>2. (u \o v) \o w = u \o (v \o w)
        BY <4>1, ConcatRegroups, SMTT(30)
      <4> QED BY <4>2, Zenon DEF u, v, w
    <3>5. f[A + j] = fa[A] \o fb[j]
      BY <3>2, <3>3, <3>4, <3>7
    <3> QED BY <3>5 DEF j
  <2>6. f[A + B] = fa[A] \o fb[B]
    <3>1. B - 1 \in Nat /\ (B - 1) + 1 = B /\ B \in 1..B
      BY <1>1, <1>9
    <3> HIDE DEF Q
    <3>2. B - 1 \in Q
      BY <2>4, <2>5, <3>1, Induction
    <3> QED BY <3>1, <3>2 DEF Q
  <2>7. A + B # 0
    BY <1>1, <1>9
  <2> QED BY <1>2, <1>3, <1>4, <1>9, <2>6, <2>7 DEF ab
<1> QED BY <1>7, <1>8, <1>9

\* What each leaf of an order offers, one after another.
IdRow(R, type, leaf) == [j \in 1..LeafCount(R, leaf, type) |-> leaf]
IdRows(R, type, order) == [i \in DOMAIN order |-> IdRow(R, type, order[i])]
Rows(R, type, order) == FlattenSeq(IdRows(R, type, order))

LEMMA RowIs ==
    ASSUME NEW R \in Bits, NEW type \in Members, NEW leaf \in Leaves
    PROVE  /\ LeafCount(R, leaf, type) \in Nat
           /\ IdRow(R, type, leaf) \in Seq(Leaves)
           /\ Len(IdRow(R, type, leaf)) = LeafCount(R, leaf, type)
           /\ \A j \in 1..LeafCount(R, leaf, type) : IdRow(R, type, leaf)[j] = leaf
<1> DEFINE n == LeafCount(R, leaf, type)
<1>1. n \in Nat
  <2>1. n \in 0..5
    BY LeafCounts
  <2> HIDE DEF n
  <2> QED BY <2>1
<1>2. IdRow(R, type, leaf) = [j \in 1..n |-> leaf]
  BY DEF IdRow
<1> HIDE DEF n
<1>3. [j \in 1..n |-> leaf] \in [1..n -> Leaves]
  OBVIOUS
<1>4. [j \in 1..n |-> leaf] \in Seq(Leaves) /\ Len([j \in 1..n |-> leaf]) = n
  BY <1>1, <1>3, FunctionIsSeq
<1> QED BY <1>1, <1>2, <1>4 DEF n

LEMMA RowSeqIs ==
    ASSUME NEW R \in Bits, NEW type \in Members, NEW order \in Seq(Leaves)
    PROVE  /\ IdRows(R, type, order) \in Seq(Seq(Leaves))
           /\ Len(IdRows(R, type, order)) = Len(order) /\ Len(order) \in Nat
           /\ \A i \in 1..Len(order) :
                /\ IdRows(R, type, order)[i] = IdRow(R, type, order[i])
                /\ order[i] \in Leaves
<1>1. /\ DOMAIN order = 1..Len(order) /\ Len(order) \in Nat
      /\ \A i \in 1..Len(order) : order[i] \in Leaves
  OBVIOUS
<1>2. \A i \in 1..Len(order) : IdRow(R, type, order[i]) \in Seq(Leaves)
  BY <1>1, RowIs
<1>3. IdRows(R, type, order) = [i \in 1..Len(order) |-> IdRow(R, type, order[i])]
  BY <1>1 DEF IdRows
<1>4. IdRows(R, type, order) \in [1..Len(order) -> Seq(Leaves)]
  BY <1>2, <1>3
<1>5. \A i \in 1..Len(order) : IdRows(R, type, order)[i] = IdRow(R, type, order[i])
  BY <1>3
<1>6. IdRows(R, type, order) \in Seq(Seq(Leaves)) /\ Len(IdRows(R, type, order)) = Len(order)
  BY <1>1, <1>4, FunctionIsSeq
<1> QED BY <1>1, <1>5, <1>6

LEMMA RowsConcat ==
    ASSUME NEW R \in Bits, NEW type \in Members,
           NEW a \in Seq(Leaves), NEW b \in Seq(Leaves)
    PROVE  Rows(R, type, a \o b) = Rows(R, type, a) \o Rows(R, type, b)
<1> DEFINE ra == IdRows(R, type, a)
           rb == IdRows(R, type, b)
           rab == IdRows(R, type, a \o b)
<1>1. /\ a \o b \in Seq(Leaves) /\ Len(a) \in Nat /\ Len(b) \in Nat
      /\ Len(a \o b) = Len(a) + Len(b)
      /\ \A k \in 1..Len(a) : (a \o b)[k] = a[k]
      /\ \A k \in 1..Len(b) : (a \o b)[Len(a) + k] = b[k]
  BY ConcatPlaces
<1>2. /\ ra \in Seq(Seq(Leaves)) /\ Len(ra) = Len(a)
      /\ \A i \in 1..Len(a) : ra[i] = IdRow(R, type, a[i])
  BY RowSeqIs
<1>3. /\ rb \in Seq(Seq(Leaves)) /\ Len(rb) = Len(b)
      /\ \A i \in 1..Len(b) : rb[i] = IdRow(R, type, b[i])
  BY RowSeqIs
<1>4. /\ rab \in Seq(Seq(Leaves)) /\ Len(rab) = Len(a) + Len(b)
      /\ \A i \in 1..(Len(a) + Len(b)) : rab[i] = IdRow(R, type, (a \o b)[i])
  BY <1>1, RowSeqIs
<1> HIDE DEF ra, rb, rab
<1>5. /\ ra \o rb \in Seq(Seq(Leaves)) /\ Len(ra \o rb) = Len(a) + Len(b)
      /\ \A k \in 1..Len(a) : (ra \o rb)[k] = ra[k]
      /\ \A k \in 1..Len(b) : (ra \o rb)[Len(a) + k] = rb[k]
  <2>1. /\ ra \o rb \in Seq(Seq(Leaves)) /\ Len(ra \o rb) = Len(ra) + Len(rb)
        /\ \A k \in 1..Len(ra) : (ra \o rb)[k] = ra[k]
        /\ \A k \in 1..Len(rb) : (ra \o rb)[Len(ra) + k] = rb[k]
    <3>1. ra \in Seq(Seq(Leaves)) /\ rb \in Seq(Seq(Leaves))
      BY <1>2, <1>3
    <3>2. \A u \in Seq(Seq(Leaves)), v \in Seq(Seq(Leaves)) :
             /\ u \o v \in Seq(Seq(Leaves)) /\ Len(u \o v) = Len(u) + Len(v)
             /\ \A k \in 1..Len(u) : (u \o v)[k] = u[k]
             /\ \A k \in 1..Len(v) : (u \o v)[Len(u) + k] = v[k]
      BY ConcatPlaces
    <3> QED BY <3>1, <3>2, Zenon
  <2> QED BY <1>2, <1>3, <2>1
<1>6. ASSUME NEW i \in 1..(Len(a) + Len(b))
      PROVE  rab[i] = (ra \o rb)[i]
  <2>1. CASE i <= Len(a)
    <3>1. i \in 1..Len(a)
      BY <1>1, <2>1
    <3> QED BY <1>1, <1>2, <1>4, <1>5, <3>1
  <2>2. CASE ~(i <= Len(a))
    <3> DEFINE k == i - Len(a)
    <3>1. k \in 1..Len(b) /\ i = Len(a) + k
      BY <1>1, <2>2
    <3> HIDE DEF k
    <3>2. (a \o b)[Len(a) + k] = b[k] /\ (ra \o rb)[Len(a) + k] = rb[k] /\ rb[k] = IdRow(R, type, b[k])
      BY <1>1, <1>3, <1>5, <3>1
    <3>3. rab[i] = IdRow(R, type, (a \o b)[i])
      BY <1>4
    <3> QED BY <3>1, <3>2, <3>3
  <2> QED BY <2>1, <2>2
<1>7. rab = ra \o rb
  <2>1. \A i \in 1..Len(rab) : rab[i] = (ra \o rb)[i]
    BY <1>4, <1>6
  <2>2. Len(rab) = Len(ra \o rb)
    BY <1>4, <1>5
  <2> DEFINE whole == ra \o rb
  <2>3. whole \in Seq(Seq(Leaves)) /\ Len(rab) = Len(whole)
        /\ \A i \in 1..Len(rab) : rab[i] = whole[i]
    BY <1>5, <2>1, <2>2
  <2> HIDE DEF whole
  <2>4. rab = whole
    BY <1>4, <2>3, SeqEqual
  <2> QED BY <2>4 DEF whole
<1>8. FlattenSeq(ra \o rb) = FlattenSeq(ra) \o FlattenSeq(rb)
  BY <1>2, <1>3, FlattenConcat
<1> QED BY <1>7, <1>8 DEF Rows, ra, rb, rab

\* The rows of orders put together are their rows put together.
LEMMA RowsFlatten ==
    ASSUME NEW R \in Bits, NEW type \in Members, NEW orders \in Seq(Seq(Leaves))
    PROVE  Rows(R, type, FlattenSeq(orders)) =
             FlattenSeq([i \in DOMAIN orders |-> Rows(R, type, orders[i])])
<1> DEFINE L == Len(orders)
           tables == [i \in DOMAIN orders |-> Rows(R, type, orders[i])]
<1>1. /\ L \in Nat /\ DOMAIN orders = 1..L /\ (L = 0 => orders = <<>>)
      /\ \A i \in 1..L : orders[i] \in Seq(Leaves)
  OBVIOUS
<1>2. \A i \in 1..L : Rows(R, type, orders[i]) \in Seq(Leaves)
  <2> SUFFICES ASSUME NEW i \in 1..L PROVE Rows(R, type, orders[i]) \in Seq(Leaves)
    OBVIOUS
  <2>1. orders[i] \in Seq(Leaves)
    BY <1>1
  <2>2. IdRows(R, type, orders[i]) \in Seq(Seq(Leaves))
    BY <2>1, RowSeqIs
  <2> QED BY <2>2, FlattenIsSeq DEF Rows
<1>3. /\ tables \in Seq(Seq(Leaves)) /\ Len(tables) = L
      /\ \A i \in 1..L : tables[i] = Rows(R, type, orders[i])
  <2>1. tables = [i \in 1..L |-> Rows(R, type, orders[i])]
    BY <1>1
  <2> HIDE DEF tables, L
  <2>2. tables \in [1..L -> Seq(Leaves)]
    BY <1>2, <2>1
  <2>3. tables \in Seq(Seq(Leaves)) /\ Len(tables) = L
    BY <1>1, <2>2, FunctionIsSeq
  <2> QED BY <2>1, <2>3
<1> HIDE DEF tables
<1>4. PICK f : /\ IsFlat(orders, f)
               /\ FlattenSeq(orders) = IF L = 0 THEN orders ELSE f[L]
  BY <1>1, FlattenIsFlat
<1>5. PICK g : /\ IsFlat(tables, g)
               /\ FlattenSeq(tables) = IF L = 0 THEN tables ELSE g[L]
  <2>1. Len(tables) \in Nat /\ Len(tables) = L
    BY <1>1, <1>3
  <2> HIDE DEF L
  <2>2. \E g : /\ IsFlat(tables, g)
               /\ FlattenSeq(tables) = IF Len(tables) = 0 THEN tables ELSE g[Len(tables)]
    BY <2>1, FlattenIsFlat
  <2> QED BY <2>1, <2>2
<1>6. \A i \in 1..L : /\ f[i] = IF i = 1 THEN orders[i] ELSE f[i - 1] \o orders[i]
                      /\ f[i] \in Seq(Leaves)
  BY <1>4, FlatIsSeq DEF IsFlat
<1> HIDE DEF L
<1>7. \A i \in 1..L : g[i] = IF i = 1 THEN tables[i] ELSE g[i - 1] \o tables[i]
  BY <1>3, <1>5 DEF IsFlat
<1>8. CASE L = 0
  <2>1. orders = <<>> /\ tables = <<>> /\ FlattenSeq(orders) = <<>> /\ FlattenSeq(tables) = <<>>
    BY <1>1, <1>3, <1>4, <1>5, <1>8
  <2>2. IdRows(R, type, <<>>) = <<>>
    BY DEF IdRows
  <2> QED BY <2>1, <2>2 DEF Rows, tables
<1>9. CASE L # 0
  <2> DEFINE S == {n \in Nat : n + 1 \in 1..L => Rows(R, type, f[n + 1]) = g[n + 1]}
  <2>1. 0 \in S
    <3>1. 1 \in 1..L /\ 0 + 1 = 1
      BY <1>1, <1>9
    <3>2. f[1] = orders[1] /\ g[1] = tables[1] /\ tables[1] = Rows(R, type, orders[1])
      BY <1>3, <1>6, <1>7, <3>1
    <3> QED BY <3>1, <3>2
  <2>2. ASSUME NEW n \in Nat, n \in S PROVE n + 1 \in S
    <3> SUFFICES ASSUME (n + 1) + 1 \in 1..L
                 PROVE  Rows(R, type, f[(n + 1) + 1]) = g[(n + 1) + 1]
      OBVIOUS
    <3> DEFINE j == (n + 1) + 1
    <3>1. j # 1 /\ j - 1 = n + 1 /\ n + 1 \in 1..L /\ j \in 1..L /\ j - 1 \in 1..L
      BY <1>1
    <3>2. Rows(R, type, f[j - 1]) = g[j - 1]
      BY <2>2, <3>1
    <3> HIDE DEF j
    <3>3. /\ f[j] = f[j - 1] \o orders[j] /\ f[j - 1] \in Seq(Leaves)
          /\ orders[j] \in Seq(Leaves)
          /\ g[j] = g[j - 1] \o tables[j] /\ tables[j] = Rows(R, type, orders[j])
      BY <1>1, <1>3, <1>6, <1>7, <3>1
    <3>4. Rows(R, type, f[j - 1] \o orders[j]) =
            Rows(R, type, f[j - 1]) \o Rows(R, type, orders[j])
      BY <3>3, RowsConcat
    <3>5. Rows(R, type, f[j]) = g[j]
      BY <3>2, <3>3, <3>4
    <3> QED BY <3>5 DEF j
  <2>3. L - 1 \in Nat /\ (L - 1) + 1 = L /\ L \in 1..L
    BY <1>1, <1>9
  <2> HIDE DEF S
  <2>4. L - 1 \in S
    BY <2>1, <2>2, <2>3, Induction
  <2>5. Rows(R, type, f[L]) = g[L]
    BY <2>3, <2>4 DEF S
  <2> QED BY <1>4, <1>5, <1>9, <2>5 DEF tables
<1> QED BY <1>8, <1>9

\* The flat table of a system is what it offers, in the order of the ids.
TableIs(R, type, s) ==
    /\ Len(Rows(R, type, LeafOrder[s])) = Count[R][type][s]
    /\ \A id \in Ids : id < Count[R][type][s] =>
         Rows(R, type, LeafOrder[s])[id + 1] = Dispatch[R][type][s][id].system

LEMMA TableOfLeaf ==
    ASSUME NEW R \in Bits, NEW type \in Members, NEW s \in Leaves
    PROVE  TableIs(R, type, s)
<1> DEFINE n == LeafCount(R, s, type)
           row == IdRow(R, type, s)
<1>1. LeafOrder[s] = <<s>>
  BY OrderIs DEF OrderOf, Systems
<1>2. row \in Seq(Leaves) /\ Len(row) = n /\ n \in Nat /\ \A j \in 1..n : row[j] = s
  BY RowIs
<1>3. IdRows(R, type, <<s>>) = <<row>>
  BY DEF IdRows
<1> HIDE DEF row, n
<1>4. FlattenSeq(<<row>>) = row
  <2>1. Len(<<row>>) = 1 /\ <<row>>[1] = row
    OBVIOUS
  <2>2. PICK flat : /\ IsFlat(<<row>>, flat)
                    /\ FlattenSeq(<<row>>) = IF Len(<<row>>) = 0 THEN <<row>> ELSE flat[Len(<<row>>)]
    BY <2>1, FlattenIsFlat
  <2>3. flat[1] = <<row>>[1]
    BY <2>1, <2>2 DEF IsFlat
  <2> QED BY <2>1, <2>2, <2>3
<1>5. Rows(R, type, LeafOrder[s]) = row
  BY <1>1, <1>3, <1>4 DEF Rows
<1>6. Count[R][type][s] = n /\ \A id \in Ids : Dispatch[R][type][s][id].system = s
  <2>1. ASSUME NEW id \in Ids
        PROVE  Count[R][type][s] = n /\ Dispatch[R][type][s][id] = [system |-> s, id |-> id]
    BY DispatchLeaf DEF n
  <2>2. 0 \in Ids
    BY DEF Ids, Byte
  <2>3. ASSUME NEW id \in Ids PROVE Dispatch[R][type][s][id].system = s
    <3>1. Dispatch[R][type][s][id] = [system |-> s, id |-> id]
      BY <2>1
    <3> QED BY <3>1
  <2>4. Count[R][type][s] = n
    BY <2>1, <2>2
  <2> QED BY <2>3, <2>4
<1>7. ASSUME NEW id \in Ids, id < n PROVE row[id + 1] = s
  <2>1. id + 1 \in 1..n
    BY <1>2, <1>7, IdIsNat
  <2> QED BY <1>2, <2>1
<1> QED BY <1>2, <1>5, <1>6, <1>7 DEF TableIs

LEMMA TableOfKids ==
    ASSUME TreeFits, NEW R \in Bits, NEW type \in Members, NEW c \in Composites,
           \A i \in DOMAIN Kids[c] : TableIs(R, type, Kids[c][i])
    PROVE  TableIs(R, type, c)
<1> DEFINE orders == [i \in DOMAIN Kids[c] |-> LeafOrder[Kids[c][i]]]
           tables == [i \in DOMAIN orders |-> Rows(R, type, orders[i])]
           counts == KidCounts(R, type, c)
           sum == Sums(counts)
           L == Len(Kids[c])
<1>1. c \in Systems /\ c \notin Leaves
  BY CompositeAssumption DEF Systems
<1>2. L \in Nat /\ DOMAIN Kids[c] = 1..L /\ \A i \in 1..L : Kids[c][i] \in Systems
  BY KidsOf
<1>3. LeafOrder[c] = FlattenSeq(orders)
  BY <1>1, OrderIs DEF OrderOf
<1>4. /\ orders \in Seq(Seq(Leaves)) /\ Len(orders) = L /\ DOMAIN orders = 1..L
      /\ \A i \in 1..L : orders[i] = LeafOrder[Kids[c][i]]
  <2> HIDE DEF L
  <2>1. orders \in [1..L -> Seq(Leaves)]
    BY <1>2, OrderIsSeq
  <2>2. orders \in Seq(Seq(Leaves)) /\ Len(orders) = L
    BY <1>2, <2>1, FunctionIsSeq
  <2> QED BY <1>2, <2>2
<1> HIDE DEF orders
<1>5. Rows(R, type, LeafOrder[c]) = FlattenSeq(tables)
  BY <1>3, <1>4, RowsFlatten
<1>6. /\ tables \in Seq(Seq(Leaves)) /\ Len(tables) = L
      /\ \A i \in 1..L : tables[i] = Rows(R, type, LeafOrder[Kids[c][i]])
  <2> HIDE DEF L
  <2>1. \A i \in 1..L : Rows(R, type, orders[i]) \in Seq(Leaves)
    <3> SUFFICES ASSUME NEW i \in 1..L PROVE Rows(R, type, orders[i]) \in Seq(Leaves)
      OBVIOUS
    <3>1. orders[i] \in Seq(Leaves)
      BY <1>4
    <3>2. IdRows(R, type, orders[i]) \in Seq(Seq(Leaves))
      BY <3>1, RowSeqIs
    <3> QED BY <3>2, FlattenIsSeq DEF Rows
  <2>2. tables \in [1..L -> Seq(Leaves)]
    BY <1>4, <2>1
  <2>3. tables \in Seq(Seq(Leaves)) /\ Len(tables) = L
    BY <1>2, <2>2, FunctionIsSeq
  <2> QED BY <1>4, <2>3
<1>7. /\ counts \in Seq(Nat) /\ Len(counts) = L
      /\ \A i \in 1..L : counts[i] = Count[R][type][Kids[c][i]]
      /\ Count[R][type][c] = sum[L] % Byte
  BY KidCountsAre DEF Total
<1>8. sum[L] < Byte /\ sum[L] \in Nat
  <2>1. sum[Len(counts)] < Byte
    BY DEF TreeFits
  <2>2. sum[Len(counts)] \in Nat
    BY <1>7, TotalIs
  <2> QED BY <1>7, <2>1, <2>2
<1>9. Count[R][type][c] = sum[L]
  BY <1>7, <1>8, Bytes
<1>10. \A i \in 1..L : counts[i] = Len(tables[i])
  BY <1>2, <1>6, <1>7 DEF TableIs
<1>11. /\ Len(FlattenSeq(tables)) = sum[L]
       /\ \A i \in 1..L : \A k \in 1..Len(tables[i]) :
            FlattenSeq(tables)[sum[i - 1] + k] = tables[i][k]
  <2> HIDE DEF tables, counts, L
  <2>1. /\ Len(FlattenSeq(tables)) = Sums(counts)[Len(tables)]
        /\ \A i \in 1..Len(tables) : \A k \in 1..Len(tables[i]) :
             FlattenSeq(tables)[Sums(counts)[i - 1] + k] = tables[i][k]
    <3>1. /\ tables \in Seq(Seq(Leaves)) /\ counts \in Seq(Nat) /\ Len(counts) = Len(tables)
          /\ \A i \in 1..Len(tables) : counts[i] = Len(tables[i])
      BY <1>6, <1>7, <1>10
    <3> QED BY <3>1, FlattenPlaces
  <2> QED BY <1>6, <2>1
<1>12. ASSUME NEW id \in Ids, id < Count[R][type][c]
       PROVE  FlattenSeq(tables)[id + 1] = Dispatch[R][type][c][id].system
  <2> DEFINE there == Route(counts, id)
             i == there.child
             k == there.id
             kid == Kids[c][i]
  <2>1. /\ i # 0 /\ i \in DOMAIN Kids[c] /\ i \in 1..L /\ kid \in Systems
        /\ k \in Ids /\ k < Count[R][type][kid]
        /\ id = sum[i - 1] + k
    BY <1>12, OfferedByChild
  <2>2. Dispatch[R][type][c][id] = Dispatch[R][type][kid][k]
    BY <2>1, DispatchKid
  <2> HIDE DEF there, L
  <2>3. TableIs(R, type, kid) /\ tables[i] = Rows(R, type, LeafOrder[kid])
    BY <1>6, <2>1
  <2>4. /\ Len(tables[i]) = Count[R][type][kid]
        /\ tables[i][k + 1] = Dispatch[R][type][kid][k].system
    BY <2>1, <2>3 DEF TableIs
  <2>5. sum[i - 1] \in Nat /\ k \in Nat /\ Count[R][type][kid] \in Nat
    <3>1. i - 1 \in 0..Len(counts)
      BY <1>2, <1>7, <2>1
    <3>2. sum[i - 1] \in Nat
      BY <1>7, <3>1, SumsGrow
    <3>3. Count[R][type][kid] \in Ids
      BY <2>1, CountIsByte
    <3> QED BY <2>1, <3>2, <3>3, IdIsNat
  <2>6. k + 1 \in 1..Len(tables[i]) /\ id + 1 = sum[i - 1] + (k + 1)
    <3> DEFINE x == sum[i - 1]
               n == Count[R][type][kid]
    <3>1. x \in Nat /\ k \in Nat /\ n \in Nat /\ k < n /\ id = x + k
      BY <2>1, <2>5
    <3> HIDE DEF x, n, k
    <3>2. k + 1 \in 1..n /\ id + 1 = x + (k + 1)
      BY <3>1
    <3> QED BY <2>4, <3>2 DEF x, n
  <2> HIDE DEF k
  <2>7. FlattenSeq(tables)[sum[i - 1] + (k + 1)] = tables[i][k + 1]
    BY <1>11, <2>1, <2>6
  <2> QED BY <2>2, <2>4, <2>6, <2>7
<1> QED BY <1>5, <1>9, <1>11, <1>12 DEF TableIs

LEMMA AllTables ==
    ASSUME TreeFits, NEW R \in Bits, NEW type \in Members
    PROVE  \A s \in Systems : TableIs(R, type, s)
<1> DEFINE S == {s \in Systems : TableIs(R, type, s)}
<1>1. Leaves \subseteq S
  BY TableOfLeaf DEF Systems
<1>2. ASSUME NEW c \in Composites, \A i \in DOMAIN Kids[c] : Kids[c][i] \in S
      PROVE  c \in S
  BY <1>2, TableOfKids DEF Systems
<1> HIDE DEF S
<1>3. Systems \subseteq S
  BY <1>1, <1>2, TreeInduction
<1> QED BY <1>3 DEF S

-----------------------------------------------------------------------------
(* Ids that do not move                                                     *)

RowCounts(R, type, s) ==
    [i \in DOMAIN LeafOrder[s] |-> LeafCount(R, LeafOrder[s][i], type)]

LEMMA RowCountsAre ==
    ASSUME NEW R \in Bits, NEW type \in Members, NEW s \in Systems
    PROVE  /\ DOMAIN LeafOrder[s] = 1..Len(LeafOrder[s]) /\ Len(LeafOrder[s]) \in Nat
           /\ RowCounts(R, type, s) \in Seq(Nat)
           /\ Len(RowCounts(R, type, s)) = Len(LeafOrder[s])
           /\ \A i \in 1..Len(LeafOrder[s]) :
                /\ LeafOrder[s][i] \in Leaves
                /\ RowCounts(R, type, s)[i] = LeafCount(R, LeafOrder[s][i], type)
                /\ RowCounts(R, type, s)[i] \in Nat
<1> DEFINE order == LeafOrder[s]
           L == Len(order)
<1>1. order \in Seq(Leaves)
  BY OrderIsSeq
<1> HIDE DEF order
<1>2. L \in Nat /\ DOMAIN order = 1..L /\ \A i \in 1..L : order[i] \in Leaves
  BY <1>1
<1>3. \A i \in 1..L : LeafCount(R, order[i], type) \in Nat
  BY <1>2, RowIs
<1>4. RowCounts(R, type, s) = [i \in 1..L |-> LeafCount(R, order[i], type)]
  BY <1>2 DEF RowCounts, order
<1> HIDE DEF L
<1>5. RowCounts(R, type, s) \in [1..L -> Nat]
  BY <1>3, <1>4
<1>6. RowCounts(R, type, s) \in Seq(Nat) /\ Len(RowCounts(R, type, s)) = L
  BY <1>2, <1>5, FunctionIsSeq
<1>7. \A i \in 1..L : /\ RowCounts(R, type, s)[i] = LeafCount(R, order[i], type)
                      /\ RowCounts(R, type, s)[i] \in Nat
  BY <1>3, <1>4
<1> QED BY <1>2, <1>6, <1>7 DEF L, order

\* Between which ids the members of a leaf lie.
LEMMA IdsAre ==
    ASSUME TreeFits, LeavesAreDistinct, NEW R \in Bits, NEW type \in Members, NEW s \in Tops,
           NEW i \in DOMAIN LeafOrder[s]
    PROVE  IdsOf(R, type, s, LeafOrder[s][i]) =
             {id \in Nat : /\ Sums(RowCounts(R, type, s))[i - 1] <= id
                           /\ id < Sums(RowCounts(R, type, s))[i]}
<1> DEFINE order == LeafOrder[s]
           rows == IdRows(R, type, order)
           counts == RowCounts(R, type, s)
           sum == Sums(counts)
           L == Len(order)
           table == FlattenSeq(rows)
           n == Count[R][type][s]
<1>1. s \in Systems
  BY CompositeAssumption
<1>2. /\ DOMAIN order = 1..L /\ L \in Nat /\ i \in 1..L
      /\ counts \in Seq(Nat) /\ Len(counts) = L
      /\ \A j \in 1..L : /\ order[j] \in Leaves /\ counts[j] \in Nat
                         /\ counts[j] = LeafCount(R, order[j], type)
  BY <1>1, RowCountsAre
<1>3. order \in Seq(Leaves)
  BY <1>1, OrderIsSeq
<1>4. /\ rows \in Seq(Seq(Leaves)) /\ Len(rows) = L
      /\ \A j \in 1..L : rows[j] = IdRow(R, type, order[j])
  BY <1>3, RowSeqIs
<1>5. \A j \in 1..L : /\ Len(rows[j]) = counts[j]
                      /\ \A k \in 1..counts[j] : rows[j][k] = order[j]
  <2> SUFFICES ASSUME NEW j \in 1..L
               PROVE  /\ Len(rows[j]) = counts[j]
                      /\ \A k \in 1..counts[j] : rows[j][k] = order[j]
    OBVIOUS
  <2>1. /\ order[j] \in Leaves /\ counts[j] = LeafCount(R, order[j], type)
        /\ rows[j] = IdRow(R, type, order[j])
    BY <1>2, <1>4
  <2> HIDE DEF order, rows, counts
  <2>2. /\ Len(IdRow(R, type, order[j])) = LeafCount(R, order[j], type)
        /\ \A k \in 1..LeafCount(R, order[j], type) :
             IdRow(R, type, order[j])[k] = order[j]
    BY <2>1, RowIs
  <2> QED BY <2>1, <2>2
<1>6. TableIs(R, type, s) /\ n \in Ids /\ n \in Nat
  BY <1>1, AllTables, CountIsByte, IdIsNat
<1>7. /\ Len(table) = n
      /\ \A id \in Ids : id < n => table[id + 1] = Dispatch[R][type][s][id].system
  BY <1>6 DEF TableIs, Rows
<1> HIDE DEF order, rows, counts, L, n
<1>8. /\ Len(table) = sum[L]
      /\ \A j \in 1..L : \A k \in 1..counts[j] : table[sum[j - 1] + k] = order[j]
  <2>1. /\ Len(counts) = Len(rows)
        /\ \A j \in 1..Len(rows) : counts[j] = Len(rows[j])
    BY <1>2, <1>4, <1>5
  <2>2. /\ Len(table) = Sums(counts)[Len(rows)]
        /\ \A j \in 1..Len(rows) : \A k \in 1..Len(rows[j]) :
             FlattenSeq(rows)[Sums(counts)[j - 1] + k] = rows[j][k]
    BY <1>2, <1>4, <2>1, FlattenPlaces
  <2>3. \A j \in 1..L : \A k \in 1..Len(rows[j]) : table[sum[j - 1] + k] = rows[j][k]
    BY <1>4, <2>2
  <2> HIDE DEF table, sum
  <2>4. \A j \in 1..L : \A k \in 1..counts[j] : table[sum[j - 1] + k] = order[j]
    BY <1>5, <2>3
  <2>5. Len(table) = sum[L]
    BY <1>4, <2>2 DEF sum
  <2> QED BY <2>4, <2>5
<1> HIDE DEF table
<1>9. /\ \A j \in 1..L : sum[j] = sum[j - 1] + counts[j]
      /\ \A j \in 0..L : sum[j] \in Nat
      /\ \A j, k \in 0..L : j <= k => sum[j] <= sum[k]
  BY <1>2, SumsStep, SumsGrow
<1>10. i \in 0..L /\ i - 1 \in 0..L /\ L \in 0..L
  BY <1>2
<1>11. /\ sum[i - 1] \in Nat /\ sum[i] \in Nat /\ counts[i] \in Nat
       /\ sum[i] = sum[i - 1] + counts[i] /\ sum[i] <= n /\ sum[L] = n
  BY <1>2, <1>7, <1>8, <1>9, <1>10
<1>12. ASSUME NEW id \in IdsOf(R, type, s, order[i])
       PROVE  id \in Nat /\ sum[i - 1] <= id /\ id < sum[i]
  <2>1. id \in 0..(n - 1) /\ Dispatch[R][type][s][id].system = order[i]
    BY DEF IdsOf, n
  <2>2. id \in Ids /\ id < n /\ id \in Nat
    BY <1>6, <2>1, Below
  <2> DEFINE there == Route(counts, id)
             j == there.child
             k == there.id
  <2>3. j \in 1..L /\ k \in Nat /\ k < counts[j] /\ id = sum[j - 1] + k
    <3>1. /\ j # 0 => /\ j \in 1..Len(counts)
                      /\ k \in Nat /\ k < counts[j]
                      /\ id = Sums(counts)[j - 1] + k
          /\ id < Sums(counts)[Len(counts)] => j # 0
      BY <1>2, <2>2, RouteSound
    <3> HIDE DEF j, k
    <3>2. id < Sums(counts)[Len(counts)]
      BY <1>2, <1>11, <2>2
    <3> QED BY <1>2, <3>1, <3>2
  <2> HIDE DEF there, j, k
  <2>4. counts[j] \in Nat /\ sum[j - 1] \in Nat
    <3>1. j - 1 \in 0..L
      BY <1>2, <2>3
    <3> QED BY <1>2, <1>9, <2>3, <3>1
  <2>5. k + 1 \in 1..counts[j] /\ id + 1 = sum[j - 1] + (k + 1)
    <3> DEFINE x == sum[j - 1]
               y == counts[j]
    <3>1. x \in Nat /\ y \in Nat /\ k \in Nat /\ k < y /\ id = x + k
      BY <2>3, <2>4
    <3> HIDE DEF x, y
    <3>2. k + 1 \in 1..y /\ id + 1 = x + (k + 1)
      BY <3>1
    <3> QED BY <3>2 DEF x, y
  <2>6. table[id + 1] = order[j]
    BY <1>8, <2>3, <2>5
  <2>7. table[id + 1] = order[i]
    BY <1>7, <2>1, <2>2
  <2>8. j = i
    BY <1>2, <2>3, <2>6, <2>7 DEF LeavesAreDistinct, order
  <2>9. sum[i - 1] \in Nat /\ k \in Nat /\ k < counts[i] /\ id = sum[i - 1] + k
    BY <1>11, <2>3, <2>8
  <2> DEFINE x == sum[i - 1]
             y == counts[i]
             z == sum[i]
  <2>10. x \in Nat /\ y \in Nat /\ z = x + y /\ k \in Nat /\ k < y /\ id = x + k
    BY <1>11, <2>9
  <2> HIDE DEF x, y, z
  <2>11. id \in Nat /\ x <= id /\ id < z
    BY <2>10
  <2> QED BY <2>11 DEF x, z
<1>13. ASSUME NEW id \in Nat, sum[i - 1] <= id, id < sum[i]
       PROVE  id \in IdsOf(R, type, s, order[i])
  <2> DEFINE x == sum[i - 1]
             y == counts[i]
             z == sum[i]
             k == (id - x) + 1
  <2>1. x \in Nat /\ y \in Nat /\ z = x + y /\ x <= id /\ id < z /\ z <= n /\ n \in Nat
    BY <1>6, <1>11, <1>13
  <2> HIDE DEF x, y, z
  <2>2. k \in 1..y /\ id + 1 = x + k /\ id \in 0..(n - 1)
    BY <2>1
  <2> HIDE DEF k
  <2>3. table[id + 1] = order[i]
    BY <1>2, <1>8, <2>2 DEF x, y
  <2>4. id \in Ids /\ id < n
    BY <1>6, <2>2, Below
  <2>5. Dispatch[R][type][s][id].system = order[i]
    BY <1>7, <2>3, <2>4
  <2> QED BY <2>2, <2>5 DEF IdsOf, n
<1>14. IdsOf(R, type, s, order[i]) = {id \in Nat : sum[i - 1] <= id /\ id < sum[i]}
  BY <1>12, <1>13
<1> QED BY <1>14 DEF order, counts

LEMMA SumsAgree ==
    ASSUME NEW a \in Seq(Nat), NEW b \in Seq(Nat), NEW n \in Nat,
           n <= Len(a), n <= Len(b), \A j \in 1..n : a[j] = b[j]
    PROVE  \A m \in 0..n : Sums(a)[m] = Sums(b)[m]
<1> DEFINE S == {m \in Nat : m <= n => Sums(a)[m] = Sums(b)[m]}
<1>1. /\ Len(a) \in Nat /\ Len(b) \in Nat
      /\ Sums(a)[0] = 0 /\ Sums(b)[0] = 0
      /\ \A m \in 1..Len(a) : Sums(a)[m] = Sums(a)[m - 1] + a[m]
      /\ \A m \in 1..Len(b) : Sums(b)[m] = Sums(b)[m - 1] + b[m]
  BY SumsStep
<1>2. 0 \in S
  BY <1>1
<1>3. ASSUME NEW m \in Nat, m \in S PROVE m + 1 \in S
  <2> SUFFICES ASSUME m + 1 <= n PROVE Sums(a)[m + 1] = Sums(b)[m + 1]
    OBVIOUS
  <2>1. m + 1 \in 1..n /\ m + 1 \in 1..Len(a) /\ m + 1 \in 1..Len(b) /\ (m + 1) - 1 = m /\ m <= n
    BY <1>1
  <2>2. Sums(a)[m] = Sums(b)[m] /\ a[m + 1] = b[m + 1]
    BY <1>3, <2>1
  <2>3. Sums(a)[m + 1] = Sums(a)[m] + a[m + 1] /\ Sums(b)[m + 1] = Sums(b)[m] + b[m + 1]
    BY <1>1, <2>1
  <2> QED BY <2>2, <2>3
<1> HIDE DEF S
<1>4. \A m \in Nat : m \in S
  BY <1>2, <1>3, Induction
<1> QED BY <1>4 DEF S

LEMMA CountOfBit ==
    ASSUME NEW R, NEW Q, NEW leaf, NEW type,
           R[Context(Device[leaf])] = Q[Context(Device[leaf])]
    PROVE  LeafCount(R, leaf, type) = LeafCount(Q, leaf, type)
BY DEF LeafCount, digital_sys_count, analog_sys_count

\* What the read-only bits of a leaf and of those before it do not change.
LEMMA IdsStay ==
    ASSUME TreeFits, LeavesAreDistinct, NEW R \in Bits, NEW Q \in Bits,
           NEW type \in Members, NEW s \in Tops, NEW i \in DOMAIN LeafOrder[s],
           \A j \in 1..i : R[Context(Device[LeafOrder[s][j]])] = Q[Context(Device[LeafOrder[s][j]])]
    PROVE  IdsOf(R, type, s, LeafOrder[s][i]) = IdsOf(Q, type, s, LeafOrder[s][i])
<1> DEFINE L == Len(LeafOrder[s])
           a == RowCounts(R, type, s)
           b == RowCounts(Q, type, s)
<1>1. s \in Systems
  BY CompositeAssumption
<1>2. /\ L \in Nat /\ i \in 1..L
      /\ a \in Seq(Nat) /\ Len(a) = L
      /\ \A j \in 1..L : a[j] = LeafCount(R, LeafOrder[s][j], type)
      /\ b \in Seq(Nat) /\ Len(b) = L
      /\ \A j \in 1..L : b[j] = LeafCount(Q, LeafOrder[s][j], type)
  BY <1>1, RowCountsAre
<1> HIDE DEF L, a, b
<1>3. \A j \in 1..i : a[j] = b[j]
  <2> SUFFICES ASSUME NEW j \in 1..i PROVE a[j] = b[j]
    OBVIOUS
  <2>1. j \in 1..L
    BY <1>2
  <2>2. LeafCount(R, LeafOrder[s][j], type) = LeafCount(Q, LeafOrder[s][j], type)
    BY CountOfBit
  <2> QED BY <1>2, <2>1, <2>2
<1>4. i \in Nat /\ i <= L /\ i \in 0..i /\ i - 1 \in 0..i
  BY <1>2
<1>5. Sums(a)[i] = Sums(b)[i] /\ Sums(a)[i - 1] = Sums(b)[i - 1]
  <2>1. \A m \in 0..i : Sums(a)[m] = Sums(b)[m]
    BY <1>2, <1>3, <1>4, SumsAgree
  <2> QED BY <1>4, <2>1
<1>6. /\ IdsOf(R, type, s, LeafOrder[s][i]) = {id \in Nat : Sums(a)[i - 1] <= id /\ id < Sums(a)[i]}
      /\ IdsOf(Q, type, s, LeafOrder[s][i]) = {id \in Nat : Sums(b)[i - 1] <= id /\ id < Sums(b)[i]}
  BY IdsAre DEF a, b
<1> QED BY <1>5, <1>6

\* In a tree whose counts fit in a byte and that holds no leaf twice, a read-only
\* bit moves the ids of what comes behind it and of nothing else.
THEOREM SystemShifts ==
    TreeFits /\ LeavesAreDistinct => (Spec => IdsShiftOnlyBehind)
<1> SUFFICES ASSUME TreeFits, LeavesAreDistinct PROVE Spec => IdsShiftOnlyBehind
  OBVIOUS
<1>1. SystemInv /\ SystemInv' =>
        [ LET R == dev.read_only
          IN  R # R' =>
                \A s \in Tops, type \in Types : \A i \in DOMAIN LeafOrder[s] :
                  (\A j \in 1..i : LET c == Context(Device[LeafOrder[s][j]])
                                   IN  R[c] = R'[c])
                  => IdsOf(R, type, s, LeafOrder[s][i]) =
                       IdsOf(R', type, s, LeafOrder[s][i]) ]_vars
  <2> SUFFICES ASSUME SystemInv, SystemInv',
                      NEW s \in Tops, NEW type \in Types, NEW i \in DOMAIN LeafOrder[s],
                      \A j \in 1..i : dev.read_only[Context(Device[LeafOrder[s][j]])] =
                                        dev'.read_only[Context(Device[LeafOrder[s][j]])]
               PROVE  IdsOf(dev.read_only, type, s, LeafOrder[s][i]) =
                        IdsOf(dev'.read_only, type, s, LeafOrder[s][i])
    OBVIOUS
  <2>1. dev.read_only \in Bits /\ dev'.read_only \in Bits /\ type \in Members
    BY DEF SystemInv, States, DeviceStates, Bits, Members
  <2> QED BY <2>1, IdsStay
<1> QED BY <1>1, SystemSafe, PTL DEF Spec, IdsShiftOnlyBehind

-----------------------------------------------------------------------------
(* The tree implements the flat table                                       *)

\* What the abstract specification says of devices and leaves is what the
\* detailed one says.
LEMMA FlatDevices ==
    /\ Flat!Idle = Idle /\ Flat!Quiet = Quiet /\ Flat!Devices = Devices
    /\ Flat!Leaves = Leaves /\ Flat!Contexts = Contexts /\ Flat!Protected = Protected
    /\ \A d : Flat!Context(d) = Context(d)
    /\ \A op, st, value, by : Flat!Answer(op, st, value, by) = Answer(op, st, value, by)
BY DEF Flat!Idle, Idle, Flat!Nobody, Nobody, Flat!Quiet, Quiet, Flat!Answer, Answer,
       Flat!Devices, Devices, Flat!Leaves, Leaves, Flat!Contexts, Contexts,
       Flat!Context, Context, Flat!Protected, Protected

LEMMA FlatCalls ==
    /\ \A D, d, v : /\ Flat!mc_digital_set_state(D, d, v) = mc_digital_set_state(D, d, v)
                    /\ Flat!mc_analog_set_value(D, d, v) = mc_analog_set_value(D, d, v)
                    /\ Flat!mc_digital_init(D, d, v) = mc_digital_init(D, d, v)
                    /\ Flat!mc_analog_init(D, d, v) = mc_analog_init(D, d, v)
    /\ \A D, d : /\ Flat!Read(D, d) = Read(D, d)
                 /\ Flat!mc_digital_get_state(D, d) = mc_digital_get_state(D, d)
                 /\ Flat!mc_analog_get_value(D, d) = mc_analog_get_value(D, d)
                 /\ Flat!mc_digital_toggle(D, d) = mc_digital_toggle(D, d)
<1>1. \A D, d, v : /\ Flat!mc_digital_set_state(D, d, v) = mc_digital_set_state(D, d, v)
                   /\ Flat!mc_analog_set_value(D, d, v) = mc_analog_set_value(D, d, v)
  BY FlatDevices DEF Flat!mc_digital_set_state, mc_digital_set_state,
     Flat!mc_analog_set_value, mc_analog_set_value, Flat!Refuse, Refuse,
     Flat!mc_digital_data_object_set_state, mc_digital_data_object_set_state,
     Flat!mc_analog_data_object_set_value, mc_analog_data_object_set_value
<1>2. \A D, d, v : /\ Flat!mc_digital_init(D, d, v) = mc_digital_init(D, d, v)
                   /\ Flat!mc_analog_init(D, d, v) = mc_analog_init(D, d, v)
  BY FlatDevices DEF Flat!mc_digital_init, mc_digital_init, Flat!mc_analog_init,
     mc_analog_init, Flat!Initialized, Initialized
<1>3. \A D, d : /\ Flat!Read(D, d) = Read(D, d)
                /\ Flat!mc_digital_get_state(D, d) = mc_digital_get_state(D, d)
                /\ Flat!mc_analog_get_value(D, d) = mc_analog_get_value(D, d)
  BY FlatDevices DEF Flat!Read, Read, Flat!mc_digital_get_state, mc_digital_get_state,
     Flat!mc_analog_get_value, mc_analog_get_value
<1>4. \A D, d : Flat!mc_digital_toggle(D, d) = mc_digital_toggle(D, d)
  BY <1>1, <1>3 DEF Flat!mc_digital_toggle, mc_digital_toggle, Flat!Refuse, Refuse
<1> QED BY <1>1, <1>2, <1>3, <1>4

LEMMA FlatCounts ==
    \A R, s, type : Flat!LeafCount(R, s, type) = LeafCount(R, s, type)
BY FlatDevices DEF Flat!LeafCount, LeafCount, Flat!digital_sys_count, digital_sys_count,
   Flat!analog_sys_count, analog_sys_count

LEMMA FlatLeaves ==
    /\ \A op, st : Refused(op, st) => Flat!Refused(op, st)
    /\ \A s, val : WriteAt(s, val) => Flat!WriteAt(s, val)
    /\ \A s : ReadInputAt(s) => Flat!ReadInputAt(s)
    /\ \A s : ReadOutputAt(s) => Flat!ReadOutputAt(s)
    /\ \A s : InvokeAt(s) => Flat!InvokeAt(s)
    /\ Toggle => Flat!Toggle
    /\ \A S : leaf_init(S) => Flat!leaf_init(S)
<1>1. \A op, st : Refused(op, st) => Flat!Refused(op, st)
  BY FlatDevices DEF Refused, Flat!Refused, Flat!Nobody, Nobody
<1>2. \A s, val : WriteAt(s, val) => Flat!WriteAt(s, val)
  <2>1. \A s, val : digital_sys_write_input(s, val) => Flat!digital_sys_write_input(s, val)
    BY FlatDevices, FlatCalls DEF digital_sys_write_input, Flat!digital_sys_write_input
  <2>2. \A s, val : analog_sys_write_input(s, val) => Flat!analog_sys_write_input(s, val)
    BY FlatDevices, FlatCalls DEF analog_sys_write_input, Flat!analog_sys_write_input
  <2> QED BY <2>1, <2>2, Zenon DEF WriteAt, Flat!WriteAt
<1>3. \A s : ReadInputAt(s) => Flat!ReadInputAt(s)
  BY FlatDevices DEF ReadInputAt, Flat!ReadInputAt
<1>4. \A s : ReadOutputAt(s) => Flat!ReadOutputAt(s)
  BY FlatDevices, FlatCalls DEF ReadOutputAt, Flat!ReadOutputAt
<1>5. \A s : InvokeAt(s) => Flat!InvokeAt(s)
  BY <1>1, FlatDevices, FlatCalls, Zenon DEF InvokeAt, Flat!InvokeAt
<1>6. Toggle => Flat!Toggle
  BY FlatDevices, FlatCalls DEF Toggle, Flat!Toggle, Flat!Nobody, Nobody
<1>7. \A S : leaf_init(S) => Flat!leaf_init(S)
  BY FlatDevices, FlatCalls DEF leaf_init, Flat!leaf_init
<1> QED BY <1>1, <1>2, <1>3, <1>4, <1>5, <1>6, <1>7

LEMMA FlatSurroundings == Surroundings => Flat!Surroundings
<1>1. \A op, call : Did(op, call) => Flat!Did(op, call)
  BY FlatDevices DEF Did, Flat!Did
<1>2. Calls => Flat!Calls
  <2>1. \A d, b : InitDevice(d, b) => Flat!InitDevice(d, b)
    BY <1>1, FlatCalls, Zenon DEF InitDevice, Flat!InitDevice
  <2>2. \A d, b : SetReadOnly(d, b) => Flat!SetReadOnly(d, b)
    BY <1>1, FlatDevices, Zenon DEF SetReadOnly, Flat!SetReadOnly
  <2>3. \A d : ToggleDevice(d) => Flat!ToggleDevice(d)
    BY <1>1, FlatCalls, Zenon DEF ToggleDevice, Flat!ToggleDevice
  <2>4. \A d, n : SetDevice(d, n) => Flat!SetDevice(d, n)
    BY <1>1, FlatCalls, Zenon DEF SetDevice, Flat!SetDevice
  <2> QED BY <2>1, <2>2, <2>3, <2>4, FlatDevices, Zenon DEF Calls, Flat!Calls
<1>3. Changes => Flat!Changes
  <2>1. \A d, n : Moves(d, n) => Flat!Moves(d, n)
    BY FlatDevices DEF Moves, Flat!Moves
  <2>2. \A c, e : Fails(c, e) => Flat!Fails(c, e)
    BY FlatDevices DEF Fails, Flat!Fails
  <2> QED BY <2>1, <2>2, FlatDevices, Zenon DEF Changes, Flat!Changes
<1> QED BY <1>2, <1>3, FlatDevices, Zenon DEF Surroundings, Flat!Surroundings

\* An id is in the flat table exactly when the tree dispatches it, and to the
\* same leaf.
LEMMA TableReaches ==
    ASSUME TreeFits, SystemInv, NEW type \in Types, NEW s \in Tops, NEW id \in 0..MaxSent
    PROVE  LET table == Flat!Table(dev.read_only, type, s)
           IN  /\ id \in Nat /\ Len(table) \in Nat
               /\ Reaches(type, s, id) => id < Len(table) /\ table[id + 1] = To(type, s, id)
               /\ ~Reaches(type, s, id) => id >= Len(table)
<1> DEFINE R == dev.read_only
           table == Rows(R, type, LeafOrder[s])
           n == Count[R][type][s]
<1>1. R \in Bits /\ type \in Members /\ s \in Systems /\ id \in Ids /\ id \in Nat
  <2>1. MaxSent \in Ids /\ s \in Systems
    BY CompositeAssumption
  <2>2. id \in Ids /\ id \in Nat
    BY <2>1 DEF Ids, Byte
  <2> QED BY <2>1, <2>2 DEF SystemInv, States, DeviceStates, Bits, Members
<1>2. Flat!Table(dev.read_only, type, s) = table
  <2>1. \A seqs : Flat!FlattenSeq(seqs) = FlattenSeq(seqs)
    BY DEF Flat!FlattenSeq, FlattenSeq
  <2> QED BY <2>1, FlatCounts DEF Flat!Table, Rows, IdRows, IdRow
<1> HIDE DEF R
<1>3. TableIs(R, type, s) /\ n \in Nat
  BY <1>1, AllTables, CountIsByte, IdIsNat
<1>4. id < n => Dispatch[R][type][s][id] # None
  <2>1. id < n => Member(R, type, Dispatch[R][type][s][id])
    BY <1>1, OfferedIsReached
  <2> QED BY <2>1 DEF Member
<1>5. Reaches(type, s, id) <=> id < n
  BY <1>4 DEF Reaches, R
<1>6. Len(table) = n /\ (id < n => table[id + 1] = To(type, s, id))
  BY <1>1, <1>3 DEF TableIs, To, R
<1> HIDE DEF table, n
<1> QED BY <1>1, <1>2, <1>3, <1>5, <1>6

LEMMA CommandsAreFlat ==
    ASSUME TreeFits, SystemInv, NEW s \in Tops, NEW id \in 0..MaxSent
    PROVE  /\ mc_sys_invoke(s, id) => Flat!Command("invoke", "f", s, id, Flat!InvokeAt)
           /\ mc_sys_read_input(s, id) => Flat!Command("read", "x", s, id, Flat!ReadInputAt)
           /\ mc_sys_read_output(s, id) => Flat!Command("read", "y", s, id, Flat!ReadOutputAt)
<1>1. "f" \in Types /\ "x" \in Types /\ "y" \in Types
  BY DEF Types
<1>2. mc_sys_invoke(s, id) => Flat!Command("invoke", "f", s, id, Flat!InvokeAt)
  BY <1>1, TableReaches, FlatLeaves, Zenon DEF mc_sys_invoke, Flat!Command, Flat!NoFunctions
<1>3. mc_sys_read_input(s, id) => Flat!Command("read", "x", s, id, Flat!ReadInputAt)
  <2>1. "read" # "invoke"
    OBVIOUS
  <2> QED BY <1>1, <2>1, TableReaches, FlatLeaves, Zenon
          DEF mc_sys_read_input, Flat!Command, Flat!NoFunctions
<1>4. mc_sys_read_output(s, id) => Flat!Command("read", "y", s, id, Flat!ReadOutputAt)
  <2>1. "read" # "invoke"
    OBVIOUS
  <2> QED BY <1>1, <2>1, TableReaches, FlatLeaves, Zenon
          DEF mc_sys_read_output, Flat!Command, Flat!NoFunctions
<1> QED BY <1>2, <1>3, <1>4

LEMMA StepIsFlat ==
    ASSUME TreeFits, SystemInv, [Next]_vars
    PROVE  [Flat!Next]_(Flat!vars)
<1>1. CASE UNCHANGED vars
  BY <1>1 DEF vars, Flat!vars
<1>2. CASE Commands
  <2>1. pending = Flat!Idle /\ Flat!Numbers = Numbers
    BY <1>2, FlatDevices DEF Commands, Flat!Numbers, Numbers
  <2>2. PICK s \in Tops :
          \/ mc_sys_init(s)
          \/ \E id \in 0..MaxSent :
               \/ mc_sys_invoke(s, id)
               \/ \E val \in Numbers : mc_sys_write_input(s, id, val)
               \/ mc_sys_read_input(s, id)
               \/ mc_sys_read_output(s, id)
    BY <1>2 DEF Commands
  <2>3. ASSUME mc_sys_init(s) PROVE Flat!Next
    <3>1. Flat!leaf_init(Flat!ToSet(LeafOrder[s]))
      <4>1. ToSet(LeafOrder[s]) = Flat!ToSet(LeafOrder[s])
        BY DEF ToSet, Flat!ToSet
      <4> QED BY <2>3, <4>1, FlatLeaves DEF mc_sys_init
    <3> QED BY <2>1, <3>1, Zenon DEF Flat!Next
  <2>4. ASSUME NEW id \in 0..MaxSent, mc_sys_invoke(s, id) PROVE Flat!Next
    <3>1. Flat!Command("invoke", "f", s, id, Flat!InvokeAt)
      BY <2>4, CommandsAreFlat
    <3> QED BY <2>1, <3>1, Zenon DEF Flat!Next
  <2>5. ASSUME NEW id \in 0..MaxSent, NEW val \in Numbers, mc_sys_write_input(s, id, val)
        PROVE  Flat!Next
    <3> DEFINE table == Flat!Table(dev.read_only, "x", s)
    <3>1. "x" \in Types /\ "write" # "invoke"
      BY DEF Types
    <3>2. \/ id >= Len(table) /\ Flat!Refused("write", "INVALID_ARGS")
          \/ id < Len(table) /\ Flat!WriteAt(table[id + 1], val)
      BY <2>5, <3>1, TableReaches, FlatLeaves, Zenon DEF mc_sys_write_input
    <3>3. val \in Flat!Numbers
      BY <2>1
    <3> QED BY <2>1, <3>1, <3>2, <3>3, Zenon DEF Flat!Next, Flat!Command, Flat!NoFunctions
  <2>6. ASSUME NEW id \in 0..MaxSent, mc_sys_read_input(s, id) PROVE Flat!Next
    <3>1. Flat!Command("read", "x", s, id, Flat!ReadInputAt)
      BY <2>6, CommandsAreFlat
    <3> QED BY <2>1, <3>1, Zenon DEF Flat!Next
  <2>7. ASSUME NEW id \in 0..MaxSent, mc_sys_read_output(s, id) PROVE Flat!Next
    <3>1. Flat!Command("read", "y", s, id, Flat!ReadOutputAt)
      BY <2>7, CommandsAreFlat
    <3> QED BY <2>1, <3>1, Zenon DEF Flat!Next
  <2> QED BY <2>2, <2>3, <2>4, <2>5, <2>6, <2>7, Zenon
<1>3. CASE Toggle
  BY <1>3, FlatLeaves, Zenon DEF Flat!Next
<1>4. CASE Surroundings
  BY <1>4, FlatSurroundings, Zenon DEF Flat!Next
<1> QED BY <1>1, <1>2, <1>3, <1>4 DEF Next

\* A tree of systems whose counts fit in a byte is, to whoever sends commands,
\* the flat table of its leaves: every command to a composite, of any depth and
\* under any locks, does what the leaf at that place of the table does.
THEOREM SystemIsFlat == TreeFits => (Spec => ImplementsFlat)
<1> SUFFICES ASSUME TreeFits PROVE Spec => ImplementsFlat
  OBVIOUS
<1>1. Init => Flat!Init
  BY FlatDevices DEF Init, Flat!Init, DevicesInit, Flat!DevicesInit
<1>2. SystemInv /\ [Next]_vars => [Flat!Next]_(Flat!vars)
  BY StepIsFlat
<1> QED BY <1>1, <1>2, SystemSafe, PTL DEF Spec, ImplementsFlat, Flat!Spec

-----------------------------------------------------------------------------
(* An answer and what is left of it                                         *)

\* What is written between the STX and the ETX of an answer, and read for it.
Cells == [do : {"x", "y"}, what : {""}, system : Systems, id : Ids]
Plain == {Put(piece) : piece \in Pieces} \cup Cells
Jobs == Plain \cup {Put(STX), Put(ETX)}

\* What is left of an answer whose STX is out; and a whole answer.
Rest == {t \in Seq(Jobs) : /\ t # <<>> /\ t[Len(t)] = Put(ETX)
                           /\ \A i \in 1..(Len(t) - 1) : t[i] \in Plain}

Whole == {t \in Seq(Jobs) : t # <<>> /\ t[1] = Put(STX) /\ Tail(t) \in Rest}

LEMMA PutIs ==
    ASSUME NEW piece
    PROVE  Put(piece).do = "put" /\ Put(piece).what = piece
BY DEF Put

LEMMA ControlIsNotPlain == Put(STX) \notin Plain /\ Put(ETX) \notin Plain
<1>1. ASSUME NEW piece, Put(piece) \in Plain PROVE piece \in Pieces
  <2>1. Put(piece) \notin Cells
    BY PutIs DEF Cells
  <2> QED BY <1>1, <2>1, PutIs DEF Plain
<1>2. STX \notin Pieces /\ ETX \notin Pieces
  BY PiecesAssumption
<1> QED BY <1>1, <1>2

LEMMA RestEnds == <<Put(ETX)>> \in Rest
<1>1. Put(ETX) \in Jobs
  BY DEF Jobs
<1>2. \A e \in Jobs : <<e>> \in Seq(Jobs) /\ <<e>> # <<>> /\ Len(<<e>>) = 1 /\ <<e>>[1] = e
  OBVIOUS
<1>3. 1..(1 - 1) = {}
  OBVIOUS
<1> QED BY <1>1, <1>2, <1>3 DEF Rest

LEMMA PlainBeforeRest ==
    ASSUME NEW jobs \in Seq(Plain), NEW t \in Rest
    PROVE  jobs \o t \in Rest
<1>1. jobs \in Seq(Jobs) /\ t \in Seq(Jobs) /\ t # <<>> /\ t[Len(t)] = Put(ETX)
      /\ \A i \in 1..(Len(t) - 1) : t[i] \in Plain
  <2>1. Plain \subseteq Jobs
    BY DEF Jobs
  <2> HIDE DEF Jobs
  <2> QED BY <2>1 DEF Rest
<1> DEFINE all == jobs \o t
           m == Len(jobs)
           n == Len(t)
<1>2. /\ all \in Seq(Jobs) /\ Len(all) = m + n
      /\ \A i \in 1..(m + n) : all[i] = IF i <= m THEN jobs[i] ELSE t[i - m]
  BY <1>1, ConcatProperties
<1>3. m \in Nat /\ n \in Nat /\ n > 0 /\ \A i \in 1..m : jobs[i] \in Plain
  BY <1>1
<1> HIDE DEF all, m, n
<1>4. m + n \in 1..(m + n) /\ ~(m + n <= m) /\ (m + n) - m = n
  BY <1>3
<1>5. all[m + n] = t[n]
  BY <1>2, <1>4
<1>6. ASSUME NEW i \in 1..((m + n) - 1) PROVE all[i] \in Plain
  <2>1. i \in 1..(m + n)
    BY <1>3
  <2>2. CASE i <= m
    BY <1>2, <1>3, <2>1, <2>2
  <2>3. CASE ~(i <= m)
    <3>1. i - m \in 1..(n - 1)
      BY <1>3, <2>3
    <3> QED BY <1>1, <1>2, <2>1, <2>3, <3>1 DEF n
  <2> QED BY <2>2, <2>3
<1>7. all # <<>>
  BY <1>2, <1>3
<1> QED BY <1>1, <1>2, <1>5, <1>6, <1>7 DEF Rest, all, n

\* The rest of an answer begins with something plain and goes on, or ends.
LEMMA RestGoesOn ==
    ASSUME NEW t \in Rest
    PROVE  /\ t # <<>> /\ Head(t) \in Plain \cup {Put(ETX)}
           /\ Head(t) \in Plain => Tail(t) \in Rest
           /\ Head(t) = Put(ETX) => Tail(t) = <<>>
<1>1. t \in Seq(Jobs) /\ t # <<>> /\ t[Len(t)] = Put(ETX)
      /\ \A i \in 1..(Len(t) - 1) : t[i] \in Plain
  BY DEF Rest
<1>2. /\ Len(t) \in Nat /\ Len(t) > 0 /\ Head(t) = t[1]
      /\ Tail(t) \in Seq(Jobs) /\ Len(Tail(t)) = Len(t) - 1
      /\ \A i \in 1..(Len(t) - 1) : Tail(t)[i] = t[i + 1]
  BY <1>1
<1>3. CASE Len(t) = 1
  <2>1. Head(t) = Put(ETX) /\ Tail(t) = <<>>
    <3>1. \A u \in Seq(Jobs) : Len(u) = 0 => u = <<>>
      BY EmptySeq
    <3>2. Len(Tail(t)) = 0
      BY <1>2, <1>3
    <3> QED BY <1>1, <1>2, <1>3, <3>1, <3>2
  <2> QED BY <1>1, <2>1, ControlIsNotPlain
<1>4. CASE Len(t) > 1
  <2>1. 1 \in 1..(Len(t) - 1)
    BY <1>2, <1>4
  <2>2. Head(t) \in Plain
    BY <1>1, <1>2, <2>1
  <2>3. Head(t) # Put(ETX)
    BY <2>2, ControlIsNotPlain
  <2>4. Tail(t) # <<>> /\ Tail(t)[Len(Tail(t))] = Put(ETX)
    <3>1. Len(t) - 1 \in 1..(Len(t) - 1) /\ (Len(t) - 1) + 1 = Len(t)
      BY <1>2, <1>4
    <3>2. Tail(t)[Len(t) - 1] = t[Len(t)]
      BY <1>2, <3>1
    <3>3. Len(<<>>) = 0 /\ Len(Tail(t)) # 0
      BY <1>2, <1>4
    <3> QED BY <1>1, <1>2, <3>2, <3>3
  <2>5. \A i \in 1..(Len(Tail(t)) - 1) : Tail(t)[i] \in Plain
    <3> SUFFICES ASSUME NEW i \in 1..(Len(Tail(t)) - 1) PROVE Tail(t)[i] \in Plain
      OBVIOUS
    <3>1. i \in 1..(Len(t) - 1) /\ i + 1 \in 1..(Len(t) - 1)
      BY <1>2
    <3> QED BY <1>1, <1>2, <3>1
  <2> QED BY <1>1, <1>2, <2>2, <2>3, <2>4, <2>5 DEF Rest
<1> QED BY <1>2, <1>3, <1>4

LEMMA FramedIsWhole ==
    ASSUME NEW l, NEW jobs \in Seq(Plain)
    PROVE  Framed(l, jobs) \in Whole
<1> DEFINE body == Echo(l) \o jobs
           t == body \o <<Put(ETX)>>
<1>1. Echo(l) \in Seq(Plain)
  <2>1. Put("echo") \in Plain
    BY DEF Plain, Pieces
  <2> HIDE DEF Plain
  <2> QED BY <2>1 DEF Echo
<1>2. body \in Seq(Plain)
  BY <1>1
<1>3. t \in Rest
  BY <1>2, RestEnds, PlainBeforeRest
<1>4. <<Put(STX)>> \in Seq(Jobs) /\ <<Put(ETX)>> \in Seq(Jobs) /\ Echo(l) \in Seq(Jobs)
      /\ jobs \in Seq(Jobs) /\ t \in Seq(Jobs)
  <2>1. Plain \subseteq Jobs /\ Put(STX) \in Jobs /\ Put(ETX) \in Jobs
    BY DEF Jobs
  <2>2. t \in Seq(Jobs)
    BY <1>3 DEF Rest
  <2> HIDE DEF Jobs, t, body
  <2> QED BY <1>1, <2>1, <2>2
<1>5. Framed(l, jobs) = <<Put(STX)>> \o t
  <2>1. Framed(l, jobs) = ((<<Put(STX)>> \o Echo(l)) \o jobs) \o <<Put(ETX)>>
    BY DEF Framed
  <2> QED BY <1>4, <2>1, ConcatAssociative
<1> HIDE DEF t
<1>6. \A e \in Jobs, u \in Seq(Jobs) :
        /\ <<e>> \o u \in Seq(Jobs) /\ <<e>> \o u # <<>>
        /\ (<<e>> \o u)[1] = e /\ Tail(<<e>> \o u) = u
  <2> SUFFICES ASSUME NEW e \in Jobs, NEW u \in Seq(Jobs)
               PROVE  /\ <<e>> \o u \in Seq(Jobs) /\ <<e>> \o u # <<>>
                      /\ (<<e>> \o u)[1] = e /\ Tail(<<e>> \o u) = u
    OBVIOUS
  <2> HIDE DEF Jobs
  <2> QED OBVIOUS
<1>7. Put(STX) \in Jobs
  BY DEF Jobs
<1>8. /\ Framed(l, jobs) \in Seq(Jobs) /\ Framed(l, jobs) # <<>>
      /\ Framed(l, jobs)[1] = Put(STX) /\ Tail(Framed(l, jobs)) = t
  <2>1. Put(STX) \in Jobs /\ t \in Seq(Jobs)
    BY <1>4, <1>7
  <2> HIDE DEF Jobs
  <2> QED BY <1>5, <1>6, <2>1
<1> HIDE DEF Jobs
<1> QED BY <1>3, <1>8 DEF Whole

LEMMA PiecesArePlain == \A piece \in Pieces : Put(piece) \in Plain
BY DEF Plain

LEMMA ResultIsPlain ==
    ASSUME NEW answered, ReplyOK(answered)
    PROVE  send_result(answered.status, answered.value) \in Seq(Plain)
<1> DEFINE status == answered.status
           value == answered.value
<1>1. CASE status # "OK"
  <2>1. status \in Pieces /\ "E" \in Pieces
    BY <1>1 DEF ReplyOK, AllStatuses, Statuses, Pieces
  <2>2. Put("E") \in Plain /\ Put(status) \in Plain
    BY <2>1, PiecesArePlain
  <2>3. send_result(status, value) = <<Put("E"), Put(status)>>
    <3>1. send_result(status, value) = [i \in 1..2 |-> Put(<<"E", status>>[i])]
      BY <1>1 DEF send_result, Puts
    <3> HIDE DEF status
    <3> QED BY <3>1
  <2> HIDE DEF Plain
  <2> QED BY <2>2, <2>3
<1>2. CASE status = "OK"
  <2> DEFINE piece == IF value = <<>> THEN "0" ELSE ToString(value[1])
  <2>1. piece \in Pieces
    BY DEF ReplyOK, Pieces
  <2>2. Put(piece) \in Plain
    BY <2>1, PiecesArePlain
  <2>3. send_result(status, value) = [i \in 1..1 |-> Put(<<piece>>[i])]
    BY <1>2 DEF send_result, Puts
  <2> HIDE DEF piece
  <2>4. send_result(status, value) = <<Put(piece)>>
    BY <2>3
  <2> QED BY <2>2, <2>4
<1> QED BY <1>1, <1>2

LEMMA ResponseIsWhole ==
    ASSUME NEW l, NEW answered, ReplyOK(answered)
    PROVE  send_response(l, answered.status, answered.value) \in Whole
BY ResultIsPlain, FramedIsWhole DEF send_response

LEMMA RejectIsWhole ==
    ASSUME NEW l
    PROVE  send_response(l, "INVALID_ARGS", <<>>) \in Whole
<1> DEFINE answered == Answer("none", "INVALID_ARGS", <<>>, Nobody)
<1>1. ReplyOK(answered) /\ answered.status = "INVALID_ARGS" /\ answered.value = <<>>
  BY DEF ReplyOK, Answer, AllStatuses
<1> HIDE DEF answered
<1> QED BY <1>1, ResponseIsWhole

LEMMA EntriesAre ==
    ASSUME NEW i \in DOMAIN Entries
    PROVE  /\ Entries[i].system \in Tops /\ Entries[i].system \in Systems
           /\ Entries[i].name \in Pieces
<1>1. Entries[i] \in [id : Ids, name : STRING, system : Tops]
  <2>1. Entries \in Seq([id : Ids, name : STRING, system : Tops])
    BY ConsoleAssumption
  <2> DEFINE T == [id : Ids, name : STRING, system : Tops]
  <2> HIDE DEF T
  <2>2. DOMAIN Entries = 1..Len(Entries) /\ \A k \in 1..Len(Entries) : Entries[k] \in T
    BY <2>1, LenProperties, ElementOfSeq DEF T
  <2> QED BY <2>2 DEF T
<1>2. Tops \subseteq Systems
  BY CompositeAssumption
<1>3. Entries[i].name \in Pieces
  BY DEF Pieces
<1> QED BY <1>1, <1>2, <1>3

LEMMA RowIsPlain ==
    ASSUME NEW type \in {"x", "y"}, NEW entry, entry.system \in Systems
    PROVE  Row(type, entry) \in Seq(Plain)
<1> DEFINE cells == [i \in 1..HeaderCount |-> Get(type, entry.system, i - 1)]
<1>1. HeaderCount \in Nat /\ \A i \in 1..HeaderCount : i - 1 \in Ids
  <2>1. MaxSent \in 0..255 /\ HeaderCount \in 0..(MaxSent + 1)
    BY CompositeAssumption, ConsoleAssumption DEF Ids, Byte
  <2>2. HeaderCount \in Nat /\ \A i \in 1..HeaderCount : i - 1 \in 0..255
    BY <2>1
  <2> QED BY <2>2 DEF Ids, Byte
<1>2. \A i \in 1..HeaderCount : Get(type, entry.system, i - 1) \in Plain
  BY <1>1 DEF Get, Cells, Plain
<1>3. cells \in Seq(Plain)
  BY <1>1, <1>2, FunctionIsSeq
<1>4. type \in Pieces
  BY DEF Pieces
<1>5. Put(type) \in Plain
  BY <1>4, PiecesArePlain
<1>6. Row(type, entry) = <<Put(type)>> \o cells
  BY DEF Row
<1> HIDE DEF cells, Plain
<1> QED BY <1>3, <1>5, <1>6

LEMMA DumpIsWhole ==
    ASSUME NEW l, NEW T, NEW entries \in Seq(T),
           \A i \in 1..Len(entries) : entries[i].system \in Systems
    PROVE  send_system_dump(l, entries) \in Whole
<1> DEFINE rows == [i \in DOMAIN entries |-> Row("x", entries[i]) \o Row("y", entries[i])]
<1>1. \A i \in 1..Len(entries) : Row("x", entries[i]) \o Row("y", entries[i]) \in Seq(Plain)
  <2> SUFFICES ASSUME NEW i \in 1..Len(entries)
               PROVE  Row("x", entries[i]) \o Row("y", entries[i]) \in Seq(Plain)
    OBVIOUS
  <2>1. Row("x", entries[i]) \in Seq(Plain) /\ Row("y", entries[i]) \in Seq(Plain)
    BY RowIsPlain
  <2> QED BY <2>1, ConcatProperties
<1>2. rows \in Seq(Seq(Plain))
  <2>1. DOMAIN entries = 1..Len(entries) /\ Len(entries) \in Nat
    OBVIOUS
  <2>2. rows \in [1..Len(entries) -> Seq(Plain)]
    BY <1>1, <2>1
  <2> HIDE DEF rows
  <2> QED BY <2>1, <2>2, FunctionIsSeq
<1> HIDE DEF rows
<1>3. FlattenSeq(rows) \in Seq(Plain)
  BY <1>2, FlattenIsSeq
<1>4. Put("sys") \in Plain
  BY PiecesArePlain DEF Pieces
<1>5. <<Put("sys")>> \o FlattenSeq(rows) \in Seq(Plain)
  <2>1. <<Put("sys")>> \in Seq(Plain)
    BY <1>4
  <2> QED BY <1>3, <2>1, ConcatProperties
<1> QED BY <1>5, FramedIsWhole DEF send_system_dump, rows

LEMMA HelpIsWhole ==
    ASSUME dev \in States, NEW l, NEW n \in DOMAIN Entries
    PROVE  send_sys_help(l, Entries[n]) \in Whole
<1> DEFINE entry == Entries[n]
           names == [i \in 1..AliasCount(entry.system) |->
                       Put(Described(dev.read_only, entry.system, i - 1))]
<1>1. /\ entry.system \in Systems /\ entry.name \in Pieces
      /\ dev.read_only \in Bits /\ "alias" \in Members
  BY EntriesAre DEF States, DeviceStates, Bits, Members
<1>2. AliasCount(entry.system) \in Nat
  BY <1>1, CountIsByte, IdIsNat DEF AliasCount
<1>3. \A i \in 1..AliasCount(entry.system) :
        Put(Described(dev.read_only, entry.system, i - 1)) \in Plain
  <2> SUFFICES ASSUME NEW i \in 1..AliasCount(entry.system)
               PROVE  Described(dev.read_only, entry.system, i - 1) \in Pieces
    BY PiecesArePlain
  <2>1. i - 1 \in 0..(AliasCount(entry.system) - 1)
    BY <1>2
  <2>2. i - 1 \in 0..(Count[dev.read_only]["alias"][entry.system] - 1)
    BY <2>1 DEF AliasCount
  <2>3. Described(dev.read_only, entry.system, i - 1) \in HelpTexts(dev.read_only, entry.system)
    BY <2>2 DEF HelpTexts
  <2>4. HelpTexts(dev.read_only, entry.system) \in
          {HelpTexts(R, Entries[k].system) : R \in Bits, k \in DOMAIN Entries}
    BY <1>1
  <2> HIDE DEF entry
  <2> QED BY <2>3, <2>4 DEF Pieces
<1>4. names \in Seq(Plain)
  BY <1>2, <1>3, FunctionIsSeq
<1>5. Put(entry.name) \in Plain
  BY <1>1, PiecesArePlain
<1>6. <<Put(entry.name)>> \o names \in Seq(Plain)
  <2>1. <<Put(entry.name)>> \in Seq(Plain)
    BY <1>5
  <2> QED BY <1>4, <2>1, ConcatProperties
<1> QED BY <1>6, FramedIsWhole DEF send_sys_help

-----------------------------------------------------------------------------
(* Finding the system and the command                                      *)

LEMMA FoundIsEntry ==
    ASSUME NEW tok, FindSystem(tok) # 0
    PROVE  FindSystem(tok) \in DOMAIN Entries
<1>1. Len(Entries) \in Nat /\ DOMAIN Entries = 1..Len(Entries)
  BY ConsoleAssumption
<1>2. ASSUME NEW T, T \subseteq 1..Len(Entries), T # {}
      PROVE  Min(T) \in 1..Len(Entries)
  <2>1. T \subseteq Nat
    BY <1>1, <1>2
  <2>2. Min(T) \in T
    BY <1>2, <2>1, MinIsLeast
  <2> QED BY <1>2, <2>2
<1>3. CASE tok.letter = "s" /\ tok.number # {}
  <2> DEFINE id == (CHOOSE n \in tok.number : TRUE) % Byte
             T == {i \in 1..Len(Entries) : Entries[i].id = id}
  <2>1. FindSystem(tok) = IF T # {} THEN Min(T) ELSE 0
    BY <1>3 DEF FindSystem, find_system_index_by_id, SelectInSeq
  <2> HIDE DEF id
  <2>2. T \subseteq 1..Len(Entries)
    OBVIOUS
  <2> HIDE DEF T
  <2> QED BY <1>1, <1>2, <2>1, <2>2
<1>4. CASE ~(tok.letter = "s" /\ tok.number # {})
  <2> DEFINE T == {i \in 1..Len(Entries) : Entries[i].name = tok.text}
  <2>1. FindSystem(tok) = IF T # {} THEN Min(T) ELSE 0
    BY <1>4 DEF FindSystem, find_system_index_by_name, SelectInSeq
  <2>2. T \subseteq 1..Len(Entries)
    OBVIOUS
  <2> HIDE DEF T
  <2> QED BY <1>1, <1>2, <2>1, <2>2
<1> QED BY <1>3, <1>4

LEMMA FoundIsCommand ==
    ASSUME dev \in States, NEW s \in Tops, NEW tok \in Token, NEW cmd \in FindCommand(s, tok)
    PROVE  cmd.id \in Ids /\ cmd.preset \subseteq Numbers
<1>1. ASSUME cmd \in find_command_by_alias(s, tok.text)
      PROVE  cmd.id \in Ids /\ cmd.preset \subseteq Numbers
  <2>1. PICK id \in 0..(AliasCount(s) - 1) : cmd = mc_composite_get_alias[dev.read_only][s][id]
    BY <1>1 DEF find_command_by_alias
  <2>2. dev.read_only \in Bits /\ s \in Systems /\ "alias" \in Members
    BY CompositeAssumption DEF States, DeviceStates, Bits, Members
  <2>3. Count[dev.read_only]["alias"][s] \in Ids
    BY <2>2, CountIsByte
  <2>4. id \in Ids /\ id < Count[dev.read_only]["alias"][s]
    <3> DEFINE n == Count[dev.read_only]["alias"][s]
    <3>1. n \in Ids /\ id \in 0..(n - 1)
      BY <2>3, <2>1 DEF AliasCount
    <3> HIDE DEF n
    <3>2. id \in Ids /\ id < n
      BY <3>1, Below
    <3> QED BY <3>2 DEF n
  <2>5. cmd \in Infos
    BY <2>1, <2>2, <2>4, AliasTyped
  <2> QED BY <2>5 DEF Infos, Numbers
<1>2. ASSUME cmd \in parse_member_token(tok)
      PROVE  cmd.id \in Ids /\ cmd.preset \subseteq Numbers
  <2>1. PICK n \in tok.number : cmd = [type |-> tok.letter, id |-> n % Byte, preset |-> {}]
    BY <1>2 DEF parse_member_token
  <2>2. n \in Int
    BY DEF Token
  <2>3. n % 256 \in 0..255
    BY <2>2
  <2> QED BY <2>1, <2>3 DEF Ids, Byte
<1> QED BY <1>1, <1>2 DEF FindCommand

-----------------------------------------------------------------------------
(* The console                                                             *)

\* What the peer holds when no answer is on its way.
Apart == {<<>>, Old}

\* What has been said of an answer: it began with STX.
Begun == {s \in Seq(Pieces \cup {STX}) : s # <<>> /\ s[1] = STX}

\* No line in hand: the peer has the whole of the last answer, or nothing.
Between ==
    /\ outcome \in {"done", "cut"} /\ todo = <<>> /\ pending = Idle /\ line = NoLine
    /\ frame \in Apart
    /\ \/ got = said
       \/ got = <<>> /\ (outcome = "cut" \/ said = <<"clear">>)

\* A line in hand and nothing written for it.
Starting ==
    /\ outcome = "busy" /\ said = <<>> /\ got = <<>> /\ frame \in Apart
    /\ \/ pending = Idle /\ (todo = <<Put("clear")>> \/ todo \in Whole)
       \/ pending # Idle /\ todo = <<>>

\* In the middle of an answer the peer holds what was said of it.
Answering ==
    /\ outcome = "busy" /\ pending = Idle /\ got = <<>>
    /\ said \in Begun /\ frame = said /\ todo \in Rest

ConsoleInv ==
    /\ SystemInv
    /\ line \in Lines \cup {NoLine}
    /\ Between \/ Starting \/ Answering

LEMMA BegunIsApart == \A s \in Begun : s \notin Apart
<1> SUFFICES ASSUME NEW s \in Begun, s = Old PROVE FALSE
  BY DEF Begun, Apart
<1>1. Old[2] = "old" /\ Len(Old) = 2
  BY DEF Old
<1>2. s[2] \in Pieces \cup {STX}
  <2>1. s \in Seq(Pieces \cup {STX}) /\ 2 \in 1..Len(s)
    BY <1>1 DEF Begun
  <2> QED BY <2>1, ElementOfSeq
<1> QED BY <1>1, <1>2, PiecesAssumption DEF STX

LEMMA AnswersAreNotEmpty ==
    /\ \A t \in Rest \cup Whole : t # <<>>
    /\ <<Put("clear")>> # <<>>
BY DEF Rest, Whole

LEMMA InvIsConsoleTyped == ConsoleInv => ConsoleTypeOK
<1> SUFFICES ASSUME ConsoleInv PROVE ConsoleTypeOK
  OBVIOUS
<1>1. TypeOK
  BY InvIsTyped DEF ConsoleInv
<1>2. outcome = "busy" <=> todo # <<>> \/ pending # Idle
  BY AnswersAreNotEmpty DEF ConsoleInv, Between, Starting, Answering
<1>3. frame # <<>> => frame[1] = STX
  BY DEF ConsoleInv, Between, Starting, Answering, Apart, Old, Begun
<1>4. outcome \in {"busy", "done", "cut"} /\ (outcome # "busy" => line = NoLine)
  BY DEF ConsoleInv, Between, Starting, Answering
<1> QED BY <1>1, <1>2, <1>3, <1>4 DEF ConsoleInv, ConsoleTypeOK

LEMMA InvIsWhole == ConsoleInv => FramesAreWhole
BY DEF ConsoleInv, Between, Starting, Answering, FramesAreWhole

\* What InvalidMeansUntouched says of a step.
Untouched ==
    Put("INVALID_ARGS") \in ToSet(todo') /\ outcome # "busy" => UNCHANGED <<dev, target>>

\* Only what was refused is answered INVALID_ARGS.
LEMMA InvalidIsSaid ==
    ASSUME NEW l, NEW answered, ReplyOK(answered), answered.status # "INVALID_ARGS"
    PROVE  Put("INVALID_ARGS") \notin ToSet(send_response(l, answered.status, answered.value))
<1> DEFINE status == answered.status
           value == answered.value
           result == send_result(status, value)
           bad == Put("INVALID_ARGS")
           Others == Jobs \ {bad}
<1>1. ASSUME NEW piece, piece # "INVALID_ARGS" PROVE Put(piece) # bad
  BY <1>1, PutIs
<1>2. result \in Seq(Others)
  <2>0. result \in Seq(Plain)
    BY ResultIsPlain
  <2>1. CASE status # "OK"
    <3>1. result = [i \in 1..2 |-> Put(<<"E", status>>[i])]
      BY <2>1 DEF send_result, Puts
    <3>2. Put("E") # bad /\ Put(status) # bad
      BY <1>1
    <3> HIDE DEF status, bad, result
    <3>3. result = <<Put("E"), Put(status)>>
      BY <3>1
    <3>4. Put("E") \in Plain /\ Put(status) \in Plain
      BY <2>0, <3>3
    <3> HIDE DEF Plain
    <3> QED BY <3>2, <3>3, <3>4 DEF Jobs
  <2>2. CASE status = "OK"
    <3> DEFINE piece == IF value = <<>> THEN "0" ELSE ToString(value[1])
    <3>1. result = [i \in 1..1 |-> Put(<<piece>>[i])]
      BY <2>2 DEF send_result, Puts
    <3>2. piece # "INVALID_ARGS"
      BY PiecesAssumption DEF ReplyOK
    <3> HIDE DEF piece
    <3>3. Put(piece) # bad
      BY <1>1, <3>2
    <3> HIDE DEF status, bad, result
    <3>4. result = <<Put(piece)>>
      BY <3>1
    <3>5. Put(piece) \in Plain
      BY <2>0, <3>4
    <3> HIDE DEF Plain
    <3> QED BY <3>3, <3>4, <3>5 DEF Jobs
  <2> QED BY <2>1, <2>2
<1>3. Put(STX) \in Others /\ Put(ETX) \in Others /\ Put("echo") \in Others
  <2>1. Put(STX) \in Jobs /\ Put(ETX) \in Jobs /\ Put("echo") \in Jobs
    BY PiecesArePlain DEF Jobs, Pieces
  <2> QED BY <1>1, <2>1 DEF STX, ETX
<1> HIDE DEF result, Others
<1>4. Echo(l) \in Seq(Others)
  BY <1>3 DEF Echo
<1>5. send_response(l, status, value) \in Seq(Others)
  <2>1. send_response(l, status, value) = <<Put(STX)>> \o Echo(l) \o result \o <<Put(ETX)>>
    BY DEF send_response, Framed, result
  <2> QED BY <1>2, <1>3, <1>4, <2>1
<1>6. bad \notin Others
  BY DEF Others
<1> HIDE DEF bad, status, value
<1>7. \A t \in Seq(Others) : \A i \in DOMAIN t : t[i] \in Others
  OBVIOUS
<1> QED BY <1>5, <1>6, <1>7 DEF ToSet, bad, status, value

\* A line begins.
LEMMA BeginStep ==
    ASSUME ConsoleInv, outcome # "busy", SystemInv', NEW l \in Lines \cup {NoLine}, NEW jobs,
           Begin(l, jobs),
           \/ pending' = Idle /\ (jobs = <<Put("clear")>> \/ jobs \in Whole)
           \/ pending' # Idle /\ jobs = <<>>
    PROVE  ConsoleInv'
<1>1. frame \in Apart
  BY DEF ConsoleInv, Between, Starting, Answering
<1>2. Starting'
  BY <1>1 DEF Begin, Starting
<1> QED BY <1>2 DEF ConsoleInv, Begin

LEMMA SayStep ==
    ASSUME ConsoleInv, outcome # "busy", NEW l \in Lines \cup {NoLine}, NEW jobs,
           Say(l, jobs), jobs = <<Put("clear")>> \/ jobs \in Whole
    PROVE  ConsoleInv' /\ Untouched
<1>1. UNCHANGED vars /\ Begin(l, jobs)
  BY DEF Say
<1>2. pending' = Idle /\ SystemInv'
  BY <1>1 DEF ConsoleInv, Between, Starting, Answering, vars, SystemInv
<1>3. UNCHANGED <<dev, target>>
  BY <1>1 DEF vars
<1>4. ConsoleInv'
  BY <1>1, <1>2, BeginStep
<1> QED BY <1>3, <1>4 DEF Untouched

LEMMA RejectStep ==
    ASSUME ConsoleInv, outcome # "busy", NEW l \in Lines, Reject(l)
    PROVE  ConsoleInv' /\ Untouched
BY RejectIsWhole, SayStep DEF Reject

LEMMA AnsweredStep ==
    ASSUME ConsoleInv, outcome # "busy", NEW l \in Lines, SystemInv', Harmless, Answered(l)
    PROVE  ConsoleInv' /\ Untouched
<1>1. ReplyOK(reply')
  BY DEF SystemInv
<1> DEFINE response == send_response(l, reply'.status, reply'.value)
           jobs == IF pending' = Idle THEN response ELSE <<>>
<1>2. Begin(l, jobs) /\ todo' = jobs
  BY DEF Answered, Begin
<1>3. response \in Whole
  BY <1>1, ResponseIsWhole
<1>4. reply'.status # "INVALID_ARGS" => Put("INVALID_ARGS") \notin ToSet(response)
  BY <1>1, InvalidIsSaid
<1> HIDE DEF response
<1>5. Put("INVALID_ARGS") \notin ToSet(<<>>)
  BY DEF ToSet
<1>6. Untouched
  BY <1>2, <1>4, <1>5 DEF Untouched, Harmless
<1>7. ConsoleInv'
  BY <1>2, <1>3, BeginStep
<1> QED BY <1>6, <1>7

\* A command that was found, and what follows it in the line.
LEMMA CommandStep ==
    ASSUME ConsoleInv, outcome # "busy", NEW l \in Lines, NEW s \in Systems, NEW cmd, NEW rest,
           cmd.id \in Ids, cmd.preset \subseteq Numbers,
           rest # <<>> => Number(rest[1]) \subseteq Numbers,
           \/ Input(l, s, cmd, rest)
           \/ mc_sys_read_output(s, cmd.id) /\ Answered(l)
           \/ Function(l, s, cmd, rest)
    PROVE  ConsoleInv' /\ Untouched
<1>1. SystemInv /\ pending = Idle
  BY DEF ConsoleInv, Between, Starting, Answering
<1>2. ASSUME NEW val \in Numbers, mc_sys_write_input(s, cmd.id, val), Answered(l)
      PROVE  ConsoleInv' /\ Untouched
  <2>1. SystemInv' /\ Harmless
    BY <1>1, <1>2, WriteStep
  <2> QED BY <1>2, <2>1, AnsweredStep
<1>3. ASSUME mc_sys_read_input(s, cmd.id) \/ mc_sys_read_output(s, cmd.id), Answered(l)
      PROVE  ConsoleInv' /\ Untouched
  <2>1. SystemInv' /\ Harmless
    BY <1>1, <1>3, ReadStep
  <2> QED BY <1>3, <2>1, AnsweredStep
<1>4. ASSUME mc_sys_invoke(s, cmd.id), Answered(l) PROVE ConsoleInv' /\ Untouched
  <2>1. SystemInv' /\ Harmless
    BY <1>1, <1>4, InvokeStep
  <2> QED BY <1>4, <2>1, AnsweredStep
<1>5. CASE Reject(l)
  BY <1>5, RejectStep
<1>6. CASE Input(l, s, cmd, rest)
  <2>1. \/ \E val \in cmd.preset : mc_sys_write_input(s, cmd.id, val) /\ Answered(l)
        \/ rest # <<>> /\ UserWrite(l, s, cmd.id, rest)
        \/ mc_sys_read_input(s, cmd.id) /\ Answered(l)
    BY <1>6 DEF Input
  <2>2. UserWrite(l, s, cmd.id, rest) =>
          \/ Reject(l)
          \/ \E val \in Number(rest[1]) : mc_sys_write_input(s, cmd.id, val) /\ Answered(l)
    BY DEF UserWrite
  <2> QED BY <1>2, <1>3, <1>5, <2>1, <2>2
<1>7. CASE Function(l, s, cmd, rest)
  <2>1. Reject(l) \/ (mc_sys_invoke(s, cmd.id) /\ Answered(l))
    BY <1>7 DEF Function
  <2> QED BY <1>4, <1>5, <2>1
<1> QED BY <1>3, <1>6, <1>7

LEMMA LineStep ==
    ASSUME ConsoleInv, outcome # "busy", NEW l \in Lines, process_command(l)
    PROVE  ConsoleInv' /\ Untouched
<1> DEFINE tokens == l.tokens
           n == FindSystem(tokens[1])
           entry == Entries[n]
           known == tokens # <<>> /\ ~IsClear(l) /\ n # 0
           rest == SubSeq(tokens, 3, Len(tokens))
<1>1. \/ Say(l, <<Put("clear")>>)
      \/ Reject(l)
      \/ known /\ Say(l, send_sys_help(l, entry))
      \/ known /\ Say(l, send_system_dump(l, <<entry>>))
      \/ known /\ Len(tokens) > 1 /\ Execute(l, entry.system, tokens[2], rest)
  BY DEF process_command
<1>2. tokens \in Seq(Token) /\ \A i \in 3..Len(tokens) : tokens[i].number \subseteq Numbers
  BY ConsoleAssumption
<1>3. known => n \in DOMAIN Entries
  BY FoundIsEntry
<1>4. known => /\ entry.system \in Tops /\ entry.system \in Systems
               /\ entry.name \in Pieces
  <2> HIDE DEF n
  <2> QED BY <1>3, EntriesAre
<1>5. dev \in States
  BY DEF ConsoleInv, SystemInv
<1>6. CASE Say(l, <<Put("clear")>>)
  BY <1>6, SayStep
<1>7. CASE Reject(l)
  BY <1>7, RejectStep
<1>8. CASE known /\ Say(l, send_sys_help(l, entry))
  <2>1. send_sys_help(l, entry) \in Whole
    <3> HIDE DEF n
    <3> QED BY <1>3, <1>5, <1>8, HelpIsWhole
  <2> QED BY <1>8, <2>1, SayStep
<1>9. CASE known /\ Say(l, send_system_dump(l, <<entry>>))
  <2> HIDE DEF entry
  <2>1. /\ <<entry>> \in Seq({entry})
        /\ \A i \in 1..Len(<<entry>>) : <<entry>>[i].system \in Systems
    BY <1>4, <1>9
  <2>2. send_system_dump(l, <<entry>>) \in Whole
    BY <2>1, DumpIsWhole
  <2> QED BY <1>9, <2>2, SayStep
<1>10. CASE known /\ Len(tokens) > 1 /\ Execute(l, entry.system, tokens[2], rest)
  <2> HIDE DEF entry, known
  <2>1. \/ Reject(l)
        \/ \E cmd \in FindCommand(entry.system, tokens[2]) :
             \/ Input(l, entry.system, cmd, rest)
             \/ mc_sys_read_output(entry.system, cmd.id) /\ Answered(l)
             \/ Function(l, entry.system, cmd, rest)
    BY <1>10 DEF Execute
  <2>2. ASSUME NEW cmd \in FindCommand(entry.system, tokens[2]),
               \/ Input(l, entry.system, cmd, rest)
               \/ mc_sys_read_output(entry.system, cmd.id) /\ Answered(l)
               \/ Function(l, entry.system, cmd, rest)
        PROVE  ConsoleInv' /\ Untouched
    <3>1. tokens[2] \in Token
      <4>1. Len(tokens) \in Nat /\ 2 \in 1..Len(tokens)
        BY <1>2, <1>10
      <4> HIDE DEF tokens
      <4> QED BY <1>2, <4>1, ElementOfSeq
    <3>2. cmd.id \in Ids /\ cmd.preset \subseteq Numbers
      BY <1>4, <1>5, <1>10, <3>1, FoundIsCommand
    <3>3. rest # <<>> => Number(rest[1]) \subseteq Numbers
      <4>1. CASE Len(tokens) >= 3
        <5>1. rest[1] = tokens[3] /\ 3 \in 3..Len(tokens)
          BY <1>2, <4>1
        <5> QED BY <1>2, <5>1 DEF Number
      <4>2. CASE ~(Len(tokens) >= 3)
        <5>1. rest = <<>>
          BY <1>2, <4>2
        <5> QED BY <5>1
      <4> QED BY <4>1, <4>2
    <3> HIDE DEF rest, tokens
    <3> QED BY <1>4, <1>10, <2>2, <3>2, <3>3, CommandStep
  <2> QED BY <1>7, <2>1, <2>2
<1> QED BY <1>1, <1>6, <1>7, <1>8, <1>9, <1>10

LEMMA DumpStep ==
    ASSUME ConsoleInv, mc_sys_console_dump
    PROVE  ConsoleInv' /\ Untouched
<1>1. Entries \in Seq([id : Ids, name : STRING, system : Tops])
  BY ConsoleAssumption
<1>2. \A i \in 1..Len(Entries) : Entries[i].system \in Systems
  BY <1>1, EntriesAre, LenProperties
<1>3. send_system_dump(NoLine, Entries) \in Whole
  BY <1>1, <1>2, DumpIsWhole
<1> QED BY <1>3, SayStep DEF mc_sys_console_dump

LEMMA ToggleAnsweredStep ==
    ASSUME ConsoleInv, ToggleAnswered
    PROVE  ConsoleInv' /\ outcome = "busy"
<1>1. SystemInv' /\ pending' = Idle /\ ReplyOK(reply')
  BY ToggleStep DEF ConsoleInv, ToggleAnswered, SystemInv
<1>2. pending # Idle
  BY DEF ToggleAnswered, Toggle, Idle
<1>3. Starting
  BY <1>2 DEF ConsoleInv, Between, Starting, Answering
<1>4. todo' \in Whole
  BY <1>1, ResponseIsWhole DEF ToggleAnswered
<1>5. Starting'
  BY <1>1, <1>3, <1>4 DEF Starting, ToggleAnswered
<1> QED BY <1>1, <1>3, <1>5 DEF ConsoleInv, Starting, ToggleAnswered

\* A cell is read only once an answer has begun.
LEMMA CellIsRead ==
    ASSUME ConsoleInv, ReadNext
    PROVE  Answering /\ Head(todo) \in Cells /\ Tail(todo) \in Rest
<1> DEFINE cell == Head(todo)
<1>1. todo # <<>> /\ cell.do # "put"
  BY DEF ReadNext
<1>2. ASSUME NEW t \in Whole PROVE Head(t) = Put(STX)
  BY <1>2 DEF Whole
<1>3. Head(<<Put("clear")>>) = Put("clear")
  OBVIOUS
<1>4. Answering
  BY <1>1, <1>2, <1>3, PutIs DEF ConsoleInv, Between, Starting, Answering
<1>5. cell \in Cells
  BY <1>1, <1>4, RestGoesOn, PutIs DEF Answering, Plain
<1>6. Tail(todo) \in Rest
  BY <1>4, <1>5, RestGoesOn DEF Answering, Plain
<1> QED BY <1>4, <1>5, <1>6

LEMMA ReadNextStep ==
    ASSUME ConsoleInv, ReadNext
    PROVE  ConsoleInv' /\ outcome = "busy"
<1> DEFINE cell == Head(todo)
           result == send_result(reply'.status, reply'.value)
<1>1. /\ mc_sys_read_input(cell.system, cell.id) \/ mc_sys_read_output(cell.system, cell.id)
      /\ todo' = result \o Tail(todo)
      /\ UNCHANGED <<line, said, outcome, frame, got>>
  BY DEF ReadNext
<1>2. Answering /\ cell \in Cells /\ Tail(todo) \in Rest
  BY CellIsRead
<1>3. SystemInv' /\ UNCHANGED <<dev, target, pending>>
  BY <1>1, <1>2, ReadStep DEF ConsoleInv, Cells
<1>4. result \in Seq(Plain)
  BY <1>3, ResultIsPlain DEF SystemInv
<1> HIDE DEF result, cell
<1>5. todo' \in Rest
  BY <1>1, <1>2, <1>4, PlainBeforeRest
<1>6. Answering'
  BY <1>1, <1>2, <1>3, <1>5 DEF Answering
<1> QED BY <1>1, <1>2, <1>3, <1>6 DEF ConsoleInv, Answering

LEMMA ReceivedIs ==
    /\ Received(STX) = <<STX>> /\ Received(ETX) = <<>>
    /\ \A piece : piece \notin {STX, ETX} =>
         Received(piece) = IF frame \in Apart THEN frame ELSE Append(frame, piece)
    /\ \A piece : piece # ETX => Delivered(piece) = got
    /\ "torn" \notin {STX, ETX} /\ "clear" \notin {STX, ETX} /\ STX # ETX
BY DEF Received, Delivered, STX, ETX, Apart

\* What the next write is of, and what is left when it is made.
LEMMA WritingIs ==
    ASSUME ConsoleInv, Writing
    PROVE  /\ SystemInv' /\ UNCHANGED vars /\ pending = Idle /\ outcome = "busy"
           /\ got = <<>> /\ said' = Append(said, Head(todo).what)
           /\ \/ /\ Starting /\ Head(todo).what = "clear" /\ Tail(todo) = <<>>
              \/ /\ Starting /\ Head(todo).what = STX /\ Tail(todo) \in Rest
              \/ /\ Answering /\ Head(todo).what \in Pieces /\ Tail(todo) \in Rest
              \/ /\ Answering /\ Head(todo).what = ETX /\ Tail(todo) = <<>>
<1>1. /\ todo # <<>> /\ Head(todo).do = "put" /\ UNCHANGED vars
      /\ said' = Append(said, Head(todo).what)
  BY DEF Writing
<1>2. SystemInv'
  BY <1>1 DEF ConsoleInv, SystemInv, vars
<1>3. CASE Starting /\ todo = <<Put("clear")>>
  <2>1. Head(todo) = Put("clear") /\ Tail(todo) = <<>>
    BY <1>3
  <2> QED BY <1>1, <1>2, <1>3, <2>1, PutIs DEF Starting
<1>4. CASE Starting /\ todo \in Whole
  <2>1. Head(todo) = Put(STX) /\ Tail(todo) \in Rest
    BY <1>4 DEF Whole
  <2> QED BY <1>1, <1>2, <1>4, <2>1, PutIs, AnswersAreNotEmpty DEF Starting
<1>5. CASE Answering
  <2>1. todo \in Rest
    BY <1>5 DEF Answering
  <2>2. CASE Head(todo) = Put(ETX)
    <3>1. Tail(todo) = <<>> /\ Head(todo).what = ETX
      BY <2>1, <2>2, RestGoesOn, PutIs
    <3> QED BY <1>1, <1>2, <1>5, <3>1 DEF Answering
  <2>3. CASE Head(todo) \in Plain
    <3>1. Tail(todo) \in Rest
      BY <2>1, <2>3, RestGoesOn
    <3>2. Head(todo) \notin Cells
      BY <1>1 DEF Cells
    <3>3. PICK p \in Pieces : Head(todo) = Put(p)
      BY <2>3, <3>2 DEF Plain
    <3>4. Head(todo).what \in Pieces
      BY <3>3, PutIs
    <3> QED BY <1>1, <1>2, <1>5, <3>1, <3>4 DEF Answering
  <2> QED BY <2>1, <2>2, <2>3, RestGoesOn
<1>6. (Starting /\ (todo = <<Put("clear")>> \/ todo \in Whole)) \/ Answering
  BY <1>1 DEF ConsoleInv, Between, Starting
<1> QED BY <1>3, <1>4, <1>5, <1>6

LEMMA TakenStep ==
    ASSUME ConsoleInv, Writing, Taken
    PROVE  ConsoleInv'
<1> DEFINE piece == Head(todo).what
           left == Tail(todo)
<1>1. /\ frame' = Received(piece) /\ got' = Delivered(piece) /\ todo' = left
      /\ outcome' = IF left = <<>> THEN "done" ELSE "busy"
      /\ line' = IF left = <<>> THEN NoLine ELSE line
  BY DEF Taken, Proceed
<1>2. /\ SystemInv' /\ pending' = Idle /\ got = <<>> /\ said' = Append(said, piece)
      /\ line' \in Lines \cup {NoLine}
  BY <1>1, WritingIs DEF vars, ConsoleInv
<1>3. \/ Starting /\ piece = "clear" /\ left = <<>>
      \/ Starting /\ piece = STX /\ left \in Rest
      \/ Answering /\ piece \in Pieces /\ left \in Rest
      \/ Answering /\ piece = ETX /\ left = <<>>
  BY WritingIs
<1> HIDE DEF piece, left
<1>4. CASE Starting /\ piece = "clear" /\ left = <<>>
  <2>1. said' = <<"clear">>
    BY <1>2, <1>4 DEF Starting
  <2>2. frame' = frame /\ frame \in Apart /\ got' = <<>>
    BY <1>1, <1>2, <1>4, ReceivedIs DEF Starting
  <2>3. Between'
    BY <1>1, <1>2, <1>4, <2>1, <2>2 DEF Between
  <2> QED BY <1>2, <2>3 DEF ConsoleInv
<1>5. CASE Starting /\ piece = STX /\ left \in Rest
  <2>1. said' = <<STX>> /\ frame' = <<STX>> /\ got' = <<>>
    BY <1>1, <1>2, <1>5, ReceivedIs DEF Starting
  <2>2. said' \in Begun
    <3> DEFINE T == Pieces \cup {STX}
    <3>1. STX \in T
      OBVIOUS
    <3> HIDE DEF T
    <3>2. <<STX>> \in Seq(T) /\ <<STX>> # <<>> /\ <<STX>>[1] = STX
      BY <3>1
    <3> QED BY <2>1, <3>2 DEF Begun, T
  <2>3. left # <<>>
    BY <1>5, AnswersAreNotEmpty
  <2>4. Answering'
    BY <1>1, <1>2, <1>5, <2>1, <2>2, <2>3 DEF Answering
  <2> QED BY <1>2, <2>4 DEF ConsoleInv
<1>6. CASE Answering /\ piece \in Pieces /\ left \in Rest
  <2>1. frame = said /\ said \in Begun /\ frame \notin Apart
    BY <1>6, BegunIsApart DEF Answering
  <2>2. piece \notin {STX, ETX}
    BY <1>6, PiecesAssumption
  <2>3. frame' = Append(said, piece) /\ got' = <<>>
    BY <1>1, <1>2, <2>1, <2>2, ReceivedIs
  <2>4. said' \in Begun
    <3> DEFINE T == Pieces \cup {STX}
    <3>1. piece \in T /\ said \in Seq(T) /\ said # <<>> /\ said[1] = STX
      BY <1>6, <2>1 DEF Begun
    <3> HIDE DEF T
    <3>2. 1 \in 1..Len(said)
      BY <3>1
    <3>3. /\ Append(said, piece) \in Seq(T) /\ Append(said, piece) # <<>>
          /\ Append(said, piece)[1] = STX
      BY <3>1, <3>2, AppendProperties
    <3> QED BY <1>2, <3>3 DEF Begun, T
  <2>5. left # <<>>
    BY <1>6, AnswersAreNotEmpty
  <2>6. Answering'
    BY <1>1, <1>2, <1>6, <2>3, <2>4, <2>5 DEF Answering
  <2> QED BY <1>2, <2>6 DEF ConsoleInv
<1>7. CASE Answering /\ piece = ETX /\ left = <<>>
  <2>1. frame = said /\ said # <<>>
    BY <1>7 DEF Answering, Begun
  <2>2. got' = said' /\ frame' = <<>>
    BY <1>1, <1>2, <1>7, <2>1, ReceivedIs DEF Delivered
  <2>3. Between'
    BY <1>1, <1>2, <1>7, <2>2 DEF Between, Apart
  <2> QED BY <1>2, <2>3 DEF ConsoleInv
<1> QED BY <1>3, <1>4, <1>5, <1>6, <1>7

LEMMA FailedStep ==
    ASSUME ConsoleInv, Writing, Failed
    PROVE  ConsoleInv'
<1> DEFINE written == Head(todo).what
<1>1. PICK piece \in {written, "torn"} : FailedWith(piece)
  BY DEF Failed
<1>2. /\ frame' \in Apart /\ got' = Delivered(piece) /\ todo' = <<>>
      /\ outcome' = "cut" /\ line' = NoLine
  BY <1>1 DEF FailedWith, Apart
<1>3. /\ SystemInv' /\ pending' = Idle /\ got = <<>> /\ said' = Append(said, written)
  BY WritingIs DEF vars
<1>4. \/ Starting /\ written = "clear"
      \/ Starting /\ written = STX
      \/ Answering /\ written \in Pieces
      \/ Answering /\ written = ETX
  <2>1. \/ Starting /\ Head(todo).what = "clear"
        \/ Starting /\ Head(todo).what = STX
        \/ Answering /\ Head(todo).what \in Pieces
        \/ Answering /\ Head(todo).what = ETX
    BY WritingIs, Zenon
  <2> QED BY <2>1
<1> HIDE DEF written
<1>5. got' = <<>> \/ got' = said'
  <2>1. CASE piece # ETX
    BY <1>2, <1>3, <2>1, ReceivedIs
  <2>2. CASE piece = ETX
    <3>1. Answering /\ written = ETX
      BY <1>1, <1>4, <2>2, ReceivedIs, PiecesAssumption
    <3>2. frame = said /\ said # <<>>
      BY <3>1 DEF Answering, Begun
    <3> QED BY <1>2, <1>3, <2>2, <3>1, <3>2 DEF Delivered
  <2> QED BY <2>1, <2>2
<1>6. Between'
  BY <1>2, <1>3, <1>5 DEF Between
<1> QED BY <1>2, <1>3, <1>6 DEF ConsoleInv

LEMMA AroundStep ==
    ASSUME ConsoleInv, Around
    PROVE  ConsoleInv' /\ (outcome # "busy" => todo' = <<>>)
<1>1. /\ UNCHANGED <<target, pending>>
      /\ UNCHANGED <<line, todo, said, outcome, frame, got>>
      /\ Changes \/ (outcome # "busy" /\ Calls)
  BY DEF Around, answer
<1>2. outcome # "busy" => pending = Idle /\ todo = <<>>
  BY DEF ConsoleInv, Between, Starting, Answering
<1>3. SystemInv'
  BY <1>1, <1>2, SurroundingsStep DEF ConsoleInv
<1> QED BY <1>1, <1>2, <1>3 DEF ConsoleInv, Between, Starting, Answering

LEMMA ConsoleStep == ConsoleInv /\ [ConsoleNext]_cvars => ConsoleInv' /\ [Untouched]_cvars
<1> SUFFICES ASSUME ConsoleInv, [ConsoleNext]_cvars PROVE ConsoleInv' /\ [Untouched]_cvars
  OBVIOUS
<1>1. CASE console_rx_handler
  <2>1. PICK l \in Lines : process_command(l)
    BY <1>1 DEF console_rx_handler
  <2> QED BY <1>1, <2>1, LineStep DEF console_rx_handler
<1>2. CASE mc_sys_console_dump
  BY <1>2, DumpStep
<1>3. CASE ToggleAnswered
  BY <1>3, ToggleAnsweredStep DEF Untouched
<1>4. CASE WriteNext
  <2>1. outcome = "busy"
    BY <1>4, WritingIs DEF WriteNext
  <2>2. ConsoleInv'
    BY <1>4, TakenStep, FailedStep DEF WriteNext
  <2> QED BY <2>1, <2>2 DEF Untouched
<1>5. CASE ReadNext
  BY <1>5, ReadNextStep DEF Untouched
<1>6. CASE Around
  BY <1>6, AroundStep DEF Untouched, ToSet
<1>7. CASE UNCHANGED cvars
  BY <1>7 DEF cvars, vars, answer, ConsoleInv, SystemInv, Between, Starting, Answering
<1> QED BY <1>1, <1>2, <1>3, <1>4, <1>5, <1>6, <1>7 DEF ConsoleNext, Serve

THEOREM ConsoleSafe == ConsoleSpec => []ConsoleInv
<1>1. ConsoleInit => ConsoleInv
  <2>1. Init => pending = Idle
    BY DEF Init
  <2> QED BY <2>1, SystemInit DEF ConsoleInit, ConsoleInv, Between, Apart
<1>2. ConsoleInv /\ [ConsoleNext]_cvars => ConsoleInv'
  BY ConsoleStep
<1> QED BY <1>1, <1>2, PTL DEF ConsoleSpec

\* The line in hand, what is still to write for it and the peer keep to their
\* types, and the console is busy exactly while something is left to do.
COROLLARY ConsoleTyped == ConsoleSpec => []ConsoleTypeOK
BY ConsoleSafe, InvIsConsoleTyped, PTL

\* Whichever writes fail and wherever they stop, a frame that ends at the peer
\* is the whole answer to one line, and a line not cut short has its frame.
THEOREM ConsoleFrames == ConsoleSpec => []FramesAreWhole
BY ConsoleSafe, InvIsWhole, PTL

\* A line answered INVALID_ARGS has changed no device and no target, whichever
\* of the checks of the console and of the systems it failed.
THEOREM ConsoleRefuses == ConsoleSpec => InvalidMeansUntouched
<1>1. ConsoleInv /\ [ConsoleNext]_cvars =>
        [ Put("INVALID_ARGS") \in ToSet(todo') /\ outcome # "busy"
            => UNCHANGED <<dev, target>> ]_cvars
  BY ConsoleStep DEF Untouched
<1> QED BY <1>1, ConsoleSafe, PTL DEF ConsoleSpec, InvalidMeansUntouched

-----------------------------------------------------------------------------
(* What help says of a name                                               *)

\* No leaf is twice in the system.
Distinct(s) == \A i, j \in DOMAIN LeafOrder[s] : LeafOrder[s][i] = LeafOrder[s][j] => i = j

\* Then no leaf is twice in a child, nor in two of the children.
LEMMA DistinctKids ==
    ASSUME NEW c \in Composites, Distinct(c)
    PROVE  /\ \A i \in DOMAIN Kids[c] : Distinct(Kids[c][i])
           /\ \A leaf : \A i, j \in DOMAIN Kids[c] :
                Inside(leaf, Kids[c][i]) /\ Inside(leaf, Kids[c][j]) => i = j
<1> DEFINE seqs == [i \in DOMAIN Kids[c] |-> LeafOrder[Kids[c][i]]]
           counts == [i \in DOMAIN Kids[c] |-> Len(LeafOrder[Kids[c][i]])]
           sum == Sums(counts)
           L == Len(Kids[c])
<1>1. c \in Systems /\ c \notin Leaves
  BY CompositeAssumption DEF Systems
<1>2. LeafOrder[c] = FlattenSeq(seqs)
  BY <1>1, OrderIs DEF OrderOf
<1>3. L \in Nat /\ DOMAIN Kids[c] = 1..L /\ \A i \in 1..L : Kids[c][i] \in Systems
  BY KidsOf
<1>4. /\ seqs \in Seq(Seq(Leaves)) /\ Len(seqs) = L
      /\ \A i \in 1..L : seqs[i] = LeafOrder[Kids[c][i]] /\ seqs[i] \in Seq(Leaves)
  BY <1>3, OrderIsSeq
<1>5. /\ counts \in Seq(Nat) /\ Len(counts) = L
      /\ \A i \in 1..L : counts[i] = Len(seqs[i])
  <2>1. \A i \in 1..L : Len(LeafOrder[Kids[c][i]]) \in Nat
    BY <1>4
  <2> HIDE DEF seqs
  <2> QED BY <1>3, <1>4, <2>1
<1> HIDE DEF seqs, counts, L
<1>6. /\ Len(FlattenSeq(seqs)) = sum[L] /\ FlattenSeq(seqs) \in Seq(Leaves)
      /\ \A i \in 1..L : \A k \in 1..Len(seqs[i]) :
           FlattenSeq(seqs)[sum[i - 1] + k] = seqs[i][k]
  <2>1. /\ Len(FlattenSeq(seqs)) = Sums(counts)[Len(seqs)]
        /\ \A i \in 1..Len(seqs) : \A k \in 1..Len(seqs[i]) :
             FlattenSeq(seqs)[Sums(counts)[i - 1] + k] = seqs[i][k]
    <3>1. Len(counts) = Len(seqs) /\ \A i \in 1..Len(seqs) : counts[i] = Len(seqs[i])
      BY <1>4, <1>5
    <3> QED BY <1>4, <1>5, <3>1, FlattenPlaces
  <2>2. FlattenSeq(seqs) \in Seq(Leaves)
    BY <1>4, FlattenIsSeq
  <2> QED BY <1>4, <2>1, <2>2
<1>7. /\ \A i \in 1..L : sum[i] = sum[i - 1] + counts[i]
      /\ \A i \in 0..L : sum[i] \in Nat
      /\ \A i, j \in 0..L : i <= j => sum[i] <= sum[j]
  BY <1>3, <1>5, SumsStep, SumsGrow
<1> HIDE DEF sum
<1> DEFINE place(i, k) == sum[i - 1] + k
<1>8. ASSUME NEW i \in 1..L, NEW k \in 1..Len(seqs[i])
      PROVE  /\ place(i, k) \in Nat /\ k \in Nat
             /\ sum[i - 1] < place(i, k) /\ place(i, k) <= sum[i] /\ sum[i] <= sum[L]
             /\ place(i, k) \in DOMAIN LeafOrder[c]
             /\ LeafOrder[c][place(i, k)] = LeafOrder[Kids[c][i]][k]
  <2>1. i \in 0..L /\ i - 1 \in 0..L /\ L \in 0..L
    BY <1>3
  <2>2. /\ sum[i] \in Nat /\ sum[i - 1] \in Nat /\ sum[i] <= sum[L] /\ sum[L] \in Nat
        /\ sum[i] = sum[i - 1] + counts[i] /\ i <= L
    BY <1>3, <1>7, <2>1
  <2>3. counts[i] = Len(seqs[i]) /\ Len(seqs[i]) \in Nat /\ k \in Nat /\ 1 <= k /\ k <= counts[i]
    BY <1>4, <1>5
  <2>4. place(i, k) \in Nat /\ sum[i - 1] < place(i, k) /\ place(i, k) <= sum[i]
    BY <2>2, <2>3
  <2>5. place(i, k) \in 1..sum[L]
    BY <2>2, <2>4
  <2>6. DOMAIN FlattenSeq(seqs) = 1..sum[L]
    BY <1>6
  <2> QED BY <1>2, <1>4, <1>6, <2>2, <2>3, <2>4, <2>5, <2>6
<1>9. \A i, j \in 1..L : \A k \in 1..Len(seqs[i]), l \in 1..Len(seqs[j]) :
        LeafOrder[Kids[c][i]][k] = LeafOrder[Kids[c][j]][l] => i = j /\ k = l
  <2> SUFFICES ASSUME NEW i \in 1..L, NEW j \in 1..L,
                      NEW k \in 1..Len(seqs[i]), NEW l \in 1..Len(seqs[j]),
                      LeafOrder[Kids[c][i]][k] = LeafOrder[Kids[c][j]][l]
               PROVE  i = j /\ k = l
    OBVIOUS
  <2>1. place(i, k) = place(j, l)
    <3>1. /\ place(i, k) \in DOMAIN LeafOrder[c]
          /\ LeafOrder[c][place(i, k)] = LeafOrder[Kids[c][i]][k]
      BY <1>8
    <3>2. /\ place(j, l) \in DOMAIN LeafOrder[c]
          /\ LeafOrder[c][place(j, l)] = LeafOrder[Kids[c][j]][l]
      BY <1>8
    <3> HIDE DEF place
    <3>3. \A p, q \in DOMAIN LeafOrder[c] : LeafOrder[c][p] = LeafOrder[c][q] => p = q
      BY DEF Distinct
    <3> QED BY <3>1, <3>2, <3>3
  <2>2. /\ sum[i - 1] < place(i, k) /\ place(i, k) <= sum[i] /\ place(i, k) \in Nat
        /\ sum[j - 1] < place(j, l) /\ place(j, l) <= sum[j] /\ k \in Nat /\ l \in Nat
    BY <1>8
  <2>3. /\ i \in 0..L /\ i - 1 \in 0..L /\ j \in 0..L /\ j - 1 \in 0..L
        /\ sum[i] \in Nat /\ sum[i - 1] \in Nat /\ sum[j] \in Nat /\ sum[j - 1] \in Nat
    BY <1>3, <1>7
  <2>4. ~(i < j)
    <3> SUFFICES ASSUME i < j PROVE FALSE
      OBVIOUS
    <3>1. sum[i] <= sum[j - 1]
      BY <1>3, <1>7, <2>3
    <3> HIDE DEF place
    <3> QED BY <2>1, <2>2, <2>3, <3>1
  <2>5. ~(j < i)
    <3> SUFFICES ASSUME j < i PROVE FALSE
      OBVIOUS
    <3>1. sum[j] <= sum[i - 1]
      BY <1>3, <1>7, <2>3
    <3> HIDE DEF place
    <3> QED BY <2>1, <2>2, <2>3, <3>1
  <2>6. i = j
    BY <1>3, <2>4, <2>5
  <2> QED BY <2>1, <2>2, <2>3, <2>6
<1>10. \A i \in 1..L : DOMAIN LeafOrder[Kids[c][i]] = 1..Len(seqs[i])
  BY <1>4
<1>11. ASSUME NEW i \in DOMAIN Kids[c] PROVE Distinct(Kids[c][i])
  <2>1. i \in 1..L /\ DOMAIN LeafOrder[Kids[c][i]] = 1..Len(seqs[i])
    BY <1>3, <1>10
  <2>2. \A k, l \in 1..Len(seqs[i]) :
          LeafOrder[Kids[c][i]][k] = LeafOrder[Kids[c][i]][l] => k = l
    BY <1>9, <2>1
  <2> QED BY <2>1, <2>2 DEF Distinct
<1>12. ASSUME NEW leaf, NEW i \in DOMAIN Kids[c], NEW j \in DOMAIN Kids[c],
              Inside(leaf, Kids[c][i]), Inside(leaf, Kids[c][j])
       PROVE  i = j
  <2>1. /\ i \in 1..L /\ DOMAIN LeafOrder[Kids[c][i]] = 1..Len(seqs[i])
        /\ j \in 1..L /\ DOMAIN LeafOrder[Kids[c][j]] = 1..Len(seqs[j])
    BY <1>3, <1>10
  <2>2. PICK k \in 1..Len(seqs[i]) : LeafOrder[Kids[c][i]][k] = leaf
    BY <1>12, <2>1 DEF Inside
  <2>3. PICK l \in 1..Len(seqs[j]) : LeafOrder[Kids[c][j]][l] = leaf
    BY <1>12, <2>1 DEF Inside
  <2> QED BY <1>9, <2>1, <2>2, <2>3
<1> QED BY <1>11, <1>12

\* Where no leaf is twice, no two ids of a type reach one member.
LEMMA DispatchDiffers ==
    ASSUME NEW R \in Bits, NEW type \in Members
    PROVE  \A s \in Systems : Distinct(s) =>
             \A id, jd \in Ids :
               /\ id < Count[R][type][s] /\ jd < Count[R][type][s]
               /\ Dispatch[R][type][s][id] = Dispatch[R][type][s][jd]
               => id = jd
<1> DEFINE S == {s \in Systems : Distinct(s) =>
                   \A id, jd \in Ids :
                     /\ id < Count[R][type][s] /\ jd < Count[R][type][s]
                     /\ Dispatch[R][type][s][id] = Dispatch[R][type][s][jd]
                     => id = jd}
<1>1. Leaves \subseteq S
  <2> SUFFICES ASSUME NEW s \in Leaves, NEW id \in Ids, NEW jd \in Ids,
                      Dispatch[R][type][s][id] = Dispatch[R][type][s][jd]
               PROVE  id = jd
    BY DEF Systems
  <2>1. [system |-> s, id |-> id] = [system |-> s, id |-> jd]
    BY DispatchLeaf
  <2>2. [system |-> s, id |-> id].id = [system |-> s, id |-> jd].id
    BY <2>1
  <2> QED BY <2>2
<1>2. ASSUME NEW c \in Composites, \A i \in DOMAIN Kids[c] : Kids[c][i] \in S
      PROVE  c \in S
  <2>1. c \in Systems
    BY DEF Systems
  <2> SUFFICES ASSUME Distinct(c), NEW id \in Ids, NEW jd \in Ids,
                      id < Count[R][type][c], jd < Count[R][type][c],
                      Dispatch[R][type][c][id] = Dispatch[R][type][c][jd]
               PROVE  id = jd
    BY <2>1
  <2> DEFINE a == Route(KidCounts(R, type, c), id)
             b == Route(KidCounts(R, type, c), jd)
             sum == Sums(KidCounts(R, type, c))
  <2>2. /\ a.child # 0 /\ a.child \in DOMAIN Kids[c] /\ Kids[c][a.child] \in Systems
        /\ a.id \in Ids /\ a.id < Count[R][type][Kids[c][a.child]]
        /\ id = sum[a.child - 1] + a.id
    BY OfferedByChild
  <2>3. /\ b.child # 0 /\ b.child \in DOMAIN Kids[c] /\ Kids[c][b.child] \in Systems
        /\ b.id \in Ids /\ b.id < Count[R][type][Kids[c][b.child]]
        /\ jd = sum[b.child - 1] + b.id
    BY OfferedByChild
  <2>4. Dispatch[R][type][c][id] = Dispatch[R][type][Kids[c][a.child]][a.id]
    BY <2>2, DispatchKid
  <2>5. Dispatch[R][type][c][jd] = Dispatch[R][type][Kids[c][b.child]][b.id]
    BY <2>3, DispatchKid
  <2> HIDE DEF a, b, sum
  <2>6. /\ Inside(Dispatch[R][type][Kids[c][a.child]][a.id].system, Kids[c][a.child])
        /\ Inside(Dispatch[R][type][Kids[c][b.child]][b.id].system, Kids[c][b.child])
    BY <2>2, <2>3, ReachedIsInside
  <2>7. a.child = b.child
    BY <2>2, <2>3, <2>4, <2>5, <2>6, DistinctKids
  <2>8. Distinct(Kids[c][a.child])
    BY <2>2, DistinctKids
  <2>9. a.id = b.id
    BY <1>2, <2>2, <2>3, <2>4, <2>5, <2>7, <2>8
  <2> QED BY <2>2, <2>3, <2>7, <2>9
<1> HIDE DEF S
<1>3. Systems \subseteq S
  BY <1>1, <1>2, TreeInduction
<1> QED BY <1>3 DEF S

\* What Dispatch finds is a system and an id, and nothing else.
IsPlace(m) == m = [system |-> m.system, id |-> m.id]

LEMMA DispatchIsPlace ==
    ASSUME NEW R \in Bits, NEW type \in Members
    PROVE  \A s \in Systems : \A id \in Ids :
             id < Count[R][type][s] => IsPlace(Dispatch[R][type][s][id])
<1> DEFINE S == {s \in Systems : \A id \in Ids :
                   id < Count[R][type][s] => IsPlace(Dispatch[R][type][s][id])}
<1>1. Leaves \subseteq S
  <2> SUFFICES ASSUME NEW s \in Leaves, NEW id \in Ids
               PROVE  IsPlace(Dispatch[R][type][s][id])
    BY DEF Systems
  <2>1. Dispatch[R][type][s][id] = [system |-> s, id |-> id]
    BY DispatchLeaf
  <2>2. \A m : m = [system |-> s, id |-> id] => IsPlace(m)
    BY DEF IsPlace
  <2> QED BY <2>1, <2>2
<1>2. ASSUME NEW c \in Composites, \A i \in DOMAIN Kids[c] : Kids[c][i] \in S
      PROVE  c \in S
  <2>1. c \in Systems
    BY DEF Systems
  <2> SUFFICES ASSUME NEW id \in Ids, id < Count[R][type][c]
               PROVE  IsPlace(Dispatch[R][type][c][id])
    BY <2>1
  <2> DEFINE there == Route(KidCounts(R, type, c), id)
  <2>2. /\ there.child # 0 /\ there.child \in DOMAIN Kids[c]
        /\ there.id \in Ids /\ there.id < Count[R][type][Kids[c][there.child]]
    BY OfferedByChild
  <2>3. Dispatch[R][type][c][id] = Dispatch[R][type][Kids[c][there.child]][there.id]
    BY <2>2, DispatchKid
  <2> HIDE DEF there
  <2> QED BY <1>2, <2>2, <2>3
<1> HIDE DEF S
<1>3. Systems \subseteq S
  BY <1>1, <1>2, TreeInduction
<1> QED BY <1>3 DEF S

LEMMA NamesOfLeaves ==
    ASSUME NEW R, NEW leaves, AllDiffer(NamesOf(R, leaves))
    PROVE  \A i, j \in DOMAIN leaves :
           \A k \in 1..LeafCount(R, leaves[i], "alias") :
           \A l \in 1..LeafCount(R, leaves[j], "alias") :
             /\ Names[leaves[i]][k] # NoName
             /\ Names[leaves[i]][k] = Names[leaves[j]][l] => i = j /\ k = l
<1> SUFFICES ASSUME NEW i \in DOMAIN leaves, NEW j \in DOMAIN leaves,
                    NEW k \in 1..LeafCount(R, leaves[i], "alias"),
                    NEW l \in 1..LeafCount(R, leaves[j], "alias")
             PROVE  /\ Names[leaves[i]][k] # NoName
                    /\ Names[leaves[i]][k] = Names[leaves[j]][l] => i = j /\ k = l
  OBVIOUS
<1> DEFINE names == NamesOf(R, leaves)
<1>1. AllDiffer(names)
  OBVIOUS
<1>2. /\ DOMAIN names = DOMAIN leaves
      /\ \A n \in {i, j} :
           names[n] = [m \in 1..LeafCount(R, leaves[n], "alias") |-> Names[leaves[n]][m]]
  BY DEF NamesOf
<1> HIDE DEF names
<1>3. /\ k \in DOMAIN names[i] /\ names[i][k] = Names[leaves[i]][k]
      /\ l \in DOMAIN names[j] /\ names[j][l] = Names[leaves[j]][l]
  BY <1>2
<1>4. /\ names[i][k] # NoName
      /\ names[i][k] = names[j][l] => i = j /\ k = l
  <2>1. \A m \in DOMAIN names[i], o \in DOMAIN names[j] :
          /\ names[i][m] # NoName
          /\ names[i][m] = names[j][o] => i = j /\ m = o
    <3>1. i \in DOMAIN names /\ j \in DOMAIN names
      BY <1>2
    <3> QED BY <1>1, <3>1, Zenon DEF AllDiffer
  <2> QED BY <1>3, <2>1
<1> QED BY <1>3, <1>4

\* The names that a registered system offers differ, and none is empty.
LEMMA NamesTell ==
    ASSUME NamesDiffer, NEW R \in Bits, NEW entry \in DOMAIN Entries
    PROVE  LET s == Entries[entry].system
           IN  /\ s \in Tops /\ s \in Systems /\ Count[R]["alias"][s] \in Ids
               /\ \A id, jd \in 0..(Count[R]["alias"][s] - 1) :
                    /\ AliasNames[R][s][id] # NoName
                    /\ AliasNames[R][s][id] = AliasNames[R][s][jd] => id = jd
<1> DEFINE s == Entries[entry].system
           n == Count[R]["alias"][s]
           leaves == LeafOrder[s]
<1>1. s \in Tops /\ s \in Systems
  BY EntriesAre
<1>2. "alias" \in Members /\ n \in Ids
  <2>1. "alias" \in Members
    BY DEF Members
  <2> QED BY <1>1, <2>1, CountIsByte
<1>3. ASSUME NEW i \in DOMAIN leaves, NEW j \in DOMAIN leaves,
             NEW k \in 1..LeafCount(R, leaves[i], "alias"),
             NEW l \in 1..LeafCount(R, leaves[j], "alias")
      PROVE  /\ Names[leaves[i]][k] # NoName
             /\ Names[leaves[i]][k] = Names[leaves[j]][l] => i = j /\ k = l
  <2>1. AllDiffer(NamesOf(R, leaves))
    BY DEF leaves, s, NamesDiffer
  <2> QED BY <2>1, NamesOfLeaves
<1>4. AliasNames[R][s] =
        [id \in 0..(n - 1) |->
           LET at == Dispatch[R]["alias"][s][id] IN Names[at.system][at.id + 1]]
  BY <1>1 DEF AliasNames
<1> HIDE DEF s, n, leaves
<1>5. Distinct(s)
  <2> SUFFICES ASSUME NEW i \in DOMAIN leaves, NEW j \in DOMAIN leaves, leaves[i] = leaves[j]
               PROVE  i = j
    BY DEF Distinct, leaves
  <2>1. 1 \in 1..LeafCount(R, leaves[i], "alias")
    BY DEF LeafCount, digital_sys_count, analog_sys_count
  <2> QED BY <1>3, <2>1
<1>6. ASSUME NEW id \in 0..(n - 1)
      PROVE  LET at == Dispatch[R]["alias"][s][id]
             IN  /\ id \in Ids /\ id < n
                 /\ at.id + 1 \in 1..LeafCount(R, at.system, "alias") /\ at.id \in Nat
                 /\ \E i \in DOMAIN leaves : leaves[i] = at.system
                 /\ AliasNames[R][s][id] = Names[at.system][at.id + 1]
                 /\ IsPlace(at)
  <2>1. id \in Ids /\ id < n
    BY <1>2, Below
  <2> DEFINE at == Dispatch[R]["alias"][s][id]
  <2>2. Member(R, "alias", at)
    BY <1>1, <1>2, <2>1, OfferedIsReached DEF n
  <2>3. Inside(at.system, s)
    BY <1>1, <1>2, <2>1, ReachedIsInside DEF n
  <2>4. AliasNames[R][s][id] = Names[at.system][at.id + 1]
    BY <1>4
  <2>5. IsPlace(at)
    BY <1>1, <1>2, <2>1, DispatchIsPlace DEF n
  <2> HIDE DEF at
  <2>6. /\ at.system \in Leaves /\ at.id \in Nat /\ at.id < LeafCount(R, at.system, "alias")
        /\ LeafCount(R, at.system, "alias") \in 0..5
    BY <1>2, <2>2, LeafCounts DEF Member
  <2>7. at.id + 1 \in 1..LeafCount(R, at.system, "alias")
    BY <2>6
  <2> QED BY <2>1, <2>3, <2>4, <2>5, <2>6, <2>7 DEF Inside, leaves, at
<1>7. ASSUME NEW id \in 0..(n - 1) PROVE AliasNames[R][s][id] # NoName
  <2> DEFINE at == Dispatch[R]["alias"][s][id]
  <2>1. /\ at.id + 1 \in 1..LeafCount(R, at.system, "alias")
        /\ \E i \in DOMAIN leaves : leaves[i] = at.system
        /\ AliasNames[R][s][id] = Names[at.system][at.id + 1]
    BY <1>6
  <2> HIDE DEF at
  <2>2. PICK i \in DOMAIN leaves : leaves[i] = at.system
    BY <2>1
  <2>3. at.id + 1 \in 1..LeafCount(R, leaves[i], "alias")
    BY <2>1, <2>2
  <2> DEFINE k == at.id + 1
  <2>4. k \in 1..LeafCount(R, leaves[i], "alias")
    BY <2>3
  <2> HIDE DEF k
  <2>5. Names[leaves[i]][k] # NoName
    BY <1>3, <2>4
  <2> QED BY <2>1, <2>2, <2>5 DEF k
<1>8. ASSUME NEW id \in 0..(n - 1), NEW jd \in 0..(n - 1),
             AliasNames[R][s][id] = AliasNames[R][s][jd]
      PROVE  id = jd
  <2> DEFINE a == Dispatch[R]["alias"][s][id]
             b == Dispatch[R]["alias"][s][jd]
  <2>1. /\ id \in Ids /\ id < n
        /\ a.id + 1 \in 1..LeafCount(R, a.system, "alias") /\ a.id \in Nat
        /\ \E i \in DOMAIN leaves : leaves[i] = a.system
        /\ AliasNames[R][s][id] = Names[a.system][a.id + 1]
        /\ IsPlace(a)
    BY <1>6
  <2>2. /\ jd \in Ids /\ jd < n
        /\ b.id + 1 \in 1..LeafCount(R, b.system, "alias") /\ b.id \in Nat
        /\ \E j \in DOMAIN leaves : leaves[j] = b.system
        /\ AliasNames[R][s][jd] = Names[b.system][b.id + 1]
        /\ IsPlace(b)
    BY <1>6
  <2>3. a = b => id = jd
    BY <1>1, <1>2, <1>5, <2>1, <2>2, DispatchDiffers DEF n
  <2> HIDE DEF a, b
  <2>4. PICK i \in DOMAIN leaves : leaves[i] = a.system
    BY <2>1
  <2>5. PICK j \in DOMAIN leaves : leaves[j] = b.system
    BY <2>2
  <2>6. i = j /\ a.id + 1 = b.id + 1
    <3>1. /\ a.id + 1 \in 1..LeafCount(R, leaves[i], "alias")
          /\ b.id + 1 \in 1..LeafCount(R, leaves[j], "alias")
      BY <2>1, <2>2, <2>4, <2>5
    <3>2. Names[leaves[i]][a.id + 1] = Names[leaves[j]][b.id + 1]
      BY <1>8, <2>1, <2>2, <2>4, <2>5
    <3> DEFINE k == a.id + 1
               l == b.id + 1
    <3> HIDE DEF k, l
    <3>3. /\ k \in 1..LeafCount(R, leaves[i], "alias")
          /\ l \in 1..LeafCount(R, leaves[j], "alias")
          /\ Names[leaves[i]][k] = Names[leaves[j]][l]
      BY <3>1, <3>2 DEF k, l
    <3>4. i = j /\ k = l
      BY <1>3, <3>3
    <3> QED BY <3>4 DEF k, l
  <2>7. a.id = b.id
    BY <2>1, <2>2, <2>6
  <2>8. a = b
    BY <2>1, <2>2, <2>4, <2>5, <2>6, <2>7 DEF IsPlace
  <2> QED BY <2>3, <2>8
<1> QED BY <1>1, <1>2, <1>7, <1>8 DEF s, n

LEMMA HelpHolds ==
    ASSUME NamesDiffer, dev.read_only \in Bits
    PROVE  HelpIsTrue
<1> SUFFICES ASSUME NEW entry \in DOMAIN Entries,
                    NEW id \in 0..(AliasCount(Entries[entry].system) - 1)
             PROVE  LET s == Entries[entry].system
                        info == mc_composite_get_alias[dev.read_only][s][id]
                        named == [text |-> AliasName(s, id), letter |-> "",
                                  number |-> {}, junk |-> FALSE]
                        member == [text |-> "", letter |-> info.type,
                                   number |-> {info.id}, junk |-> FALSE]
                    IN  /\ FindCommand(s, named) = {info}
                        /\ FindCommand(s, member) = {[info EXCEPT !.preset = {}]}
  BY DEF HelpIsTrue
<1> DEFINE s == Entries[entry].system
           R == dev.read_only
           n == Count[R]["alias"][s]
           name == AliasNames[R][s]
           alias == mc_composite_get_alias[R][s]
           info == alias[id]
           named == [text |-> AliasName(s, id), letter |-> "", number |-> {}, junk |-> FALSE]
           member == [text |-> "", letter |-> info.type, number |-> {info.id}, junk |-> FALSE]
<1>1. /\ s \in Tops /\ s \in Systems /\ n \in Ids /\ n \in Nat
      /\ \A i, j \in 0..(n - 1) : name[i] # NoName /\ (name[i] = name[j] => i = j)
  BY NamesTell, IdIsNat
<1>2. id \in 0..(n - 1) /\ id \in Ids /\ id < n
  BY <1>1, Below DEF AliasCount
<1>3. info \in Infos
  BY <1>1, <1>2, AliasTyped
<1>4. /\ AliasCount(s) = n /\ \A i : AliasName(s, i) = name[i]
      /\ \A text : find_command_by_alias(s, text) =
           {alias[i] : i \in {i \in 0..(n - 1) :
              name[i] = text /\ \A j \in 0..(i - 1) : name[j] # text}}
  BY DEF AliasCount, AliasName, find_command_by_alias
<1>5. named.text = name[id] /\ member.text = NoName /\ member.letter = info.type
      /\ member.number = {info.id}
  BY <1>4 DEF NoName
<1>6. FindCommand(s, named) =
        IF find_command_by_alias(s, named.text) # {} THEN find_command_by_alias(s, named.text)
        ELSE parse_member_token(named)
  BY DEF FindCommand
<1>7. FindCommand(s, member) =
        IF find_command_by_alias(s, member.text) # {} THEN find_command_by_alias(s, member.text)
        ELSE parse_member_token(member)
  BY DEF FindCommand
<1>8. parse_member_token(member) =
        {[type |-> member.letter, id |-> i % Byte, preset |-> {}] :
           i \in IF member.letter \in Types THEN member.number ELSE {}}
  BY DEF parse_member_token
<1> HIDE DEF s, R, n, name, alias, named, member
<1>9. FindCommand(s, named) = {info}
  <2>1. {i \in 0..(n - 1) : name[i] = name[id] /\ \A j \in 0..(i - 1) : name[j] # name[id]} = {id}
    <3>1. ASSUME NEW i \in 0..(n - 1), name[i] = name[id] PROVE i = id
      BY <1>1, <1>2, <3>1
    <3>2. ASSUME NEW j \in 0..(id - 1) PROVE name[j] # name[id]
      <4>1. j \in 0..(n - 1) /\ j # id
        <5>1. n \in Nat
          BY <1>1
        <5> QED BY <1>2, <5>1
      <4> QED BY <1>1, <1>2, <4>1
    <3> QED BY <1>2, <3>1, <3>2
  <2> DEFINE T == {i \in 0..(n - 1) : name[i] = name[id] /\ \A j \in 0..(i - 1) : name[j] # name[id]}
  <2>2. find_command_by_alias(s, named.text) = {alias[i] : i \in T}
    BY <1>4, <1>5
  <2> HIDE DEF T, info
  <2>3. {alias[i] : i \in T} = {alias[id]}
    BY <2>1 DEF T
  <2>4. {alias[id]} # {}
    OBVIOUS
  <2> QED BY <1>6, <2>2, <2>3, <2>4 DEF info
<1>10. FindCommand(s, member) = {[info EXCEPT !.preset = {}]}
  <2>1. {i \in 0..(n - 1) : name[i] = NoName /\ \A j \in 0..(i - 1) : name[j] # NoName} = {}
    BY <1>1
  <2> DEFINE T == {i \in 0..(n - 1) : name[i] = NoName /\ \A j \in 0..(i - 1) : name[j] # NoName}
  <2>2. find_command_by_alias(s, member.text) = {alias[i] : i \in T}
    BY <1>4, <1>5
  <2> HIDE DEF T
  <2>8. find_command_by_alias(s, member.text) = {}
    BY <2>1, <2>2 DEF T
  <2> HIDE DEF info
  <2>3. info.type \in Types /\ info.id \in Nat /\ info.id < Byte
    BY <1>3, IdIsNat DEF Infos, Ids, Byte
  <2>4. info.id % Byte = info.id
    BY <2>3, Bytes
  <2>5. parse_member_token(member) = {[type |-> info.type, id |-> info.id, preset |-> {}]}
    BY <1>5, <1>8, <2>3, <2>4
  <2>6. [info EXCEPT !.preset = {}] = [type |-> info.type, id |-> info.id, preset |-> {}]
    BY <1>3 DEF Infos
  <2> QED BY <1>7, <2>8, <2>5, <2>6
<1> QED BY <1>9, <1>10 DEF s, R, alias, named, member

\* A name in the help and the member beside it are one command, at every level
\* of any tree and whatever is read-only, where names differ
\* (console.c:129-147, 236-268; composite.c:178-240).
THEOREM ConsoleHelps == NamesDiffer => (ConsoleSpec => []HelpIsTrue)
<1> SUFFICES ASSUME NamesDiffer PROVE ConsoleSpec => []HelpIsTrue
  OBVIOUS
<1>1. ConsoleInv => HelpIsTrue
  <2> SUFFICES ASSUME ConsoleInv PROVE HelpIsTrue
    OBVIOUS
  <2>1. dev.read_only \in Bits
    BY DEF ConsoleInv, SystemInv, States, DeviceStates, Bits
  <2> QED BY <2>1, HelpHolds
<1> QED BY <1>1, ConsoleSafe, PTL
=============================================================================
