-------------------------- MODULE SequentialProofs --------------------------
(***************************************************************************)
(* Proofs about the sequential algorithms, for inputs of any size: the     *)
(* circular buffer of IntSeries holds the latest samples in order, the     *)
(* loops of SafTransfer move every byte to its place, SafPaths lets only   *)
(* confined names through, and PiecesTracker reports what can be played.   *)
(***************************************************************************)
EXTENDS IntSeries, SafTransfer, SafPaths, PiecesTracker, FiniteSetTheorems, TLAPS

USE SeriesAssumption

----------------------------------------------------------------------------
(* IntSeries. *)

Slots == 0..(Capacity - 1)

\* The sample in slot j was added (end - j) samples ago, or a turn earlier when
\* the slot is ahead of the end.
Filled == \A j \in Slots :
    IF j <= end THEN buffer[j] = added[Len(added) - end + j]
                ELSE Len(added) > Capacity => buffer[j] = added[Len(added) - Capacity - end + j]

\* Until the buffer is full it is filled from the first slot on; from then on
\* the oldest sample is in the slot after the latest one.
Turns ==
    IF Len(added) <= Capacity
    THEN head = 0 /\ end = Len(added) - 1 /\ size = Len(added)
    ELSE /\ end \in Slots /\ size = Capacity
         /\ head = IF end = Capacity - 1 THEN 0 ELSE end + 1

SeriesInv ==
    /\ buffer \in [Slots -> Int]
    /\ added \in Seq(Int)
    /\ IF added = <<>> THEN head = -1 /\ size = 0
       ELSE Turns /\ Filled

\* Slots are counted modulo the capacity, and never more than one turn too far.
LEMMA OneTurn ==
    ASSUME NEW c \in Nat \ {0}, NEW x \in 0..(2 * c - 1)
    PROVE  x % c = IF x < c THEN x ELSE x - c
<1>1. CASE x < c
  BY <1>1
<1>2. CASE x >= c
  BY <1>2
<1> QED BY <1>1, <1>2

LEMMA Wrap == \A x \in 0..(2 * Capacity - 1) :
                x % Capacity = IF x < Capacity THEN x ELSE x - Capacity
  BY OneTurn

\* The slot after slot x.
LEMMA Successor ==
    ASSUME NEW x \in Slots
    PROVE  (x + 1) % Capacity = IF x = Capacity - 1 THEN 0 ELSE x + 1
<1>1. x + 1 \in 0..(2 * Capacity - 1) /\ x \in Nat
  BY DEF Slots
<1>2. (x + 1) % Capacity = IF x + 1 < Capacity THEN x + 1 ELSE x + 1 - Capacity
  BY <1>1, Wrap
<1> QED BY <1>1, <1>2 DEF Slots

\* What the buffer holds in window order is what get() returns.
LEMMA WindowFollows == SeriesInv => SeriesIsWindow
<1> SUFFICES ASSUME SeriesInv PROVE SeriesIsWindow
  OBVIOUS
<1>1. Len(added) \in Nat
  BY DEF SeriesInv
<1>2. CASE added = <<>>
  BY <1>2 DEF SeriesInv, SeriesIsWindow
<1>3. CASE added # <<>> /\ Len(added) <= Capacity
  <2>1. head = 0 /\ end = Len(added) - 1 /\ size = Len(added) /\ size \in Nat \ {0} /\ Filled
    BY <1>1, <1>3 DEF SeriesInv, Turns
  <2>2. ASSUME NEW i \in 0..(size - 1) PROVE Get(i) = added[Len(added) - size + 1 + i]
    <3>1. (head + i) % size = i
      BY <2>1, <2>2, OneTurn
    <3>2. i \in Slots /\ i <= end
      BY <1>1, <1>3, <2>1, <2>2 DEF Slots
    <3>3. buffer[i] = added[Len(added) - end + i]
      BY <2>1, <3>2 DEF Filled
    <3>4. Len(added) - end + i = Len(added) - size + 1 + i
      BY <1>1, <2>1, <2>2
    <3> QED BY <3>1, <3>3, <3>4 DEF Get
  <2> QED BY <1>1, <1>3, <2>1, <2>2 DEF SeriesIsWindow
<1>4. CASE Len(added) > Capacity
  <2>1. added # <<>>
    BY <1>4
  <2>2. /\ end \in Slots /\ size = Capacity /\ Filled
        /\ head = IF end = Capacity - 1 THEN 0 ELSE end + 1
    BY <1>1, <1>4, <2>1 DEF SeriesInv, Turns
  <2>3. ASSUME NEW i \in 0..(size - 1) PROVE Get(i) = added[Len(added) - size + 1 + i]
    <3>1. PICK j \in Slots : j = (head + i) % size
      <4>1. head + i \in 0..(2 * Capacity - 1)
        BY <2>2, <2>3 DEF Slots
      <4> QED BY <2>2, <2>3, <4>1, OneTurn DEF Slots
    <3>2. j = IF head + i < Capacity THEN head + i ELSE head + i - Capacity
      <4>1. head + i \in 0..(2 * Capacity - 1)
        BY <2>2, <2>3 DEF Slots
      <4> QED BY <2>2, <3>1, <4>1, Wrap
    <3>3. CASE j <= end
      <4>1. Len(added) - end + j = Len(added) - size + 1 + i
        BY <1>1, <2>2, <2>3, <3>2, <3>3 DEF Slots
      <4> QED BY <2>2, <3>1, <3>3, <4>1 DEF Filled, Get
    <3>4. CASE j > end
      <4>1. Len(added) - Capacity - end + j = Len(added) - size + 1 + i
        BY <1>1, <2>2, <2>3, <3>2, <3>4 DEF Slots
      <4>2. buffer[j] = added[Len(added) - Capacity - end + j]
        BY <1>4, <2>2, <3>1, <3>4 DEF Filled, Slots
      <4> QED BY <3>1, <4>1, <4>2 DEF Get
    <3> QED BY <2>2, <3>1, <3>3, <3>4 DEF Slots
  <2> QED BY <1>1, <1>4, <2>2, <2>3 DEF SeriesIsWindow
<1> QED BY <1>1, <1>2, <1>3, <1>4

\* add(): the fields move on by one slot, and the oldest sample makes room.
LEMMA AddKeeps ==
    ASSUME SeriesInv, NEW v \in Values, Add(v)
    PROVE  SeriesInv'
<1>1. /\ added' = Append(added, v) /\ added' \in Seq(Int) /\ added' # <<>>
      /\ Len(added) \in Nat /\ Len(added') = Len(added) + 1
      /\ added'[Len(added) + 1] = v /\ \A k \in 1..Len(added) : added'[k] = added[k]
  BY DEF Add, SeriesInv
<1>2. CASE added = <<>>
  <2>1. AddFirst(v)
    BY <1>2 DEF SeriesInv, Add, AddFirst, AddMore
  <2>2. head' = 0 /\ end' = 0 /\ size' = 1 /\ buffer' = [buffer EXCEPT ![0] = v]
    BY <2>1 DEF AddFirst
  <2>3. Len(added') = 1 /\ added'[1] = v
    BY <1>1, <1>2
  <2>4. buffer' \in [Slots -> Int] /\ buffer'[0] = v
    BY <2>2 DEF SeriesInv, Slots
  <2>5. Turns'
    BY <2>2, <2>3 DEF Turns
  <2>6. Filled'
    BY <2>2, <2>3, <2>4 DEF Filled, Slots
  <2> QED BY <1>1, <2>4, <2>5, <2>6 DEF SeriesInv
<1>3. CASE added # <<>>
  <2>1. Turns /\ Filled /\ head \in Slots /\ end \in Slots /\ Len(added) > 0
    <3>1. Turns /\ Filled /\ Len(added) > 0
      BY <1>1, <1>3 DEF SeriesInv
    <3> QED BY <1>1, <3>1, SMTT(30) DEF Turns, Slots
  <2>2. AddMore(v)
    BY <2>1 DEF Add, AddFirst, AddMore, Slots
  <2>3. end' = IF end = Capacity - 1 THEN 0 ELSE end + 1
    BY <2>1, <2>2, Successor DEF AddMore, NextEnd
  <2>4. head' = IF end' <= head THEN IF head = Capacity - 1 THEN 0 ELSE head + 1 ELSE head
    BY <2>1, <2>2, Successor DEF AddMore, NextHead
  <2>5. /\ end' \in Slots /\ buffer' \in [Slots -> Int] /\ buffer'[end'] = v
        /\ \A j \in Slots : j # end' => buffer'[j] = buffer[j]
    <3>1. end' \in Slots
      BY <2>1, <2>3 DEF Slots
    <3> QED BY <2>2, <3>1 DEF AddMore, SeriesInv
  <2>6. size' = IF head' <= end' THEN 1 + (end' - head') ELSE Capacity
    BY <2>2 DEF AddMore
  <2>7. Turns'
    <3>1. CASE Len(added) < Capacity
      <4>1. head = 0 /\ end = Len(added) - 1
        BY <1>1, <2>1, <3>1 DEF Turns
      <4>2. end' = Len(added) /\ head' = 0 /\ size' = Len(added) + 1
        <5>1. end' = Len(added)
          BY <1>1, <2>3, <3>1, <4>1
        <5>2. head' = 0
          BY <1>1, <2>1, <2>4, <4>1, <5>1
        <5> QED BY <1>1, <2>6, <5>1, <5>2
      <4> QED BY <1>1, <3>1, <4>2 DEF Turns
    <3>2. CASE Len(added) = Capacity
      <4>1. head = 0 /\ end = Capacity - 1
        BY <1>1, <2>1, <3>2 DEF Turns
      <4>2. end' = 0 /\ head' = IF Capacity = 1 THEN 0 ELSE 1
        BY <2>3, <2>4, <4>1
      <4>3. size' = Capacity
        BY <2>6, <4>2
      <4> QED BY <1>1, <2>5, <3>2, <4>2, <4>3 DEF Turns
    <3>3. CASE Len(added) > Capacity
      <4>1. head = IF end = Capacity - 1 THEN 0 ELSE end + 1
        BY <1>1, <2>1, <3>3 DEF Turns
      <4>2. head' = IF end' = Capacity - 1 THEN 0 ELSE end' + 1
        BY <2>1, <2>3, <2>4, <4>1 DEF Slots
      <4>3. size' = Capacity
        <5>1. CASE end' = Capacity - 1
          BY <2>6, <4>2, <5>1
        <5>2. CASE end' # Capacity - 1
          <6>1. PICK e \in Int : e = end'
            BY <2>5 DEF Slots
          <6>2. PICK h \in Int : h = head' /\ h = e + 1
            <7>1. head' = end' + 1
              BY <4>2, <5>2
            <7>2. e + 1 \in Int
              BY <6>1
            <7> QED BY <6>1, <7>1, <7>2
          <6>3. ~(h <= e)
            BY <6>2
          <6> QED BY <2>6, <6>1, <6>2, <6>3
        <5> QED BY <5>1, <5>2
      <4> QED BY <1>1, <2>5, <3>3, <4>2, <4>3 DEF Turns
    <3> QED BY <1>1, <3>1, <3>2, <3>3
  <2>8. Filled'
    <3> SUFFICES ASSUME NEW j \in Slots
                 PROVE  IF j <= end' THEN buffer'[j] = added'[Len(added') - end' + j]
                        ELSE Len(added') > Capacity =>
                               buffer'[j] = added'[Len(added') - Capacity - end' + j]
      BY DEF Filled
    <3>1. CASE j = end'
      BY <1>1, <2>5, <3>1 DEF Slots
    <3>2. CASE j # end' /\ end' = end + 1
      <4>1. CASE j <= end
        <5>1. buffer'[j] = added[Len(added) - end + j]
          BY <2>1, <2>5, <3>2, <4>1 DEF Filled
        <5>2. Len(added) - end + j \in 1..Len(added)
          BY <1>1, <2>1, <4>1 DEF Turns, Slots
        <5>3. Len(added') - end' + j = Len(added) - end + j /\ j <= end'
          BY <1>1, <2>1, <3>2, <4>1 DEF Slots
        <5> QED BY <1>1, <5>1, <5>2, <5>3
      <4>2. CASE j > end
        <5>1. j > end'
          BY <2>1, <2>5, <3>2, <4>2 DEF Slots
        <5>2. SUFFICES ASSUME Len(added') > Capacity
                       PROVE  buffer'[j] = added'[Len(added') - Capacity - end' + j]
          BY <2>5, <5>1 DEF Slots
        <5>3. Len(added) > Capacity
          BY <1>1, <2>1, <2>3, <3>2, <5>2 DEF Turns, Slots
        <5>4. buffer'[j] = added[Len(added) - Capacity - end + j]
          <6>1. ~(j <= end)
            BY <2>1, <4>2 DEF Slots
          <6> QED BY <2>1, <2>5, <3>2, <5>3, <6>1 DEF Filled
        <5>5. Len(added) - Capacity - end + j \in 1..Len(added)
          BY <1>1, <2>1, <4>2, <5>3 DEF Slots
        <5>6. Len(added') - Capacity - end' + j = Len(added) - Capacity - end + j
          BY <1>1, <2>1, <3>2 DEF Slots
        <5> QED BY <1>1, <5>4, <5>5, <5>6
      <4> QED BY <2>1, <4>1, <4>2 DEF Slots
    <3>3. CASE j # end' /\ end' = 0 /\ end = Capacity - 1
      <4>1. j > end' /\ j <= end
        BY <3>3 DEF Slots
      <4>2. buffer'[j] = added[Len(added) - end + j]
        BY <2>1, <2>5, <3>3, <4>1 DEF Filled
      <4>3. Len(added) - end + j \in 1..Len(added)
        BY <1>1, <2>1, <3>3, <4>1 DEF Turns, Slots
      <4>4. Len(added') - Capacity - end' + j = Len(added) - end + j
        BY <1>1, <3>3 DEF Slots
      <4> QED BY <1>1, <2>5, <4>1, <4>2, <4>3, <4>4 DEF Slots
    <3> QED BY <2>3, <3>1, <3>2, <3>3
  <2> QED BY <1>1, <2>5, <2>7, <2>8 DEF SeriesInv
<1> QED BY <1>2, <1>3

\* However many samples were added, get() over 0 .. size() - 1 is the window of
\* the latest ones, oldest first, for every capacity.
THEOREM WindowIsKept == SeriesSpec => []SeriesIsWindow
<1>1. SeriesInit => SeriesInv
  BY DEF SeriesInit, SeriesInv, Slots
<1>2. SeriesInv /\ [SeriesNext]_seriesVars => SeriesInv'
  <2> SUFFICES ASSUME SeriesInv, [SeriesNext]_seriesVars PROVE SeriesInv'
    OBVIOUS
  <2>1. CASE SeriesNext
    BY <2>1, AddKeeps DEF SeriesNext
  <2>2. CASE UNCHANGED seriesVars
    BY <2>2 DEF seriesVars, SeriesInv, Turns, Filled
  <2> QED BY <2>1, <2>2
<1> QED BY <1>1, <1>2, WindowFollows, PTL DEF SeriesSpec

HIDE SeriesAssumption

----------------------------------------------------------------------------
(* PrefixSums. *)

\* Sets of numbers have a least member, which gives induction as a statement
\* about the set of numbers something holds for.
LEMMA LeastNumber ==
    ASSUME NEW T \in SUBSET Nat, T # {}
    PROVE  \E x \in T : \A y \in T : x <= y
<1> DEFINE R == OpToRel(<, Nat)
<1>1. IsWellFoundedOn(R, Nat)
  BY NatLessThanWellFounded
<1> HIDE DEF R
<1>2. PICK x \in T : \A y \in T : ~(<<y, x>> \in R)
  BY <1>1, WFMin
<1>3. \A y \in Nat : y < x => <<y, x>> \in R
  BY DEF R, OpToRel
<1>4. ASSUME NEW y \in T PROVE x <= y
  <2>1. x \in Nat /\ y \in Nat /\ ~(y < x)
    BY <1>2, <1>3
  <2> QED BY <2>1
<1> QED BY <1>4

LEMMA Induction ==
    ASSUME NEW S, 0 \in S, \A n \in Nat : n \in S => n + 1 \in S
    PROVE  \A n \in Nat : n \in S
<1> DEFINE T == {n \in Nat : n \notin S}
<1>1. SUFFICES ASSUME T # {} PROVE FALSE
  OBVIOUS
<1>2. PICK x \in T : \A y \in T : x <= y
  BY <1>1, LeastNumber
<1>3. x # 0 /\ x - 1 \in Nat
  OBVIOUS
<1>4. x - 1 \in T
  BY <1>3
<1> QED BY <1>2, <1>4

\* The recursive definition of Sums defines it.
LEMMA SumsDef ==
    ASSUME NEW v \in Seq(Nat)
    PROVE  /\ Sums(v) \in [0..Len(v) -> Nat] /\ Sums(v)[0] = 0
           /\ \A k \in 1..Len(v) : Sums(v)[k] = Sums(v)[k - 1] + v[k]
<1> DEFINE N == Len(v)
           Adds(f, k) == f[k] = IF k = 0 THEN 0 ELSE f[k - 1] + v[k]
           Defines(f, m) == f \in [0..N -> Nat] /\ \A k \in 0..m : Adds(f, k)
           S == {m \in Nat : m <= N => \E f : Defines(f, m)}
<1>0. N \in Nat /\ \A k \in 1..N : v[k] \in Nat
  OBVIOUS
<1> HIDE DEF N
<1>1. 0 \in S
  <2> DEFINE f == [k \in 0..N |-> 0]
  <2>1. Defines(f, 0)
    BY <1>0
  <2> HIDE DEF f, Defines
  <2> QED BY <2>1
<1>2. ASSUME NEW m \in Nat, m \in S PROVE m + 1 \in S
  <2> SUFFICES ASSUME m + 1 <= N PROVE \E f : Defines(f, m + 1)
    <3> HIDE DEF Defines
    <3> QED OBVIOUS
  <2>1. PICK f : Defines(f, m)
    <3> HIDE DEF Defines
    <3> QED BY <1>0, <1>2
  <2> DEFINE x == f[m] + v[m + 1]
             g == [f EXCEPT ![m + 1] = x]
  <2>2. m + 1 \in 1..N /\ f[m] \in Nat /\ x \in Nat
    BY <1>0, <2>1
  <2>3. g \in [0..N -> Nat] /\ g[m + 1] = x /\ \A k \in 0..m : g[k] = f[k]
    <3> HIDE DEF x
    <3> QED BY <1>0, <2>1, <2>2
  <2> HIDE DEF g
  <2>4. ASSUME NEW k \in 0..(m + 1) PROVE Adds(g, k)
    <3>1. CASE k = m + 1
      BY <2>3, <3>1
    <3>2. CASE k # m + 1
      <4>1. k \in 0..m /\ (k # 0 => k - 1 \in 0..m)
        BY <3>2
      <4>2. Adds(f, k)
        <5> HIDE DEF Adds
        <5> QED BY <2>1, <4>1
      <4> QED BY <2>3, <4>1, <4>2
    <3> QED BY <3>1, <3>2
  <2>5. Defines(g, m + 1)
    <3> HIDE DEF Adds
    <3> QED BY <2>3, <2>4
  <2> HIDE DEF Defines
  <2> QED BY <2>5
<1>3. \E f : Defines(f, N)
  <2>1. \A n \in Nat : n \in S
    <3> HIDE DEF S
    <3> QED BY <1>1, <1>2, Induction
  <2> HIDE DEF Defines
  <2> QED BY <1>0, <2>1
<1>4. PICK f : Defines(f, N)
  BY <1>3
<1> DEFINE D(g) == [k \in 0..N |-> IF k = 0 THEN 0 ELSE g[k - 1] + v[k]]
<1>5. f = D(f)
  BY <1>4
<1>6. Sums(v) = CHOOSE g : g = D(g)
  BY DEF Sums, N
<1> HIDE DEF D
<1>7. Sums(v) = D(Sums(v))
  BY <1>5, <1>6
<1> DEFINE F == Sums(v)
<1> HIDE DEF F
<1>8. F = [k \in 0..N |-> IF k = 0 THEN 0 ELSE F[k - 1] + v[k]]
  BY <1>7 DEF D, F
<1>9. F[0] = 0 /\ \A k \in 1..N : F[k] = F[k - 1] + v[k]
  BY <1>0, <1>8
<1>10. \A n \in Nat : n <= N => F[n] \in Nat
  <2> DEFINE Q == {n \in Nat : n <= N => F[n] \in Nat}
  <2>1. 0 \in Q
    BY <1>9
  <2>2. ASSUME NEW n \in Nat, n \in Q PROVE n + 1 \in Q
    <3>1. n + 1 <= N => n + 1 \in 1..N /\ n + 1 - 1 = n
      BY <1>0
    <3> QED BY <1>0, <1>9, <2>2, <3>1
  <2>3. \A n \in Nat : n \in Q
    <3> HIDE DEF Q
    <3> QED BY <2>1, <2>2, Induction
  <2> QED BY <2>3
<1>11. F \in [0..N -> Nat]
  <2>1. \A k \in 0..N : F[k] \in Nat
    BY <1>0, <1>10
  <2>2. F = [k \in 0..N |-> F[k]]
    BY <1>8
  <2> QED BY <2>1, <2>2
<1> QED BY <1>9, <1>11 DEF F, N

LEMMA SumsGrow ==
    ASSUME NEW v \in Seq(Nat), NEW i \in 0..Len(v), NEW j \in 0..Len(v), i <= j
    PROVE  Sums(v)[i] <= Sums(v)[j]
<1> DEFINE N == Len(v)
           F == Sums(v)
           Q == {n \in Nat : i + n <= N => F[i] <= F[i + n]}
<1>0. N \in Nat /\ i \in 0..N /\ j \in 0..N /\ \A k \in 1..N : v[k] \in Nat
  OBVIOUS
<1>1. F \in [0..N -> Nat] /\ \A k \in 1..N : F[k] = F[k - 1] + v[k]
  BY SumsDef
<1> HIDE DEF N, F
<1>2. 0 \in Q
  BY <1>0, <1>1
<1>3. ASSUME NEW n \in Nat, n \in Q PROVE n + 1 \in Q
  <2> SUFFICES ASSUME i + (n + 1) <= N PROVE F[i] <= F[i + (n + 1)]
    OBVIOUS
  <2>1. i + (n + 1) \in 1..N /\ i + (n + 1) - 1 = i + n /\ i + n \in 0..N /\ i + n <= N
    BY <1>0
  <2>2. F[i + (n + 1)] = F[i + n] + v[i + (n + 1)]
    BY <1>1, <2>1
  <2>3. F[i] <= F[i + n]
    BY <1>3, <2>1
  <2>4. v[i + (n + 1)] \in Nat /\ F[i] \in Nat /\ F[i + n] \in Nat
    BY <1>0, <1>1, <2>1
  <2> QED BY <2>2, <2>3, <2>4
<1>4. \A n \in Nat : n \in Q
  <2> HIDE DEF Q
  <2> QED BY <1>2, <1>3, Induction
<1>5. j - i \in Nat /\ i + (j - i) = j
  BY <1>0
<1>6. j - i \in Q
  <2> HIDE DEF Q
  <2> QED BY <1>4, <1>5
<1>7. i + (j - i) <= N => F[i] <= F[i + (j - i)]
  BY <1>6
<1>8. F[i] <= F[j]
  BY <1>0, <1>5, <1>7
<1> QED BY <1>8 DEF F

----------------------------------------------------------------------------
(* SafTransfer. *)

LEMMA SliceSize ==
    /\ MaxSize \in Nat
    /\ \A x \in Slice : x.size \in Nat /\ x.size <= MaxSize
<1>1. MaxSize \in Nat
  BY TransferAssumption
<1>2. \A x \in Slice : x.size \in 0..MaxSize
  BY DEF Slice
<1> QED BY <1>1, <1>2

\* Where slice k of the block s starts.
StartIn(s, k) == Sums([i \in DOMAIN s |-> s[i].size])[k - 1]

LEMMA Starts ==
    ASSUME NEW s \in Seq(Slice)
    PROVE  /\ StartIn(s, 1) = 0 /\ \A k \in 1..(Len(s) + 1) : StartIn(s, k) \in Nat
           /\ \A k \in 1..Len(s) : StartIn(s, k + 1) = StartIn(s, k) + s[k].size
           /\ \A j, k \in 1..(Len(s) + 1) : j <= k => StartIn(s, j) <= StartIn(s, k)
<1> DEFINE v == [i \in DOMAIN s |-> s[i].size]
<1>1. v \in Seq(Nat) /\ Len(v) = Len(s) /\ \A k \in 1..Len(s) : v[k] = s[k].size
  <2>1. \A k \in 1..Len(s) : s[k] \in Slice /\ s[k].size \in Nat
    BY SliceSize
  <2>2. v = [i \in 1..Len(s) |-> s[i].size] /\ Len(s) \in Nat
    OBVIOUS
  <2> HIDE DEF v
  <2> QED BY <2>1, <2>2
<1>2. \A k : StartIn(s, k) = Sums(v)[k - 1]
  BY DEF StartIn
<1> HIDE DEF v
<1>3. Len(s) \in Nat
  OBVIOUS
<1>4. /\ Sums(v) \in [0..Len(s) -> Nat] /\ Sums(v)[0] = 0
      /\ \A k \in 1..Len(s) : Sums(v)[k] = Sums(v)[k - 1] + v[k]
  BY <1>1, SumsDef
<1>5. StartIn(s, 1) = 0 /\ \A k \in 1..(Len(s) + 1) : StartIn(s, k) \in Nat
  BY <1>2, <1>3, <1>4
<1>6. ASSUME NEW k \in 1..Len(s) PROVE StartIn(s, k + 1) = StartIn(s, k) + s[k].size
  <2>1. (k + 1) - 1 = k
    OBVIOUS
  <2> QED BY <1>1, <1>2, <1>4, <2>1
<1>7. ASSUME NEW j \in 1..(Len(s) + 1), NEW k \in 1..(Len(s) + 1), j <= k
      PROVE  StartIn(s, j) <= StartIn(s, k)
  <2>1. j - 1 \in 0..Len(v) /\ k - 1 \in 0..Len(v) /\ j - 1 <= k - 1
    BY <1>1, <1>3, <1>7
  <2> QED BY <1>1, <1>2, <2>1, SumsGrow
<1> QED BY <1>5, <1>6, <1>7

\* Byte i of slice k is moved.
IsMoved(k, i) ==
    ~slices[k].pad /\ i < slices[k].size /\ StartIn(slices, k) + i < offset

\* The invariant: offset is where the loops are, and what is below it has moved.
TransferInv ==
    /\ slices \in Seq(Slice) /\ at \in 1..(Len(slices) + 1)
    /\ offset \in Nat /\ remaining \in Nat
    /\ phase \in {"idle", "open", "move", "close", "done"}
    /\ \A y : y \in moved <=>
         \E k \in 1..Len(slices), i \in 0..MaxSize :
             IsMoved(k, i) /\ y = <<StartIn(slices, k) + i, k, i>>
    /\ phase = "idle" => at = 1 /\ offset = 0 /\ own = 0 /\ result = "ok" /\ moved = {}
    /\ phase = "open" => offset = StartIn(slices, at) /\ (at <= Len(slices) => own = 0)
    /\ phase = "move" =>
         /\ at <= Len(slices) /\ ~slices[at].pad /\ remaining <= slices[at].size
         /\ offset = StartIn(slices, at) + slices[at].size - remaining
    /\ phase \in {"open", "move"} => result = "ok"
    /\ phase \in {"close", "done"} /\ result = "ok" => offset = StartIn(slices, Len(slices) + 1)
    /\ kind # "entropy" => own = 0
    /\ kind = "entropy" /\ phase # "idle" => Len(slices) = 1
    /\ phase = "done" => own = 0 /\ (kind = "entropy" /\ result # "ok" => errno = result)

\* Bytes of the slices before the one in progress are below every offset in it,
\* bytes of those behind it are not.
LEMMA OtherSlices ==
    ASSUME NEW s \in Seq(Slice), NEW a \in 1..Len(s), NEW o \in Nat,
           StartIn(s, a) <= o, o <= StartIn(s, a) + s[a].size,
           NEW k \in 1..Len(s), k # a, NEW i \in Nat, i < s[k].size
    PROVE  StartIn(s, k) + i < o <=> k < a
<1>0. Len(s) \in Nat /\ s[k].size \in Nat /\ s[a].size \in Nat
  <2>1. s[k] \in Slice /\ s[a] \in Slice
    OBVIOUS
  <2> QED BY <2>1, SliceSize
<1>1. /\ k \in 1..(Len(s) + 1) /\ a \in 1..(Len(s) + 1)
      /\ k + 1 \in 1..(Len(s) + 1) /\ a + 1 \in 1..(Len(s) + 1)
  BY <1>0
<1>2. /\ StartIn(s, k) \in Nat /\ StartIn(s, a) \in Nat
      /\ StartIn(s, k + 1) = StartIn(s, k) + s[k].size
      /\ StartIn(s, a + 1) = StartIn(s, a) + s[a].size
  BY <1>1, Starts
<1>3. CASE k < a
  <2>1. StartIn(s, k + 1) <= StartIn(s, a)
    BY <1>1, <1>3, Starts, SMTT(30)
  <2> QED BY <1>0, <1>2, <1>3, <2>1, SMTT(30)
<1>4. CASE k > a
  <2>0. a + 1 <= k
    BY <1>4
  <2>1. StartIn(s, a + 1) <= StartIn(s, k)
    BY <1>1, <2>0, Starts
  <2> QED BY <1>0, <1>2, <1>4, <2>1
<1> QED BY <1>3, <1>4

LEMMA TransferInitInv == TransferInit => TransferInv
<1> SUFFICES ASSUME TransferInit PROVE TransferInv
  OBVIOUS
<1>1. slices = <<>> /\ Len(slices) = 0 /\ slices \in Seq(Slice)
  BY DEF TransferInit
<1> QED BY <1>1 DEF TransferInit, TransferInv

\* What holds for the block and the bytes that were moved, when a step leaves
\* them alone.
LEMMA TransferFrame ==
    ASSUME TransferInv, UNCHANGED <<slices, offset, moved>>
    PROVE  /\ slices' \in Seq(Slice) /\ offset' \in Nat
           /\ \A y : y \in moved' <=>
                \E k \in 1..Len(slices'), i \in 0..MaxSize :
                    IsMoved(k, i)' /\ y = <<StartIn(slices', k) + i, k, i>>
<1>1. \A k, i : IsMoved(k, i)' <=> IsMoved(k, i)
  BY DEF IsMoved
<1> QED BY <1>1 DEF TransferInv

LEMMA BeginInv ==
    ASSUME TransferInv, phase = "idle", NEW k, NEW s \in Seq(Slice), Begin(k, s)
    PROVE  TransferInv'
<1>1. /\ slices' = s /\ kind' = k /\ (k = "entropy" => Len(s) = 1)
      /\ UNCHANGED <<at, offset, remaining, own, moved>>
      /\ \/ phase' = "done" /\ result' = "EIO" /\ errno' = "EIO"
         \/ phase' = "open" /\ UNCHANGED <<result, errno>>
  BY DEF Begin
<1>2. at = 1 /\ offset = 0 /\ own = 0 /\ result = "ok" /\ moved = {} /\ remaining \in Nat
  BY DEF TransferInv
<1>3. StartIn(s, 1) = 0 /\ Len(s) \in Nat /\ 1 \in 1..(Len(s) + 1)
      /\ \A j \in 1..Len(s) : StartIn(s, j) \in Nat
  BY Starts
<1>4. \A j \in 1..Len(s), i \in 0..MaxSize : ~IsMoved(j, i)'
  BY <1>1, <1>2, <1>3 DEF IsMoved
<1> QED BY <1>1, <1>2, <1>3, <1>4 DEF TransferInv

\* A pad file's slice has no bytes to move.
LEMMA PassPadInv == ASSUME TransferInv, PassPad PROVE TransferInv'
<1>1. /\ phase = "open" /\ at <= Len(slices) /\ slices[at].pad
      /\ offset' = offset + slices[at].size /\ at' = at + 1
      /\ UNCHANGED <<kind, slices, remaining, phase, errno, result, own, moved>>
  BY DEF PassPad
<1>2. slices \in Seq(Slice) /\ at \in 1..Len(slices) /\ offset \in Nat /\ Len(slices) \in Nat
      /\ offset = StartIn(slices, at) /\ own = 0
  BY <1>1 DEF TransferInv
<1>3. slices[at].size \in Nat
  <2>1. slices[at] \in Slice
    BY <1>2
  <2> QED BY <2>1, SliceSize
<1>4. StartIn(slices, at + 1) = offset' /\ offset' \in Nat
  BY <1>1, <1>2, <1>3, Starts
<1>5. ASSUME NEW k \in 1..Len(slices), NEW i \in 0..MaxSize PROVE IsMoved(k, i)' <=> IsMoved(k, i)
  <2>1. CASE k = at
    BY <1>1, <2>1 DEF IsMoved
  <2>2. CASE k # at /\ i < slices[k].size
    <3>1. i \in Nat /\ StartIn(slices, at) <= offset /\ offset <= StartIn(slices, at) + slices[at].size
          /\ StartIn(slices, at) <= offset' /\ offset' <= StartIn(slices, at) + slices[at].size
      BY <1>1, <1>2, <1>3
    <3>2. (StartIn(slices, k) + i < offset <=> k < at) /\ (StartIn(slices, k) + i < offset' <=> k < at)
      BY <1>2, <1>4, <2>2, <3>1, OtherSlices
    <3> QED BY <1>1, <3>2 DEF IsMoved
  <2>3. CASE ~(i < slices[k].size)
    BY <1>1, <2>3 DEF IsMoved
  <2> QED BY <2>1, <2>2, <2>3
<1>6. \A y : y \in moved' <=>
        \E k \in 1..Len(slices'), i \in 0..MaxSize :
            IsMoved(k, i)' /\ y = <<StartIn(slices', k) + i, k, i>>
  BY <1>1, <1>5 DEF TransferInv
<1> QED BY <1>1, <1>2, <1>4, <1>6 DEF TransferInv

\* A call moves the bytes that come next.
LEMMA MoveInv == ASSUME TransferInv, NEW n \in 1..MaxSize, Move(n) PROVE TransferInv'
<1> DEFINE b == StartIn(slices, at)
           q == slices[at].size - remaining
<1>1. /\ phase = "move" /\ n <= remaining
      /\ offset' = offset + n /\ remaining' = remaining - n
      /\ UNCHANGED <<kind, slices, at, phase, errno, result, own>>
      /\ moved' = moved \cup {<<offset + i, at, q + i>> : i \in 0..(n - 1)}
  BY DEF Move, FilePosition
<1>2. /\ slices \in Seq(Slice) /\ at \in 1..Len(slices) /\ offset \in Nat /\ Len(slices) \in Nat
      /\ remaining \in Nat /\ remaining <= slices[at].size /\ ~slices[at].pad
      /\ offset = b + slices[at].size - remaining
  BY <1>1 DEF TransferInv
<1>3. slices[at].size \in Nat /\ slices[at].size <= MaxSize /\ n \in Nat /\ MaxSize \in Nat
  <2>1. slices[at] \in Slice
    BY <1>2
  <2> QED BY <2>1, SliceSize
<1>4. b \in Nat /\ q \in Nat /\ offset = b + q /\ q + n <= slices[at].size /\ offset' \in Nat
      /\ remaining' \in Nat /\ remaining' <= slices[at].size
      /\ offset' = b + slices[at].size - remaining'
  <2>1. b \in Nat
    BY <1>2, Starts
  <2> DEFINE z == slices[at].size
  <2>2. z \in Nat /\ remaining \in Nat /\ remaining <= z /\ offset = b + z - remaining /\ n \in Nat
    BY <1>2, <1>3
  <2>3. q = z - remaining /\ n <= remaining /\ offset' = offset + n /\ remaining' = remaining - n
    BY <1>1
  <2> HIDE DEF b, z, q
  <2>4. q \in Nat /\ offset = b + q /\ q + n <= z /\ remaining' \in Nat /\ remaining' <= z
    BY <2>1, <2>2, <2>3
  <2>5. offset' \in Nat /\ offset' = b + z - remaining'
    BY <2>1, <2>2, <2>3
  <2> QED BY <2>1, <2>4, <2>5 DEF z
<1> HIDE DEF b, q
<1>5. ASSUME NEW k \in 1..Len(slices), NEW i \in 0..MaxSize
      PROVE  IsMoved(k, i)' <=> (IsMoved(k, i) \/ (k = at /\ q <= i /\ i < q + n))
  <2>1. CASE k = at
    <3>1. i \in Nat /\ StartIn(slices, k) = b
      BY <1>3, <2>1 DEF b
    <3>2. b + i < offset' <=> (b + i < offset \/ (q <= i /\ i < q + n))
      BY <1>1, <1>3, <1>4, <3>1
    <3>3. i < q + n => i < slices[at].size
      BY <1>3, <1>4, <3>1, SMTT(30)
    <3> QED BY <1>1, <1>2, <2>1, <3>1, <3>2, <3>3 DEF IsMoved
  <2>2. CASE k # at /\ i < slices[k].size
    <3>1. i \in Nat /\ StartIn(slices, at) <= offset /\ offset <= StartIn(slices, at) + slices[at].size
          /\ StartIn(slices, at) <= offset' /\ offset' <= StartIn(slices, at) + slices[at].size
      <4>1. b \in Nat /\ q \in Nat /\ n \in Nat /\ offset = b + q /\ q + n <= slices[at].size
            /\ offset' = offset + n
        BY <1>1, <1>3, <1>4
      <4>2. b <= offset /\ offset <= b + slices[at].size /\ i \in Nat
        BY <1>3, <4>1
      <4>3. b <= offset' /\ offset' <= b + slices[at].size
        BY <1>3, <4>1
      <4> QED BY <4>2, <4>3 DEF b
    <3>2. (StartIn(slices, k) + i < offset <=> k < at) /\ (StartIn(slices, k) + i < offset' <=> k < at)
      BY <1>2, <1>4, <2>2, <3>1, OtherSlices, SMTT(30)
    <3> QED BY <1>1, <2>2, <3>2 DEF IsMoved
  <2>3. CASE k # at /\ ~(i < slices[k].size)
    BY <1>1, <2>3 DEF IsMoved
  <2> QED BY <2>1, <2>2, <2>3
<1>6. ASSUME NEW y
      PROVE  y \in {<<offset + i, at, q + i>> : i \in 0..(n - 1)} <=>
               \E i \in 0..MaxSize : q <= i /\ i < q + n /\ y = <<b + i, at, i>>
  <2>1. ASSUME NEW i \in 0..(n - 1), y = <<offset + i, at, q + i>>
        PROVE  \E j \in 0..MaxSize : q <= j /\ j < q + n /\ y = <<b + j, at, j>>
    <3>1. q + i \in 0..MaxSize /\ q <= q + i /\ q + i < q + n /\ offset + i = b + (q + i)
      BY <1>3, <1>4
    <3> QED BY <2>1, <3>1
  <2>2. ASSUME NEW j \in 0..MaxSize, q <= j, j < q + n, y = <<b + j, at, j>>
        PROVE  \E i \in 0..(n - 1) : y = <<offset + i, at, q + i>>
    <3>1. j - q \in 0..(n - 1) /\ offset + (j - q) = b + j /\ q + (j - q) = j
      BY <1>3, <1>4, <2>2
    <3> QED BY <2>2, <3>1
  <2> QED BY <2>1, <2>2
<1>7. \A y : y \in moved' <=>
        \E k \in 1..Len(slices'), i \in 0..MaxSize :
            IsMoved(k, i)' /\ y = <<StartIn(slices', k) + i, k, i>>
  <2> SUFFICES ASSUME NEW y
               PROVE  y \in moved' <=>
                        \E k \in 1..Len(slices), i \in 0..MaxSize :
                            IsMoved(k, i)' /\ y = <<StartIn(slices, k) + i, k, i>>
    BY <1>1
  <2>1. y \in moved' <=> (y \in moved \/ \E i \in 0..MaxSize : q <= i /\ i < q + n /\ y = <<b + i, at, i>>)
    BY <1>1, <1>6
  <2>2. y \in moved <=> \E k \in 1..Len(slices), i \in 0..MaxSize :
                            IsMoved(k, i) /\ y = <<StartIn(slices, k) + i, k, i>>
    BY DEF TransferInv
  <2> QED BY <1>2, <1>5, <2>1, <2>2 DEF b
<1> QED BY <1>1, <1>2, <1>4, <1>7 DEF TransferInv, b

\* The other steps open or leave a slice, or end the loop.
LEMMA OtherStepsInv ==
    ASSUME TransferInv,
           \/ OpenSlice \/ SlicesDone \/ SliceDone \/ MoveNothing \/ MoveTooMuch
           \/ \E e \in {"EINTR", "EACCES"} : OpenFails(e) \/ Close(e)
           \/ \E e \in {"EINTR", "EACCES", "0"} : MoveFails(e)
    PROVE  TransferInv'
<1>0. UNCHANGED <<slices, offset, moved, kind>>
  BY DEF OpenSlice, SlicesDone, SliceDone, MoveNothing, MoveTooMuch, OpenFails, Close, MoveFails
<1>1. /\ slices' \in Seq(Slice) /\ offset' \in Nat
      /\ \A y : y \in moved' <=>
           \E k \in 1..Len(slices'), i \in 0..MaxSize :
               IsMoved(k, i)' /\ y = <<StartIn(slices', k) + i, k, i>>
  BY <1>0, TransferFrame
<1>2. /\ slices \in Seq(Slice) /\ Len(slices) \in Nat /\ at \in 1..(Len(slices) + 1)
      /\ remaining \in Nat
  BY DEF TransferInv
<1>3. CASE OpenSlice
  <2>1. /\ phase = "open" /\ at <= Len(slices) /\ ~slices[at].pad /\ phase' = "move"
        /\ remaining' = slices[at].size /\ own' = IF kind = "entropy" THEN 1 ELSE 0
        /\ UNCHANGED <<at, result>>
    BY <1>3 DEF OpenSlice
  <2>2. slices[at].size \in Nat /\ at \in 1..Len(slices)
    <3>1. at \in 1..Len(slices) /\ slices[at] \in Slice
      BY <1>2, <2>1
    <3> QED BY <3>1, SliceSize
  <2>3. offset = StartIn(slices, at) /\ StartIn(slices, at) \in Nat
    BY <1>2, <2>1, Starts DEF TransferInv
  <2>4. offset = StartIn(slices, at) + slices[at].size - slices[at].size
    BY <2>2, <2>3
  <2> QED BY <1>0, <1>1, <1>2, <2>1, <2>2, <2>4 DEF TransferInv
<1>4. CASE SlicesDone
  <2>1. /\ phase = "open" /\ at = Len(slices) + 1 /\ result' = "ok"
        /\ phase' = IF kind = "entropy" THEN "close" ELSE "done"
        /\ UNCHANGED <<at, remaining, own, errno>>
    BY <1>4 DEF SlicesDone, Leave
  <2> QED BY <1>0, <1>1, <1>2, <2>1 DEF TransferInv
<1>5. CASE SliceDone
  <2>1. /\ phase = "move" /\ remaining = 0 /\ phase' = "open" /\ at' = at + 1
        /\ UNCHANGED <<remaining, result, own>>
    BY <1>5 DEF SliceDone
  <2>2. at \in 1..Len(slices) /\ at' \in 1..(Len(slices) + 1)
        /\ offset = StartIn(slices, at) + slices[at].size - 0
    BY <1>2, <2>1 DEF TransferInv
  <2>3. offset = StartIn(slices, at + 1)
    <3>1. slices[at].size \in Nat /\ StartIn(slices, at) \in Nat
      <4>1. slices[at] \in Slice /\ at \in 1..(Len(slices) + 1)
        BY <1>2, <2>2
      <4> QED BY <1>2, <4>1, SliceSize, Starts
    <3>2. StartIn(slices, at + 1) = StartIn(slices, at) + slices[at].size
      BY <1>2, <2>2, Starts
    <3> QED BY <2>2, <3>1, <3>2
  <2>4. at' <= Len(slices) => own = 0
    <3>1. CASE kind = "entropy"
      <4>1. Len(slices) = 1
        BY <2>1, <3>1 DEF TransferInv
      <4>2. at = 1
        BY <2>2, <4>1
      <4>3. at' = 2
        BY <2>1, <4>2
      <4> QED BY <4>1, <4>3
    <3>2. CASE kind # "entropy"
      BY <3>2 DEF TransferInv
    <3> QED BY <3>1, <3>2
  <2> QED BY <1>0, <1>1, <1>2, <2>1, <2>2, <2>3, <2>4 DEF TransferInv
<1>6. CASE MoveNothing \/ MoveTooMuch
  <2>1. /\ phase = "move" /\ result' \in {"EOF", "EIO"}
        /\ phase' = IF kind = "entropy" THEN "close" ELSE "done"
        /\ UNCHANGED <<at, remaining, own, errno>>
    BY <1>6 DEF MoveNothing, MoveTooMuch, Leave
  <2> QED BY <1>0, <1>1, <1>2, <2>1 DEF TransferInv
<1>7. CASE \E e \in {"EINTR", "EACCES"} : OpenFails(e)
  <2>1. PICK e \in {"EINTR", "EACCES"} : OpenFails(e)
    BY <1>7
  <2>2. /\ phase = "open" /\ at <= Len(slices) /\ errno' = e
        /\ \/ UNCHANGED <<phase, result>>
           \/ phase' = "done" /\ result' = e
        /\ UNCHANGED <<at, remaining, own>>
    BY <2>1 DEF OpenFails
  <2> QED BY <1>0, <1>1, <1>2, <2>2 DEF TransferInv
<1>8. CASE \E e \in {"EINTR", "EACCES"} : Close(e)
  <2>1. /\ phase = "close" /\ own' = 0 /\ phase' = "done" /\ (result # "ok" => errno' = result)
        /\ UNCHANGED <<at, remaining, result>>
    BY <1>8 DEF Close
  <2> QED BY <1>0, <1>1, <1>2, <2>1 DEF TransferInv
<1>9. CASE \E e \in {"EINTR", "EACCES", "0"} : MoveFails(e)
  <2>1. /\ phase = "move"
        /\ \/ UNCHANGED <<phase, result>>
           \/ /\ result' \in {"EIO", "EACCES"}
              /\ phase' = IF kind = "entropy" THEN "close" ELSE "done"
        /\ UNCHANGED <<at, remaining, own>>
    BY <1>9 DEF MoveFails, Leave
  <2> QED BY <1>0, <1>1, <1>2, <2>1 DEF TransferInv
<1> QED BY <1>3, <1>4, <1>5, <1>6, <1>7, <1>8, <1>9

\* The invariant says what TransferExact says.
LEMMA TransferExactFollows == TransferInv => TransferExact
<1> SUFFICES ASSUME TransferInv PROVE TransferExact
  OBVIOUS
<1>1. \A k : StartOf(k) = StartIn(slices, k)
  BY DEF StartOf, StartIn
<1> DEFINE Y == {y \in (1..Len(slices)) \X (0..MaxSize) :
                   /\ ~slices[y[1]].pad /\ y[2] < slices[y[1]].size
                   /\ StartOf(y[1]) + y[2] < offset}
           E == {<<StartOf(x[1]) + x[2], x[1], x[2]>> : x \in Y}
<1>2. \A k \in 1..Len(slices), i \in 0..MaxSize : <<k, i>> \in Y <=> IsMoved(k, i)
  BY <1>1 DEF IsMoved
<1>3. \A x \in Y : \E k \in 1..Len(slices), i \in 0..MaxSize : x = <<k, i>>
  OBVIOUS
<1> HIDE DEF Y
<1>4. ASSUME NEW y PROVE y \in E <=> \E k \in 1..Len(slices), i \in 0..MaxSize :
                                    IsMoved(k, i) /\ y = <<StartIn(slices, k) + i, k, i>>
  <2>1. ASSUME y \in E PROVE \E k \in 1..Len(slices), i \in 0..MaxSize :
                               IsMoved(k, i) /\ y = <<StartIn(slices, k) + i, k, i>>
    <3>1. PICK x \in Y : y = <<StartOf(x[1]) + x[2], x[1], x[2]>>
      BY <2>1
    <3>2. PICK k \in 1..Len(slices), i \in 0..MaxSize : x = <<k, i>>
      BY <1>3, <3>1
    <3> QED BY <1>1, <1>2, <3>1, <3>2
  <2>2. ASSUME NEW k \in 1..Len(slices), NEW i \in 0..MaxSize, IsMoved(k, i),
               y = <<StartIn(slices, k) + i, k, i>>
        PROVE  y \in E
    <3>1. <<k, i>> \in Y /\ <<k, i>>[1] = k /\ <<k, i>>[2] = i
      BY <1>2, <2>2
    <3> QED BY <1>1, <2>2, <3>1
  <2> QED BY <2>1, <2>2
<1>5. moved = E
  <2>1. \A y : y \in moved <=> y \in E
    <3> HIDE DEF E
    <3> QED BY <1>4 DEF TransferInv
  <2> HIDE DEF E
  <2> QED BY <2>1
<1>6. phase = "done" => /\ own = 0
                        /\ result = "ok" => offset = StartOf(Len(slices) + 1)
                        /\ (kind = "entropy" /\ result # "ok") => errno = result
  BY <1>1 DEF TransferInv
<1> QED BY <1>5, <1>6 DEF TransferExact, Y

\* pread_all(), pwrite_all(), the slices of read_block() and write_block() and
\* getentropy() move exactly the bytes below the offset, each to its own place,
\* for blocks of any number of slices of any size and however the calls are cut.
THEOREM TransferIsExact == TransferSpec => []TransferExact
<1>1. ASSUME TransferInv, [TransferNext]_transferVars PROVE TransferInv'
  <2>1. ASSUME phase = "idle",
               NEW k \in {"all", "read", "write", "entropy"}, NEW m \in 1..MaxSlices,
               NEW s \in [1..m -> Slice], Begin(k, s)
        PROVE  TransferInv'
    <3>1. s \in Seq(Slice)
      <4>1. m \in Nat
        BY TransferAssumption
      <4> QED BY <4>1
    <3> QED BY <1>1, <2>1, <3>1, BeginInv
  <2>2. CASE PassPad
    BY <1>1, <2>2, PassPadInv
  <2>3. CASE \E n \in 1..MaxSize : Move(n)
    BY <1>1, <2>3, MoveInv
  <2>4. CASE \/ OpenSlice \/ SlicesDone \/ SliceDone \/ MoveNothing \/ MoveTooMuch
             \/ \E e \in {"EINTR", "EACCES"} : OpenFails(e) \/ Close(e)
             \/ \E e \in {"EINTR", "EACCES", "0"} : MoveFails(e)
    BY <1>1, <2>4, OtherStepsInv
  <2>5. CASE UNCHANGED transferVars
    <3>1. UNCHANGED <<kind, slices, at, offset, remaining, phase, errno, result, own, moved>>
      BY <2>5 DEF transferVars
    <3>2. \A k, i : IsMoved(k, i)' <=> IsMoved(k, i)
      BY <3>1 DEF IsMoved
    <3> QED BY <1>1, <3>1, <3>2 DEF TransferInv
  <2> QED BY <1>1, <2>1, <2>2, <2>3, <2>4, <2>5 DEF TransferNext
<1> QED BY <1>1, TransferInitInv, TransferExactFollows, PTL DEF TransferSpec

----------------------------------------------------------------------------
(* SafPaths. *)

\* The separators of a name, and with them its two ends.
Slashes(p) == {i \in DOMAIN p : p[i] = Slash}
Cuts(p) == {0, Len(p) + 1} \cup {i \in DOMAIN p : p[i] = Slash}

\* i and j are neighbouring cuts.
Neighbours(p, i, j) ==
    i \in Cuts(p) /\ j \in Cuts(p) /\ i < j /\ \A k \in Cuts(p) : ~(i < k /\ k < j)

\* The component between them leads down: it is not empty, "." or "..".
Down(p, i, j) ==
    /\ j # i + 1 /\ ~(j = i + 2 /\ p[i + 1] = Dot)
    /\ ~(j = i + 3 /\ p[i + 1] = Dot /\ p[i + 2] = Dot)

LEMMA ComponentDown ==
    ASSUME NEW p \in Seq(Characters), NEW i \in 0..Len(p), NEW j \in 1..(Len(p) + 1), i < j
    PROVE  SubSeq(p, i + 1, j - 1) \notin {<<>>, <<Dot>>, <<Dot, Dot>>} <=> Down(p, i, j)
<1> DEFINE c == SubSeq(p, i + 1, j - 1)
           n == (j - 1) - i
<1>0. Len(p) \in Nat /\ n \in Nat
  OBVIOUS
<1>1. c \in Seq(Characters) /\ Len(c) = n /\ \A k \in 1..n : c[k] = p[i + k]
  <2>1. \A k \in (i + 1)..(j - 1) : p[k] \in Characters
    OBVIOUS
  <2>2. c = [k \in 1..n |-> p[i + k]]
    OBVIOUS
  <2>3. \A k \in 1..n : p[i + k] \in Characters
    BY <1>0
  <2> HIDE DEF c, n
  <2> QED BY <1>0, <2>2, <2>3
<1> HIDE DEF c, n
<1>2. c = <<>> <=> n = 0
  BY <1>0, <1>1
<1>3. c = <<Dot>> <=> n = 1 /\ p[i + 1] = Dot
  <2>1. c = <<Dot>> => n = 1 /\ c[1] = Dot
    BY <1>1
  <2>2. n = 1 /\ c[1] = Dot => c = <<Dot>>
    BY <1>1
  <2>3. n = 1 => c[1] = p[i + 1]
    BY <1>1
  <2> QED BY <2>1, <2>2, <2>3
<1>4. c = <<Dot, Dot>> <=> n = 2 /\ p[i + 1] = Dot /\ p[i + 2] = Dot
  <2>1. c = <<Dot, Dot>> => n = 2 /\ c[1] = Dot /\ c[2] = Dot
    BY <1>1
  <2>2. n = 2 /\ c[1] = Dot /\ c[2] = Dot => c = <<Dot, Dot>>
    BY <1>1
  <2>3. n = 2 => c[1] = p[i + 1] /\ c[2] = p[i + 2]
    BY <1>1
  <2> QED BY <2>1, <2>2, <2>3
<1>5. (n = 0 <=> j = i + 1) /\ (n = 1 <=> j = i + 2) /\ (n = 2 <=> j = i + 3)
  BY DEF n
<1> QED BY <1>2, <1>3, <1>4, <1>5 DEF c, Down

\* A safe name, by its components.
LEMMA SafeForm ==
    ASSUME NEW p \in Seq(Characters)
    PROVE  SafePath(p) <=> /\ \A i \in 1..Len(p) : p[i] # Backslash
                           /\ \A i, j \in 0..(Len(p) + 1) : Neighbours(p, i, j) => Down(p, i, j)
<1>1. Cuts(p) \subseteq 0..(Len(p) + 1) /\ DOMAIN p = 1..Len(p) /\ Len(p) \in Nat
  BY DEF Cuts
<1>2. ASSUME NEW i \in Cuts(p), NEW j \in Cuts(p), i < j
      PROVE  SubSeq(p, i + 1, j - 1) \notin {<<>>, <<Dot>>, <<Dot, Dot>>} <=> Down(p, i, j)
  <2>1. i \in 0..Len(p) /\ j \in 1..(Len(p) + 1)
    BY <1>1, <1>2
  <2> QED BY <1>2, <2>1, ComponentDown
<1>3. SafePath(p) <=>
        /\ \A i \in DOMAIN p : p[i] # Backslash
        /\ \A i, j \in Cuts(p) : (i < j /\ \A k \in Cuts(p) : ~(i < k /\ k < j))
             => SubSeq(p, i + 1, j - 1) \notin {<<>>, <<Dot>>, <<Dot, Dot>>}
  BY DEF SafePath, Cuts
<1> HIDE DEF Cuts
<1>4. (\A i, j \in Cuts(p) : (i < j /\ \A k \in Cuts(p) : ~(i < k /\ k < j))
         => SubSeq(p, i + 1, j - 1) \notin {<<>>, <<Dot>>, <<Dot, Dot>>})
      <=> \A i, j \in 0..(Len(p) + 1) : Neighbours(p, i, j) => Down(p, i, j)
  BY <1>1, <1>2 DEF Neighbours
<1> QED BY <1>1, <1>3, <1>4

\* What path.find('/', from) returns.
LEMMA NextSlashDef ==
    ASSUME NEW p \in Seq(Characters), NEW from \in 1..(Len(p) + 1)
    PROVE  /\ NextSlash(p, from) \in from..(Len(p) + 1)
           /\ NextSlash(p, from) <= Len(p) => p[NextSlash(p, from)] = Slash
           /\ \A i \in from..(NextSlash(p, from) - 1) : p[i] # Slash
<1> DEFINE found == {i \in from..Len(p) : p[i] = Slash}
<1>0. Len(p) \in Nat
  OBVIOUS
<1>1. NextSlash(p, from) = IF found = {} THEN Len(p) + 1
                           ELSE CHOOSE i \in found : \A j \in found : i <= j
  BY DEF NextSlash
<1>2. CASE found = {}
  BY <1>0, <1>1, <1>2
<1>3. CASE found # {}
  <2> DEFINE IsFirst(i) == \A j \in found : i <= j
  <2>1. \E i \in found : IsFirst(i)
    <3>1. found \in SUBSET Nat
      OBVIOUS
    <3> HIDE DEF found
    <3> QED BY <1>3, <3>1, LeastNumber
  <2>2. NextSlash(p, from) = CHOOSE i \in found : IsFirst(i)
    BY <1>1, <1>3
  <2>3. NextSlash(p, from) \in found /\ IsFirst(NextSlash(p, from))
    <3> HIDE DEF IsFirst, found
    <3> QED BY <2>1, <2>2
  <2> QED BY <1>0, <2>3
<1> QED BY <1>2, <1>3

\* The directory a separator ends is safe when the whole name is.
LEMMA PrefixSafe ==
    ASSUME NEW p \in Seq(Characters), SafePath(p), NEW c \in Slashes(p),
           NEW q, q = SubSeq(p, 1, c - 1)
    PROVE  /\ q \in Seq(Characters) /\ Len(q) = c - 1 /\ SafePath(q)
           /\ c \in 1..Len(p) /\ IsStrictPrefix(q, p)
<1>1. c \in 1..Len(p) /\ p[c] = Slash /\ Len(p) \in Nat
  BY DEF Slashes
<1>2. q \in Seq(Characters) /\ Len(q) = c - 1 /\ \A i \in 1..(c - 1) : q[i] = p[i]
  <2>1. c - 1 \in 0..Len(p)
    BY <1>1
  <2>2. q = [i \in 1..(c - 1) |-> p[i]]
    BY <1>1
  <2>3. \A i \in 1..(c - 1) : p[i] \in Characters
    BY <1>1
  <2>4. c - 1 \in Nat
    BY <1>1
  <2> QED BY <2>2, <2>3, <2>4
<1>3. \A i \in 1..Len(q) : q[i] # Backslash
  BY <1>1, <1>2, SafeForm
<1>4. ASSUME NEW i \in 0..(Len(q) + 1), NEW j \in 0..(Len(q) + 1), Neighbours(q, i, j)
      PROVE  Down(q, i, j)
  <2>1. i \in 0..c /\ j \in 0..c /\ i < j
    BY <1>1, <1>2, <1>4 DEF Neighbours
  <2>2. \A k \in 0..c : k \in Cuts(p) <=> k \in Cuts(q)
    BY <1>1, <1>2 DEF Cuts
  <2>3. Cuts(p) \subseteq 0..(Len(p) + 1)
    BY <1>1 DEF Cuts
  <2>4. Neighbours(p, i, j)
    <3>1. i \in Cuts(q) /\ j \in Cuts(q) /\ \A k \in Cuts(q) : ~(i < k /\ k < j)
      BY <1>4 DEF Neighbours
    <3>2. ASSUME NEW k \in Cuts(p), i < k, k < j PROVE FALSE
      <4>1. k \in 0..c
        BY <1>1, <2>1, <2>3, <3>2
      <4> QED BY <2>2, <3>1, <3>2, <4>1
    <3> QED BY <2>1, <2>2, <3>1, <3>2 DEF Neighbours
  <2>5. i \in 0..(Len(p) + 1) /\ j \in 0..(Len(p) + 1)
    BY <1>1, <2>1
  <2>6. Down(p, i, j)
    BY <2>4, <2>5, SafeForm
  <2>7. (j = i + 2 => q[i + 1] = p[i + 1]) /\ (j = i + 3 => q[i + 1] = p[i + 1] /\ q[i + 2] = p[i + 2])
    BY <1>1, <1>2, <2>1
  <2> QED BY <2>6, <2>7 DEF Down
<1>5. SafePath(q)
  BY <1>2, <1>3, <1>4, SafeForm
<1>6. IsStrictPrefix(q, p)
  <2>1. Len(q) <= Len(p) /\ q # p
    BY <1>1, <1>2
  <2>2. SubSeq(q, 1, Len(q)) = q
    BY <1>2
  <2> QED BY <1>2, <2>1, <2>2 DEF IsStrictPrefix, IsPrefix
<1> QED BY <1>1, <1>2, <1>5, <1>6

\* A safe name beneath a safe root is safe.
LEMMA JoinSafe ==
    ASSUME NEW r \in Seq(Characters), NEW m \in Seq(Characters), SafePath(r), SafePath(m),
           NEW p, p = r \o <<Slash>> \o m
    PROVE  SafePath(p) /\ p \in Seq(Characters)
<1> DEFINE a == Len(r) + 1
<1>0. Len(r) \in Nat /\ Len(m) \in Nat /\ a \in Nat /\ Slash \in Characters
  BY DEF Characters
<1>1. /\ p \in Seq(Characters) /\ Len(p) = a + Len(m) /\ p[a] = Slash
      /\ \A i \in 1..Len(r) : p[i] = r[i]
      /\ \A i \in 1..Len(m) : p[a + i] = m[i]
  <2> DEFINE u == r \o <<Slash>>
  <2>1. u \in Seq(Characters) /\ Len(u) = a /\ u[a] = Slash /\ \A i \in 1..Len(r) : u[i] = r[i]
    BY <1>0
  <2>2. p = u \o m
    OBVIOUS
  <2> HIDE DEF u
  <2>3. p \in Seq(Characters) /\ Len(p) = a + Len(m)
    BY <2>1, <2>2
  <2>4. \A i \in 1..a : p[i] = u[i]
    BY <2>1, <2>2, <1>0
  <2>5. \A i \in 1..Len(m) : p[a + i] = m[i]
    BY <2>1, <2>2, <1>0
  <2>6. a \in 1..a /\ \A i \in 1..Len(r) : i \in 1..a
    BY <1>0
  <2> QED BY <2>1, <2>3, <2>4, <2>5, <2>6
<1>2. ASSUME NEW i \in 1..Len(p) PROVE p[i] # Backslash
  <2>1. CASE i \in 1..Len(r)
    BY <1>1, <2>1, SafeForm
  <2>2. CASE i = a
    BY <1>1, <2>2 DEF Slash, Backslash
  <2>3. CASE i > a
    <3>1. i - a \in 1..Len(m) /\ a + (i - a) = i
      BY <1>0, <1>1, <2>3
    <3>2. m[i - a] # Backslash
      BY <3>1, SafeForm
    <3> QED BY <1>1, <3>1, <3>2
  <2> QED BY <1>0, <1>1, <2>1, <2>2, <2>3
<1>3. /\ \A k \in 0..a : k \in Cuts(p) <=> k \in Cuts(r)
      /\ \A k \in 0..(Len(m) + 1) : a + k \in Cuts(p) <=> k \in Cuts(m)
      /\ a \in Cuts(p)
  <2>1. a \in Cuts(p)
    BY <1>0, <1>1 DEF Cuts
  <2>2. ASSUME NEW k \in 0..a PROVE k \in Cuts(p) <=> k \in Cuts(r)
    <3>1. CASE k = 0 \/ k = a
      BY <2>1, <3>1 DEF Cuts
    <3>2. CASE k # 0 /\ k # a
      <4>1. k \in 1..Len(r) /\ k \in 1..Len(p) /\ k # Len(p) + 1 /\ k # Len(r) + 1
        BY <1>0, <1>1, <3>2
      <4> QED BY <1>1, <3>2, <4>1 DEF Cuts
    <3> QED BY <3>1, <3>2
  <2>3. ASSUME NEW k \in 0..(Len(m) + 1) PROVE a + k \in Cuts(p) <=> k \in Cuts(m)
    <3>1. CASE k = 0
      <4>1. a + k = a /\ k \in Cuts(m)
        BY <1>0, <3>1 DEF Cuts
      <4> QED BY <2>1, <4>1
    <3>2. CASE k = Len(m) + 1
      <4>1. a + k = Len(p) + 1
        BY <1>0, <1>1, <3>2
      <4> QED BY <3>2, <4>1 DEF Cuts
    <3>3. CASE k # 0 /\ k # Len(m) + 1
      <4>1. k \in 1..Len(m) /\ a + k \in 1..Len(p) /\ a + k # Len(p) + 1 /\ a + k # 0
        BY <1>0, <1>1, <3>3
      <4> QED BY <1>1, <3>3, <4>1 DEF Cuts
    <3> QED BY <3>1, <3>2, <3>3
  <2> QED BY <2>1, <2>2, <2>3
<1>4. ASSUME NEW i \in 0..(Len(p) + 1), NEW j \in 0..(Len(p) + 1), Neighbours(p, i, j)
      PROVE  Down(p, i, j)
  <2>0. i \in Cuts(p) /\ j \in Cuts(p) /\ i < j /\ \A k \in Cuts(p) : ~(i < k /\ k < j)
    BY <1>4 DEF Neighbours
  <2>1. j <= a \/ i >= a
    BY <1>0, <1>1, <1>3, <2>0
  <2>2. CASE j <= a
    <3>1. i \in 0..a /\ j \in 0..a /\ i \in 0..(Len(r) + 1) /\ j \in 0..(Len(r) + 1)
      BY <1>0, <2>0, <2>2
    <3>2. \A k \in Cuts(r) : k \in 0..a
      BY <1>0 DEF Cuts
    <3>3. Neighbours(r, i, j)
      BY <1>3, <2>0, <3>1, <3>2 DEF Neighbours
    <3>4. Down(r, i, j)
      BY <3>1, <3>3, SafeForm
    <3>5. (j = i + 2 => r[i + 1] = p[i + 1]) /\ (j = i + 3 => r[i + 1] = p[i + 1] /\ r[i + 2] = p[i + 2])
      BY <1>0, <1>1, <2>2, <3>1
    <3> QED BY <3>4, <3>5 DEF Down
  <2>3. CASE i >= a
    <3> DEFINE x == i - a
               y == j - a
    <3>1. x \in 0..(Len(m) + 1) /\ y \in 0..(Len(m) + 1) /\ a + x = i /\ a + y = j /\ x < y
      BY <1>0, <1>1, <2>0, <2>3
    <3> HIDE DEF x, y, a
    <3>a. x \in Nat /\ y \in Nat /\ a \in Nat /\ i = a + x /\ j = a + y
      BY <1>0, <3>1
    <3>2. x \in Cuts(m) /\ y \in Cuts(m)
      BY <1>3, <2>0, <3>1
    <3>3. ASSUME NEW k \in Cuts(m), x < k, k < y PROVE FALSE
      <4>1. k \in 0..(Len(m) + 1)
        BY DEF Cuts
      <4>2. a + k \in Cuts(p) /\ i < a + k /\ a + k < j
        <5>1. a + k \in Cuts(p)
          BY <1>3, <4>1
        <5>2. k \in Nat
          BY <1>0, <4>1
        <5> QED BY <3>3, <3>a, <5>1, <5>2
      <4> QED BY <2>0, <4>2
    <3>4. Down(m, x, y)
      BY <3>1, <3>2, <3>3, SafeForm DEF Neighbours
    <3>5. /\ y = x + 2 => m[x + 1] = p[i + 1]
          /\ y = x + 3 => m[x + 1] = p[i + 1] /\ m[x + 2] = p[i + 2]
      <4>1. a + (x + 1) = i + 1 /\ a + (x + 2) = i + 2
        BY <3>a
      <4>2. y = x + 2 => x + 1 \in 1..Len(m)
        BY <1>0, <3>1
      <4>3. y = x + 3 => x + 1 \in 1..Len(m) /\ x + 2 \in 1..Len(m)
        BY <1>0, <3>1
      <4> QED BY <1>1, <4>1, <4>2, <4>3
    <3>6. (j = i + 1 <=> y = x + 1) /\ (j = i + 2 <=> y = x + 2) /\ (j = i + 3 <=> y = x + 3)
      BY <1>0, <3>1
    <3> QED BY <3>4, <3>5, <3>6 DEF Down
  <2> QED BY <2>1, <2>2, <2>3
<1> HIDE DEF a
<1> QED BY <1>1, <1>2, <1>4, SafeForm

\* The components in front of the next one lead down.
TestedInv ==
    /\ start - 1 \in Cuts(path)
    /\ \A i, j \in 0..(Len(path) + 1) :
         Neighbours(path, i, j) /\ j <= start - 1 => Down(path, i, j)

\* One directory has been asked for per separator in front of start, each
\* longer than the one before.
MadeInv ==
    /\ start \in 1..(Len(path) + 1)
    /\ Len(made) = Cardinality({i \in Slashes(path) : i < start})
    /\ \A i \in DOMAIN made :
         /\ \E c \in Slashes(path) : c < start /\ made[i] = SubSeq(path, 1, c - 1)
         /\ i > 1 => Len(made[i - 1]) < Len(made[i])

Creating == task \in {"write", "rename"}

PathsInv ==
    /\ root \in Seq(Characters) /\ name \in Seq(Characters) /\ path \in Seq(Characters)
    /\ start \in 1..(Len(path) + 2) /\ made \in Seq(Seq(Characters))
    /\ step \in {"idle", "testRoot", "thrown", "refused", "ready", "testName", "testPath",
                 "invalid", "move", "mkdir", "failed", "use", "done"}
    /\ step \in {"idle", "ready", "move"} => start = 1
    /\ step \in {"testRoot", "testName", "testPath"} => TestedInv
    /\ step = "testRoot" => path = root
    /\ step = "testName" => path = name
    /\ step \in {"ready", "testPath"} => path = RootedPath(root, name)
    /\ step \in {"testName", "testPath"} => task \in {"read", "write", "rename", "move"}
    /\ step \in {"mkdir", "failed"} => Creating
    /\ step \in {"use", "done"} => task \in {"read", "write", "rename", "ask"}
    /\ (step \in {"mkdir", "failed", "use", "done"} /\ task # "ask") => SafePath(path)
    /\ (step \in {"mkdir", "failed", "use", "done"} /\ Creating) => MadeInv
    /\ ~(step \in {"mkdir", "failed", "use", "done"} /\ Creating) => made = <<>>
    /\ (step \in {"use", "done"} /\ Creating) => \A i \in Slashes(path) : i < start
    /\ step = "use" => task # "ask"
    /\ step = "done" => ask.path = path
    /\ ask.call \in {"open_write", "rename"} => step = "done" /\ task # "ask"
    /\ step = "thrown" => ~SafePath(root)
    /\ step = "invalid" => ~SafePath(name) \/ (root # <<>> /\ ~SafePath(root))

\* A name is tested from its beginning.
LEMMA TestFromStart ==
    ASSUME NEW p \in Seq(Characters)
    PROVE  /\ 1 - 1 \in Cuts(p) /\ 1 \in 1..(Len(p) + 2)
           /\ \A i, j \in 0..(Len(p) + 1) : Neighbours(p, i, j) /\ j <= 1 - 1 => Down(p, i, j)
<1>1. Len(p) \in Nat
  OBVIOUS
<1> QED BY <1>1 DEF Cuts, Neighbours

LEMMA RootedIsName ==
    ASSUME NEW base \in Seq(Characters), NEW n \in Seq(Characters)
    PROVE  RootedPath(base, n) \in Seq(Characters)
<1>1. <<Slash>> \in Seq(Characters)
  BY DEF Characters
<1>2. base \o <<Slash>> \in Seq(Characters)
  BY <1>1
<1>3. base \o <<Slash>> \o n \in Seq(Characters)
  BY <1>2
<1> QED BY <1>3 DEF RootedPath

LEMMA NormalizedIsName ==
    ASSUME NEW given \in Seq(Characters)
    PROVE  NormalizedSaveRoot(given) \in Seq(Characters)
  BY DEF NormalizedSaveRoot

LEMMA NewTorrentInv ==
    ASSUME PathsInv, step = "idle", NEW given \in Seq(Characters), NEW n \in Seq(Characters),
           NewTorrent(given, n)
    PROVE  PathsInv'
<1>1. root' \in Seq(Characters) /\ name' = n /\ UNCHANGED <<start, task, made, ask>>
  BY NormalizedIsName DEF NewTorrent
<1>2. \/ root' = <<>> /\ path' = n /\ step' = "ready"
      \/ path' = root' /\ step' = "testRoot"
  BY DEF NewTorrent
<1>3. start = 1 /\ made = <<>> /\ ask.call \notin {"open_write", "rename"}
  BY DEF PathsInv
<1>4. path' \in Seq(Characters)
  BY <1>1, <1>2
<1>5. TestedInv' /\ start' \in 1..(Len(path') + 2)
  BY <1>1, <1>3, <1>4, TestFromStart DEF TestedInv
<1>6. step' = "ready" => path' = RootedPath(root, name)'
  BY <1>1, <1>2 DEF RootedPath
<1> QED BY <1>1, <1>2, <1>3, <1>4, <1>5, <1>6 DEF PathsInv

\* A test that rejects names the culprit: the root, or the name.
LEMMA RejectInv ==
    ASSUME PathsInv, Testing, ~SafePath(path), Reject,
           UNCHANGED <<root, name, path, start, task, made, ask>>
    PROVE  PathsInv'
<1>1. step' = IF step = "testRoot" THEN "thrown" ELSE "invalid"
  BY DEF Reject
<1>2. step \in {"testRoot", "testName", "testPath"} /\ made = <<>>
      /\ ask.call \notin {"open_write", "rename"}
  BY DEF Testing, PathsInv
<1>3. step = "testPath" => ~SafePath(name) \/ (root # <<>> /\ ~SafePath(root))
  <2> SUFFICES ASSUME step = "testPath", SafePath(name), root = <<>> \/ SafePath(root) PROVE FALSE
    OBVIOUS
  <2>1. path = RootedPath(root, name) /\ root \in Seq(Characters) /\ name \in Seq(Characters)
    BY DEF PathsInv
  <2>2. CASE root = <<>>
    BY <2>1, <2>2 DEF RootedPath
  <2>3. CASE root # <<>>
    BY <2>1, <2>3, JoinSafe DEF RootedPath
  <2> QED BY <2>2, <2>3
<1>4. step = "testRoot" => ~SafePath(root)
  BY DEF PathsInv
<1>5. step = "testName" => ~SafePath(name)
  BY DEF PathsInv
<1> QED BY <1>1, <1>2, <1>3, <1>4, <1>5 DEF PathsInv

LEMMA BadAtOnceUnsafe == ASSUME path \in Seq(Characters), BadAtOnce PROVE ~SafePath(path)
<1> SUFFICES ASSUME SafePath(path) PROVE FALSE
  OBVIOUS
<1>0. Len(path) \in Nat /\ DOMAIN path = 1..Len(path)
  OBVIOUS
<1>1. /\ \A i \in 1..Len(path) : path[i] # Backslash
      /\ \A i, j \in 0..(Len(path) + 1) : Neighbours(path, i, j) => Down(path, i, j)
  BY SafeForm
<1>2. CASE path = <<>> \/ path[1] = Slash
  <2>1. 0 \in Cuts(path) /\ 1 \in Cuts(path)
    <3>1. CASE path = <<>>
      BY <3>1 DEF Cuts
    <3>2. CASE path # <<>> /\ path[1] = Slash
      <4>1. 1 \in 1..Len(path)
        BY <1>0, <3>2
      <4> QED BY <1>0, <3>2, <4>1 DEF Cuts
    <3> QED BY <1>2, <3>1, <3>2
  <2>2. \A k \in Cuts(path) : k \in Int
    BY <1>0 DEF Cuts
  <2>3. Neighbours(path, 0, 1)
    BY <2>1, <2>2 DEF Neighbours
  <2>4. 0 \in 0..(Len(path) + 1) /\ 1 \in 0..(Len(path) + 1)
    BY <1>0
  <2>5. Down(path, 0, 1)
    BY <1>1, <2>3, <2>4
  <2> QED BY <2>5 DEF Down
<1>3. CASE \E i \in DOMAIN path : path[i] = Backslash
  BY <1>0, <1>1, <1>3
<1> QED BY <1>2, <1>3 DEF BadAtOnce

LEMMA TestRejectsInv == ASSUME PathsInv, TestRejects PROVE PathsInv'
<1>1. Testing /\ BadAtOnce /\ Reject /\ UNCHANGED <<root, name, path, start, task, made, ask>>
  BY DEF TestRejects
<1>2. ~SafePath(path)
  BY <1>1, BadAtOnceUnsafe DEF PathsInv
<1> QED BY <1>1, <1>2, RejectInv

\* The next component lies between neighbouring cuts.
LEMMA ComponentCuts ==
    ASSUME PathsInv, TestedInv, start <= Len(path), NEW j, j = NextSlash(path, start)
    PROVE  /\ Neighbours(path, start - 1, j) /\ start - 1 \in 0..Len(path)
           /\ j \in 1..(Len(path) + 1) /\ start \in 1..Len(path)
           /\ Component \notin {<<>>, <<Dot>>, <<Dot, Dot>>} <=> Down(path, start - 1, j)
<1>1. path \in Seq(Characters) /\ start \in 1..Len(path) /\ Len(path) \in Nat
  BY DEF PathsInv
<1>2. start \in 1..(Len(path) + 1)
  BY <1>1
<1>3. /\ j \in start..(Len(path) + 1) /\ (j <= Len(path) => path[j] = Slash)
      /\ \A i \in start..(j - 1) : path[i] # Slash
  BY <1>1, <1>2, NextSlashDef
<1>4. j \in 1..(Len(path) + 1) /\ start - 1 \in 0..Len(path) /\ start - 1 < j
  BY <1>1, <1>3
<1>5. j \in Cuts(path)
  <2>1. j = Len(path) + 1 \/ j \in 1..Len(path)
    BY <1>1, <1>4
  <2> QED BY <1>1, <1>3, <2>1 DEF Cuts
<1>6. ASSUME NEW k \in Cuts(path), start - 1 < k, k < j PROVE FALSE
  <2>1. k \in 1..Len(path) /\ path[k] = Slash
    BY <1>1, <1>4, <1>6 DEF Cuts
  <2>2. k \in start..(j - 1)
    BY <1>1, <1>4, <1>6, <2>1
  <2> QED BY <1>3, <2>1, <2>2
<1>7. Neighbours(path, start - 1, j)
  BY <1>4, <1>5, <1>6 DEF Neighbours, TestedInv
<1>8. (start - 1) + 1 = start
  BY <1>1
<1>9. SubSeq(path, (start - 1) + 1, j - 1) \notin {<<>>, <<Dot>>, <<Dot, Dot>>}
        <=> Down(path, start - 1, j)
  BY <1>1, <1>4, ComponentDown
<1>10. Component \notin {<<>>, <<Dot>>, <<Dot, Dot>>} <=> Down(path, start - 1, j)
  BY <1>8, <1>9 DEF Component
<1> QED BY <1>1, <1>4, <1>7, <1>10

LEMMA TestComponentInv == ASSUME PathsInv, TestComponent PROVE PathsInv'
<1> DEFINE j == NextSlash(path, start)
<1>1. /\ Testing /\ start <= Len(path) /\ UNCHANGED <<root, name, path, task, made, ask>>
      /\ IF Component \in {<<>>, <<Dot>>, <<Dot, Dot>>}
         THEN Reject /\ UNCHANGED start ELSE start' = j + 1 /\ UNCHANGED step
  BY DEF TestComponent
<1>2. /\ step \in {"testRoot", "testName", "testPath"} /\ TestedInv
      /\ path \in Seq(Characters) /\ Len(path) \in Nat
  BY <1>1 DEF Testing, PathsInv
<1>3. /\ Neighbours(path, start - 1, j) /\ start - 1 \in 0..Len(path)
      /\ j \in 1..(Len(path) + 1) /\ start \in 1..Len(path)
      /\ Component \notin {<<>>, <<Dot>>, <<Dot, Dot>>} <=> Down(path, start - 1, j)
  BY <1>1, <1>2, ComponentCuts
<1> HIDE DEF j
<1>4. CASE Component \in {<<>>, <<Dot>>, <<Dot, Dot>>}
  <2>1. ~Down(path, start - 1, j)
    BY <1>3, <1>4
  <2>2. start - 1 \in 0..(Len(path) + 1) /\ j \in 0..(Len(path) + 1)
    BY <1>2, <1>3
  <2>3. ~SafePath(path)
    BY <1>2, <1>3, <2>1, <2>2, SafeForm
  <2>4. Reject /\ UNCHANGED <<root, name, path, start, task, made, ask>>
    BY <1>1, <1>4
  <2> QED BY <1>1, <2>3, <2>4, RejectInv
<1>5. CASE Component \notin {<<>>, <<Dot>>, <<Dot, Dot>>}
  <2>1. start' = j + 1 /\ step' = step /\ Down(path, start - 1, j)
    BY <1>1, <1>3, <1>5
  <2>2. start' \in 1..(Len(path) + 2) /\ start' - 1 = j
    BY <1>2, <1>3, <2>1
  <2>3. ASSUME NEW x \in 0..(Len(path) + 1), NEW y \in 0..(Len(path) + 1),
               Neighbours(path, x, y), y <= j
        PROVE  Down(path, x, y)
    <3>1. CASE y <= start - 1
      BY <1>2, <2>3, <3>1 DEF TestedInv
    <3>2. CASE y > start - 1
      <4>1. y = j
        BY <1>3, <2>3, <3>2 DEF Neighbours
      <4>2. x = start - 1
        <5>1. ~(start - 1 < x /\ x < j) /\ ~(x < start - 1 /\ start - 1 < j) /\ x < j /\ start - 1 < j
          BY <1>3, <2>3, <4>1 DEF Neighbours
        <5> QED BY <1>3, <5>1
      <4> QED BY <2>1, <4>1, <4>2
    <3> QED BY <1>3, <3>1, <3>2
  <2>4. TestedInv'
    BY <1>1, <1>3, <2>2, <2>3 DEF TestedInv, Neighbours
  <2>5. start' \in 1..(Len(path') + 2)
    BY <1>1, <2>2
  <2>6. made = <<>> /\ ask.call \notin {"open_write", "rename"}
    BY <1>2 DEF PathsInv
  <2> QED BY <1>1, <1>2, <2>1, <2>4, <2>5, <2>6 DEF PathsInv
<1> QED BY <1>4, <1>5

\* After the loop: a separator at the end is one too many, and without one every
\* component has been tested.
LEMMA EndOfTest ==
    ASSUME PathsInv, TestedInv, ~BadAtOnce, start > Len(path)
    PROVE  /\ path # <<>> /\ Len(path) \in Nat /\ Len(path) > 0
           /\ path[Len(path)] = Slash => ~SafePath(path)
           /\ path[Len(path)] # Slash => SafePath(path)
<1>0. path \in Seq(Characters) /\ Len(path) \in Nat /\ path # <<>> /\ start \in 1..(Len(path) + 2)
      /\ \A i \in DOMAIN path : path[i] # Backslash
  BY DEF PathsInv, BadAtOnce
<1>1. Len(path) > 0 /\ DOMAIN path = 1..Len(path)
  BY <1>0
<1>2. ASSUME path[Len(path)] = Slash PROVE ~SafePath(path)
  <2> DEFINE n == Len(path)
  <2>1. n \in Cuts(path) /\ n + 1 \in Cuts(path) /\ n \in 0..(n + 1) /\ n + 1 \in 0..(n + 1)
    <3>1. n \in 1..n /\ n \in 0..(n + 1) /\ n + 1 \in 0..(n + 1)
      BY <1>0, <1>1
    <3>2. n \in DOMAIN path /\ path[n] = Slash
      BY <1>1, <1>2, <3>1
    <3> QED BY <3>1, <3>2 DEF Cuts
  <2>2. \A k \in Cuts(path) : k \in Int
    BY <1>0 DEF Cuts
  <2>3. Neighbours(path, n, n + 1)
    BY <1>0, <2>1, <2>2 DEF Neighbours
  <2>4. ~Down(path, n, n + 1)
    BY DEF Down
  <2> QED BY <1>0, <2>1, <2>3, <2>4, SafeForm
<1>3. ASSUME path[Len(path)] # Slash PROVE SafePath(path)
  <2>1. start - 1 \in Cuts(path) /\ start - 1 \in {Len(path), Len(path) + 1}
    BY <1>0 DEF TestedInv
  <2>2. Len(path) \notin Cuts(path)
    <3> DEFINE n == Len(path)
    <3>1. n \in Nat /\ n > 0
      BY <1>0, <1>1
    <3> HIDE DEF n
    <3>2. n # 0 /\ n # n + 1
      BY <3>1
    <3> QED BY <1>3, <3>2 DEF Cuts, n
  <2>3. start - 1 = Len(path) + 1
    BY <2>1, <2>2
  <2>4. \A i, j \in 0..(Len(path) + 1) : Neighbours(path, i, j) => Down(path, i, j)
    <3>1. \A j \in 0..(Len(path) + 1) : j <= start - 1
      BY <1>0, <2>3
    <3> QED BY <3>1 DEF TestedInv
  <2> QED BY <1>0, <1>1, <2>4, SafeForm
<1> QED BY <1>0, <1>1, <1>2, <1>3

\* No directory has been asked for when the first is looked for.
LEMMA MakeFromStart ==
    ASSUME path' \in Seq(Characters), start' = 1, made' = <<>>
    PROVE  MadeInv'
<1>1. start' \in 1..(Len(path') + 1) /\ Len(made') = 0
  OBVIOUS
<1>2. {i \in Slashes(path') : i < start'} = {}
  BY DEF Slashes
<1>3. Cardinality({i \in Slashes(path') : i < start'}) = 0
  BY <1>2, FS_EmptySet
<1> QED BY <1>1, <1>3 DEF MadeInv

LEMMA TestEndInv == ASSUME PathsInv, TestEnd PROVE PathsInv'
<1>1. /\ Testing /\ ~BadAtOnce /\ start > Len(path) /\ UNCHANGED <<root, name, task, made, ask>>
      /\ IF path[Len(path)] = Slash THEN Reject /\ UNCHANGED <<path, start>> ELSE Accept
  BY DEF TestEnd
<1>2. /\ step \in {"testRoot", "testName", "testPath"} /\ TestedInv /\ path \in Seq(Characters)
      /\ root \in Seq(Characters) /\ name \in Seq(Characters) /\ made = <<>>
      /\ start \in 1..(Len(path) + 2) /\ ask.call \notin {"open_write", "rename"}
  BY <1>1 DEF Testing, PathsInv
<1>3. /\ path[Len(path)] = Slash => ~SafePath(path)
      /\ path[Len(path)] # Slash => SafePath(path)
  BY <1>1, <1>2, EndOfTest
<1>4. CASE path[Len(path)] = Slash
  <2>1. Reject /\ UNCHANGED <<root, name, path, start, task, made, ask>>
    BY <1>1, <1>4
  <2> QED BY <1>1, <1>3, <1>4, <2>1, RejectInv
<1>5. CASE path[Len(path)] # Slash /\ step' = "refused" /\ UNCHANGED <<path, start>>
  BY <1>1, <1>2, <1>5 DEF PathsInv
<1>6. CASE /\ step' = "ready" \/ (step' = "testPath" /\ step = "testName")
           /\ path' = RootedPath(root, name) /\ start' = 1
  <2>1. path' \in Seq(Characters) /\ path' = RootedPath(root, name)'
    BY <1>1, <1>2, <1>6, RootedIsName
  <2>2. TestedInv' /\ start' \in 1..(Len(path') + 2)
    BY <1>6, <2>1, TestFromStart DEF TestedInv
  <2>3. step = "testName" => task \in {"read", "write", "rename", "move"}
    BY DEF PathsInv
  <2> QED BY <1>1, <1>2, <1>6, <2>1, <2>2, <2>3 DEF PathsInv
<1>7. CASE path[Len(path)] # Slash /\ step = "testPath"
  <2>1. SafePath(path) /\ start' = 1 /\ UNCHANGED path
    BY <1>1, <1>3, <1>7 DEF Accept
  <2>2. step' = CASE task = "read" -> "use" [] task = "move" -> "move" [] OTHER -> "mkdir"
    BY <1>1, <1>7 DEF Accept
  <2>3. MadeInv' /\ start' \in 1..(Len(path') + 2)
    BY <1>1, <1>2, <2>1, MakeFromStart DEF MadeInv
  <2>4. task \in {"read", "write", "rename", "move"}
    BY <1>7 DEF PathsInv
  <2> QED BY <1>1, <1>2, <2>1, <2>2, <2>3, <2>4 DEF PathsInv, Creating
<1>8. CASE path[Len(path)] # Slash /\ step # "testPath"
  <2>1. \/ step' = "refused" /\ UNCHANGED <<path, start>>
        \/ /\ step' = "ready" \/ (step' = "testPath" /\ step = "testName")
           /\ path' = RootedPath(root, name) /\ start' = 1
    BY <1>1, <1>2, <1>8 DEF Accept
  <2> QED BY <1>5, <1>6, <1>8, <2>1
<1> QED BY <1>2, <1>4, <1>7, <1>8

\* A call with the path as it is claims nothing about it, and the jobs that test
\* begin at the beginning of the path or the name.
LEMMA AskUntestedInv ==
    ASSUME PathsInv, NEW c \in {"file_size", "open_read", "remove"}, AskUntested(c)
    PROVE  PathsInv'
<1>1. step = "ready" /\ made = <<>>
  BY DEF PathsInv, AskUntested
<1>2. /\ ask' = [call |-> c, path |-> path] /\ task' = "ask" /\ step' = "done"
      /\ UNCHANGED <<root, name, path, start, made>>
  BY DEF AskUntested, Ask
<1>3. ask'.call \notin {"open_write", "rename"} /\ ask'.path = path'
  BY <1>2
<1> QED BY <1>1, <1>2, <1>3 DEF PathsInv, Creating

LEMMA BeginJobInv ==
    ASSUME PathsInv, NEW t \in {"read", "write", "rename", "move"}, BeginOpen(t) \/ BeginNamed(t)
    PROVE  PathsInv'
<1>1. /\ step = "ready" /\ start = 1 /\ made = <<>> /\ ask.call \notin {"open_write", "rename"}
      /\ root \in Seq(Characters) /\ name \in Seq(Characters) /\ path \in Seq(Characters)
      /\ path = RootedPath(root, name)
  BY DEF PathsInv, BeginOpen, BeginNamed
<1>2. /\ task' = t
      /\ \/ step' = "testPath" /\ path' = path
         \/ step' = "testName" /\ path' = name
      /\ UNCHANGED <<root, name, start, made, ask>>
  BY DEF BeginOpen, BeginNamed
<1>3. path' \in Seq(Characters)
  BY <1>1, <1>2
<1>4. TestedInv' /\ start' \in 1..(Len(path') + 2)
  BY <1>1, <1>2, <1>3, TestFromStart DEF TestedInv
<1>5. step' = "testPath" => path' = RootedPath(root, name)'
  BY <1>1, <1>2
<1> QED BY <1>1, <1>2, <1>3, <1>4, <1>5 DEF PathsInv

LEMMA SetSaveRootInv ==
    ASSUME PathsInv, step = "move", NEW given \in Seq(Characters), SetSaveRoot(given)
    PROVE  PathsInv'
<1>1. /\ root' \in Seq(Characters) /\ path' = RootedPath(root', name) /\ step' = "ready"
      /\ task' = "none" /\ UNCHANGED <<name, start, made, ask>>
  BY NormalizedIsName DEF SetSaveRoot
<1>2. start = 1 /\ made = <<>> /\ ask.call \notin {"open_write", "rename"} /\ name \in Seq(Characters)
  BY DEF PathsInv
<1>3. path' \in Seq(Characters) /\ path' = RootedPath(root, name)'
  BY <1>1, <1>2, RootedIsName
<1>4. start' \in 1..(Len(path') + 2)
  BY <1>1, <1>2, <1>3, TestFromStart
<1> QED BY <1>1, <1>2, <1>3, <1>4 DEF PathsInv

LEMMA MakeDirectoryInv == ASSUME PathsInv, MakeDirectory PROVE PathsInv'
<1> DEFINE c == NextSlash(path, start)
           d == SubSeq(path, 1, c - 1)
<1>1. /\ step = "mkdir" /\ c <= Len(path) /\ made' = Append(made, d) /\ start' = c + 1
      /\ UNCHANGED <<root, name, path, task, step, ask>>
  BY DEF MakeDirectory
<1>2. /\ path \in Seq(Characters) /\ Len(path) \in Nat /\ made \in Seq(Seq(Characters))
      /\ SafePath(path) /\ MadeInv /\ start \in 1..(Len(path) + 1) /\ Len(made) \in Nat
      /\ Creating /\ ask.call \notin {"open_write", "rename"}
  <2>0. Creating /\ task # "ask" /\ ask.call \notin {"open_write", "rename"}
    BY <1>1 DEF PathsInv, Creating
  <2>1. SafePath(path) /\ MadeInv
    BY <1>1, <2>0 DEF PathsInv
  <2>2. path \in Seq(Characters) /\ made \in Seq(Seq(Characters))
    BY DEF PathsInv
  <2> QED BY <2>0, <2>1, <2>2 DEF MadeInv
<1>3. c \in start..Len(path) /\ path[c] = Slash /\ \A i \in start..(c - 1) : path[i] # Slash
  BY <1>1, <1>2, NextSlashDef
<1> HIDE DEF c
<1>4. c \in Slashes(path) /\ c < c + 1 /\ c \in Nat
  BY <1>2, <1>3 DEF Slashes
<1>5. d \in Seq(Characters) /\ Len(d) = c - 1
  BY <1>2, <1>4, PrefixSafe
<1> HIDE DEF d
<1>6. /\ made' \in Seq(Seq(Characters)) /\ Len(made') = Len(made) + 1
      /\ made'[Len(made) + 1] = d /\ \A i \in 1..Len(made) : made'[i] = made[i]
  BY <1>1, <1>2, <1>5
<1>7. start' \in 1..(Len(path') + 1) /\ start' \in 1..(Len(path') + 2)
  BY <1>1, <1>2, <1>3
<1>8. Len(made') = Cardinality({i \in Slashes(path') : i < start'})
  <2> DEFINE A == {i \in Slashes(path) : i < start}
             B == {i \in Slashes(path') : i < start'}
  <2>1. B = A \cup {c} /\ c \notin A
    BY <1>1, <1>2, <1>3 DEF Slashes
  <2>2. IsFiniteSet(A)
    <3>1. A \subseteq 1..Len(path) /\ IsFiniteSet(1..Len(path))
      <4>1. A \subseteq 1..Len(path)
        BY <1>2 DEF Slashes
      <4> QED BY <1>2, <4>1, FS_Interval
    <3> HIDE DEF A
    <3> QED BY <3>1, FS_Subset
  <2>3. Len(made) = Cardinality(A)
    BY <1>2 DEF MadeInv
  <2> HIDE DEF A, B
  <2>4. Cardinality(B) = Cardinality(A) + 1
    BY <2>1, <2>2, FS_AddElement
  <2> QED BY <1>6, <2>3, <2>4 DEF B
<1>9. ASSUME NEW i \in DOMAIN made'
      PROVE  /\ \E k \in Slashes(path') : k < start' /\ made'[i] = SubSeq(path', 1, k - 1)
             /\ i > 1 => Len(made'[i - 1]) < Len(made'[i])
  <2>0. i \in 1..(Len(made) + 1)
    BY <1>2, <1>6
  <2>1. CASE i \in 1..Len(made)
    <3>1. i \in DOMAIN made /\ made'[i] = made[i] /\ (i > 1 => made'[i - 1] = made[i - 1])
      <4>1. DOMAIN made = 1..Len(made)
        BY <1>2
      <4>2. i > 1 => i - 1 \in 1..Len(made)
        BY <1>2, <2>1
      <4> QED BY <1>6, <2>1, <4>1, <4>2
    <3>2. PICK k \in Slashes(path) : k < start /\ made[i] = SubSeq(path, 1, k - 1)
      BY <1>2, <3>1 DEF MadeInv
    <3>3. k < start'
      <4>1. k \in Nat /\ k < start /\ start <= c /\ start \in Nat /\ start' = c + 1
        BY <1>1, <1>2, <1>3, <3>2 DEF Slashes
      <4> QED BY <1>4, <4>1
    <3> QED BY <1>1, <1>2, <3>1, <3>2, <3>3 DEF MadeInv
  <2>2. CASE i = Len(made) + 1
    <3>1. made'[i] = d
      BY <1>6, <2>2
    <3>2. \E k \in Slashes(path') : k < start' /\ made'[i] = SubSeq(path', 1, k - 1)
      BY <1>1, <1>4, <3>1 DEF d
    <3>3. ASSUME i > 1 PROVE Len(made'[i - 1]) < Len(made'[i])
      <4>1. i - 1 \in 1..Len(made) /\ i - 1 \in DOMAIN made /\ made'[i - 1] = made[i - 1]
        <5>1. DOMAIN made = 1..Len(made)
          BY <1>2
        <5>2. i - 1 \in 1..Len(made)
          BY <1>2, <2>2, <3>3
        <5> QED BY <1>6, <5>1, <5>2
      <4>2. PICK k \in Slashes(path) : k < start /\ made[i - 1] = SubSeq(path, 1, k - 1)
        BY <1>2, <4>1 DEF MadeInv
      <4>3. Len(made[i - 1]) = k - 1
        BY <1>2, <4>2, PrefixSafe
      <4>4. k \in Nat /\ k < start /\ start <= c /\ start \in Nat
        BY <1>2, <1>3, <4>2 DEF Slashes
      <4> QED BY <1>4, <1>5, <3>1, <4>1, <4>3, <4>4
    <3> QED BY <3>2, <3>3
  <2> QED BY <2>0, <2>1, <2>2
<1>10. MadeInv'
  BY <1>7, <1>8, <1>9 DEF MadeInv
<1> QED BY <1>1, <1>2, <1>6, <1>7, <1>10 DEF PathsInv, Creating

LEMMA MakeEndsInv == ASSUME PathsInv, MakeDirectoryFails \/ DirectoriesMade PROVE PathsInv'
<1>1. /\ step = "mkdir" /\ step' \in {"failed", "use"}
      /\ UNCHANGED <<root, name, path, start, task, made, ask>>
  BY DEF MakeDirectoryFails, DirectoriesMade
<1>2. step' = "use" => NextSlash(path, start) > Len(path)
  BY DEF MakeDirectoryFails, DirectoriesMade
<1>3. /\ path \in Seq(Characters) /\ Len(path) \in Nat /\ start \in 1..(Len(path) + 1) /\ MadeInv
      /\ Creating /\ ask.call \notin {"open_write", "rename"}
  <2>0. Creating /\ task # "ask" /\ ask.call \notin {"open_write", "rename"}
    BY <1>1 DEF PathsInv, Creating
  <2>1. SafePath(path) /\ MadeInv
    BY <1>1, <2>0 DEF PathsInv
  <2>2. path \in Seq(Characters)
    BY DEF PathsInv
  <2> QED BY <2>0, <2>1, <2>2 DEF MadeInv
<1>4. MadeInv'
  BY <1>1, <1>3 DEF MadeInv
<1>5. ASSUME step' = "use", NEW i \in Slashes(path) PROVE i < start
  <2> DEFINE c == NextSlash(path, start)
  <2>1. c \in start..(Len(path) + 1) /\ \A k \in start..(c - 1) : path[k] # Slash
    BY <1>3, NextSlashDef
  <2>2. c > Len(path)
    BY <1>2, <1>5
  <2> HIDE DEF c
  <2>3. i \in 1..Len(path) /\ path[i] = Slash
    BY <1>3 DEF Slashes
  <2> QED BY <1>3, <2>1, <2>2, <2>3
<1> QED BY <1>1, <1>3, <1>4, <1>5 DEF PathsInv, Creating

LEMMA UseInv == ASSUME PathsInv, Use PROVE PathsInv'
<1>1. /\ step = "use" /\ step' = "done" /\ ask'.path = path
      /\ UNCHANGED <<root, name, path, start, task, made>>
  BY DEF Use, Ask
<1>2. task \in {"read", "write", "rename"} /\ SafePath(path)
  BY <1>1 DEF PathsInv
<1>3. Creating => MadeInv /\ \A i \in Slashes(path) : i < start
  BY <1>1 DEF PathsInv
<1>4. Creating => MadeInv'
  BY <1>1, <1>3 DEF MadeInv
<1> QED BY <1>1, <1>2, <1>3, <1>4 DEF PathsInv, Creating

LEMMA WritesConfinedFollows == PathsInv => WritesConfined
<1> SUFFICES ASSUME PathsInv PROVE WritesConfined
  OBVIOUS
<1>0. path \in Seq(Characters) /\ made \in Seq(Seq(Characters))
  BY DEF PathsInv
<1>1. ASSUME NEW i \in DOMAIN made
      PROVE  /\ SafePath(made[i]) /\ IsStrictPrefix(made[i], path)
             /\ i > 1 => IsStrictPrefix(made[i - 1], made[i])
  <2>1. SafePath(path) /\ MadeInv
    <3>1. made # <<>>
      BY <1>0, <1>1
    <3> QED BY <3>1 DEF PathsInv, Creating
  <2>2. PICK c \in Slashes(path) : made[i] = SubSeq(path, 1, c - 1)
    BY <2>1 DEF MadeInv
  <2>3. /\ SafePath(made[i]) /\ IsStrictPrefix(made[i], path)
        /\ Len(made[i]) = c - 1 /\ made[i] \in Seq(Characters)
    BY <1>0, <2>1, <2>2, PrefixSafe
  <2>4. ASSUME i > 1 PROVE IsStrictPrefix(made[i - 1], made[i])
    <3>1. i - 1 \in DOMAIN made
      BY <1>0, <2>4
    <3>2. PICK b \in Slashes(path) : made[i - 1] = SubSeq(path, 1, b - 1)
      BY <2>1, <3>1 DEF MadeInv
    <3>3. Len(made[i - 1]) = b - 1 /\ made[i - 1] \in Seq(Characters) /\ b \in 1..Len(path)
      BY <1>0, <2>1, <3>2, PrefixSafe
    <3>4. Len(made[i - 1]) < Len(made[i])
      BY <2>1, <2>4 DEF MadeInv
    <3>5. c \in 1..Len(path)
      BY <1>0, <2>1, <2>2, PrefixSafe
    <3>6. SubSeq(made[i - 1], 1, b - 1) = SubSeq(made[i], 1, b - 1)
      <4>1. b - 1 \in 0..(c - 1) /\ c - 1 \in 0..Len(path)
        BY <2>3, <3>3, <3>4, <3>5
      <4>2. \A k \in 1..(b - 1) : made[i - 1][k] = path[k] /\ made[i][k] = path[k]
        BY <1>0, <2>2, <3>2, <3>3, <3>5, <4>1
      <4>3. SubSeq(made[i - 1], 1, b - 1) = [k \in 1..(b - 1) |-> made[i - 1][k]]
        BY <3>3
      <4>4. SubSeq(made[i], 1, b - 1) = [k \in 1..(b - 1) |-> made[i][k]]
        BY <2>3, <4>1
      <4> QED BY <4>2, <4>3, <4>4
    <3> QED BY <2>3, <3>3, <3>4, <3>6 DEF IsStrictPrefix, IsPrefix
  <2> QED BY <2>3, <2>4
<1>2. ASSUME step = "done", Creating
      PROVE  Len(made) = Cardinality({i \in DOMAIN path : path[i] = Slash})
  <2>1. {i \in Slashes(path) : i < start} = {i \in DOMAIN path : path[i] = Slash}
    BY <1>2 DEF PathsInv, Slashes
  <2> QED BY <1>2, <2>1 DEF PathsInv, MadeInv
<1>3. step = "done" /\ task # "ask" => SafePath(ask.path) /\ ask.path = path
  BY DEF PathsInv
<1>4. ask.call \in {"open_write", "rename"} => SafePath(ask.path)
  BY <1>3 DEF PathsInv
<1>5. /\ step = "thrown" => ~SafePath(root)
      /\ step = "invalid" => ~SafePath(name) \/ (root # <<>> /\ ~SafePath(root))
  BY DEF PathsInv
<1> QED BY <1>1, <1>2, <1>3, <1>4, <1>5 DEF WritesConfined, Creating

\* For names of any length: whatever is created, written or renamed to has a safe
\* name, with its directories asked for first, and so has what open_file() reads;
\* a job fails its tests only if the name or the root is not safe.
THEOREM WritesAreConfined == PathsSpec => []WritesConfined
<1>1. PathsInit => PathsInv
  <2> SUFFICES ASSUME PathsInit PROVE PathsInv
    OBVIOUS
  <2>1. path = <<>> /\ Len(path) = 0 /\ path \in Seq(Characters)
    BY DEF PathsInit
  <2> QED BY <2>1 DEF PathsInit, PathsInv, Creating
<1>2. ASSUME PathsInv, [PathsNext]_pathVars PROVE PathsInv'
  <2>0. \A n \in Names : n \in Seq(Characters)
    <3> SUFFICES ASSUME NEW k \in 0..MaxLength, NEW n \in [1..k -> Characters]
                 PROVE  n \in Seq(Characters)
      BY DEF Names
    <3>1. k \in Nat
      BY PathsAssumption
    <3> QED BY <3>1
  <2>1. ASSUME step = "idle", NEW given \in Names, NEW n \in Names, NewTorrent(given, n)
        PROVE  PathsInv'
    BY <1>2, <2>0, <2>1, NewTorrentInv
  <2>2. CASE TestRejects \/ TestComponent \/ TestEnd
    BY <1>2, <2>2, TestRejectsInv, TestComponentInv, TestEndInv
  <2>3. CASE MakeDirectory \/ MakeDirectoryFails \/ DirectoriesMade \/ Use
    BY <1>2, <2>3, MakeDirectoryInv, MakeEndsInv, UseInv
  <2>4. CASE \/ \E c \in {"file_size", "open_read", "remove"} : AskUntested(c)
             \/ \E t \in {"read", "write"} : BeginOpen(t)
             \/ \E t \in {"rename", "move"} : BeginNamed(t)
    BY <1>2, <2>4, AskUntestedInv, BeginJobInv
  <2>5. ASSUME step = "move", NEW given \in Names, SetSaveRoot(given) PROVE PathsInv'
    BY <1>2, <2>0, <2>5, SetSaveRootInv
  <2>6. CASE UNCHANGED pathVars
    BY <1>2, <2>6 DEF pathVars, PathsInv, TestedInv, MadeInv, Creating
  <2> QED BY <1>2, <2>1, <2>2, <2>3, <2>4, <2>5, <2>6 DEF PathsNext
<1> QED BY <1>1, <1>2, WritesConfinedFollows, PTL DEF PathsSpec

----------------------------------------------------------------------------
(* PiecesTracker. *)

\* The piece of a byte, and the first byte of a piece.
PieceOf(x) == x \div PieceLength
PieceAt(p) == p * PieceLength

LEMMA PieceBorders ==
    /\ PieceLength \in Nat \ {0}
    /\ \A x \in Nat : /\ PieceOf(x) \in Nat /\ PieceAt(PieceOf(x)) <= x
                      /\ x < PieceAt(PieceOf(x)) + PieceLength
    /\ \A p \in Int : PieceAt(p) \in Int /\ PieceAt(p + 1) = PieceAt(p) + PieceLength
    /\ \A p, q \in Nat : p < q => PieceAt(p) + PieceLength <= PieceAt(q)
    /\ \A p, x \in Nat : PieceAt(p) <= x /\ x < PieceAt(p) + PieceLength => PieceOf(x) = p
<1>0. PieceLength \in Nat \ {0}
  BY TrackerAssumption
<1>1. ASSUME NEW x \in Nat
      PROVE  /\ PieceOf(x) \in Nat /\ PieceAt(PieceOf(x)) <= x
             /\ x < PieceAt(PieceOf(x)) + PieceLength
  BY <1>0 DEF PieceOf, PieceAt
<1>2. ASSUME NEW p \in Int
      PROVE  PieceAt(p) \in Int /\ PieceAt(p + 1) = PieceAt(p) + PieceLength
  BY <1>0 DEF PieceAt
<1>3. ASSUME NEW p \in Nat, NEW q \in Nat, p < q
      PROVE  PieceAt(p) + PieceLength <= PieceAt(q)
  BY <1>0, <1>3 DEF PieceAt
<1>4. ASSUME NEW p \in Nat, NEW x \in Nat, PieceAt(p) <= x, x < PieceAt(p) + PieceLength
      PROVE  PieceOf(x) = p
  BY <1>0, <1>4 DEF PieceOf, PieceAt
<1> QED BY <1>0, <1>1, <1>2, <1>3, <1>4

LEMMA Offsets ==
    ASSUME NEW l \in Seq(Nat), NEW f \in 1..Len(l)
    PROVE  /\ Offset(l, f) \in Nat /\ Total(l) \in Nat /\ l[f] \in Nat
           /\ Offset(l, f + 1) = Offset(l, f) + l[f]
           /\ Offset(l, f + 1) <= Total(l)
<1>0. Len(l) \in Nat /\ l[f] \in Nat
  OBVIOUS
<1>1. /\ f - 1 \in 0..Len(l) /\ f \in 0..Len(l) /\ (f + 1) - 1 = f /\ (Len(l) + 1) - 1 = Len(l)
      /\ Len(l) \in 0..Len(l) /\ f <= Len(l)
  BY <1>0
<1>2. /\ Sums(l) \in [0..Len(l) -> Nat] /\ Sums(l)[f] = Sums(l)[f - 1] + l[f]
  BY SumsDef
<1>3. Sums(l)[f] <= Sums(l)[Len(l)]
  BY <1>1, SumsGrow
<1> QED BY <1>0, <1>1, <1>2, <1>3 DEF Offset, Total

\* What the constructor computes for file f: its first piece, the number of its
\* pieces, and how much of the file each of them holds.
FirstOf(l, f) == MapFile(l, f, 0)
SlicesOf(l, f) == MapFile(l, f, l[f] - 1) - MapFile(l, f, 0) + 1
FilesOf(l, f) == [i \in 1..SlicesOf(l, f) |-> FirstOf(l, f) + i - 1]
SizesOf(l, f) == [i \in 1..SlicesOf(l, f) |-> SliceOf(l, FirstOf(l, f) + i - 1, f)]

\* A file with bytes starts in one piece and ends in that one or a later one.
LEMMA PiecesOfFile ==
    ASSUME NEW l \in Seq(Nat), NEW f \in 1..Len(l), l[f] > 0,
           NEW a, a = Offset(l, f), NEW e, e = Offset(l, f + 1)
    PROVE  /\ a \in Nat /\ e \in Nat /\ a < e /\ e = a + l[f]
           /\ FirstOf(l, f) = PieceOf(a) /\ SlicesOf(l, f) = PieceOf(e - 1) - PieceOf(a) + 1
           /\ SlicesOf(l, f) \in Nat \ {0}
           /\ PieceOf(a) \in Nat /\ PieceOf(e - 1) \in Nat /\ PieceOf(a) <= PieceOf(e - 1)
<1>1. /\ a \in Nat /\ l[f] \in Nat /\ e = a + l[f] /\ e <= Total(l) /\ Total(l) \in Nat
  BY Offsets
<1>2. e \in Nat /\ a < e /\ e - 1 \in Nat /\ a + 0 = a /\ a + (l[f] - 1) = e - 1
      /\ ~(a >= Total(l)) /\ ~(e - 1 >= Total(l)) /\ a <= e - 1
  BY <1>1, SMTT(30)
<1>3. FirstOf(l, f) = PieceOf(a) /\ MapFile(l, f, 0) = PieceOf(a)
  BY <1>1, <1>2 DEF FirstOf, MapFile, PieceOf, Larger
<1>4. MapFile(l, f, l[f] - 1) = PieceOf(e - 1)
  BY <1>1, <1>2, SMTT(30) DEF MapFile, PieceOf, Larger
<1>5. SlicesOf(l, f) = PieceOf(e - 1) - PieceOf(a) + 1
  BY <1>3, <1>4 DEF SlicesOf
<1> DEFINE x == PieceOf(a)
           y == PieceOf(e - 1)
<1>6. /\ x \in Nat /\ y \in Nat /\ PieceAt(x) <= a /\ e - 1 < PieceAt(y) + PieceLength
      /\ PieceAt(x) \in Int /\ PieceAt(y) \in Int /\ PieceLength \in Nat
      /\ (y < x => PieceAt(y) + PieceLength <= PieceAt(x))
  <2>1. x \in Nat /\ PieceAt(x) <= a
    BY <1>1, PieceBorders
  <2>2. y \in Nat /\ e - 1 < PieceAt(y) + PieceLength
    BY <1>2, PieceBorders
  <2> HIDE DEF x, y
  <2>3. x \in Int /\ y \in Int
    BY <2>1, <2>2
  <2> QED BY <2>1, <2>2, <2>3, PieceBorders
<1> HIDE DEF x, y
<1>7. x <= y
  BY <1>1, <1>2, <1>6, SMTT(30)
<1>8. SlicesOf(l, f) \in Nat \ {0}
  BY <1>5, <1>6, <1>7 DEF x, y
<1> QED BY <1>1, <1>2, <1>3, <1>5, <1>6, <1>7, <1>8 DEF x, y

\* How much of a file from byte a to byte e its n pieces hold, from piece c on.
Held(a, e, c, n) ==
    [i \in 1..n |-> Larger(0, Smaller(PieceAt(c + i), e) - Larger(PieceAt(c + i - 1), a))]

\* Pieces c to d of such a file: the first k of them hold it up to the end of the
\* k-th, or to its own.
LEMMA PiecesAddUp ==
    ASSUME NEW a \in Nat, NEW e \in Nat, a < e, NEW c \in Nat, NEW d \in Nat, c <= d,
           PieceAt(c) <= a, a < PieceAt(c) + PieceLength, PieceAt(d) < e,
           NEW n \in Nat \ {0}, n = d - c + 1
    PROVE  /\ Held(a, e, c, n) \in Seq(Nat) /\ Len(Held(a, e, c, n)) = n
           /\ \A k \in 1..n : Sums(Held(a, e, c, n))[k] = Smaller(PieceAt(c + k), e) - a
<1> DEFINE v == Held(a, e, c, n)
<1>1. ASSUME NEW i \in 1..n
      PROVE  /\ c + i - 1 \in Nat /\ c + i \in Nat /\ (c + i - 1) + 1 = c + i
             /\ c + i - 1 <= d /\ (i > 1 => c < c + i - 1) /\ (i = 1 => c + i - 1 = c)
  OBVIOUS
<1>2. ASSUME NEW i \in 1..n, NEW lo, lo = PieceAt(c + i - 1)
      PROVE  /\ lo \in Int /\ PieceAt(c + i) = lo + PieceLength /\ lo < e
             /\ i > 1 => a < lo
             /\ i = 1 => lo <= a /\ a < lo + PieceLength
  <2> DEFINE p == c + i - 1
  <2>1. p \in Nat /\ p \in Int /\ p <= d /\ (i > 1 => c < p) /\ (i = 1 => p = c) /\ p + 1 = c + i
    BY <1>1
  <2> HIDE DEF p
  <2>2. lo = PieceAt(p)
    BY <1>2 DEF p
  <2>3. PieceAt(p) \in Int /\ PieceAt(p + 1) = PieceAt(p) + PieceLength
    BY <2>1, PieceBorders
  <2>4. PieceAt(p) < e
    <3>1. CASE p = d
      BY <3>1
    <3>2. CASE p < d
      <4>1. PieceAt(p) + PieceLength <= PieceAt(d) /\ PieceLength \in Nat /\ PieceAt(d) \in Int
        BY <2>1, <3>2, PieceBorders
      <4> QED BY <2>3, <4>1
    <3> QED BY <2>1, <3>1, <3>2
  <2>5. i > 1 => a < PieceAt(p)
    <3> SUFFICES ASSUME i > 1 PROVE a < PieceAt(p)
      OBVIOUS
    <3>1. PieceAt(c) + PieceLength <= PieceAt(p) /\ PieceAt(c) \in Int /\ PieceLength \in Nat
      BY <2>1, PieceBorders
    <3> QED BY <2>3, <3>1
  <2> QED BY <2>1, <2>2, <2>3, <2>4, <2>5
<1>3. ASSUME NEW i \in 1..n, NEW lo, lo = PieceAt(c + i - 1)
      PROVE  /\ v[i] \in Nat
             /\ v[i] = Smaller(PieceAt(c + i), e) - (IF i = 1 THEN a ELSE lo)
  <2> DEFINE hi == PieceAt(c + i)
             b == IF i = 1 THEN a ELSE lo
             x == Smaller(hi, e)
  <2>1. /\ lo \in Int /\ hi = lo + PieceLength /\ lo < e /\ (i > 1 => a < lo)
        /\ (i = 1 => lo <= a /\ a < lo + PieceLength) /\ PieceLength \in Nat \ {0}
    BY <1>2, <1>3, PieceBorders
  <2>2. v[i] = Larger(0, x - Larger(lo, a))
    BY <1>3 DEF Held
  <2> HIDE DEF hi
  <2>3. Larger(lo, a) = b /\ b \in Int /\ b < hi /\ b < e
    <3>1. CASE i = 1
      BY <2>1, <3>1 DEF Larger
    <3>2. CASE i # 1
      <4>1. a < lo
        BY <2>1, <3>2
      <4> QED BY <2>1, <3>2, <4>1 DEF Larger
    <3> QED BY <3>1, <3>2
  <2> HIDE DEF b
  <2>4. x \in Int /\ b < x
    BY <2>1, <2>3 DEF Smaller
  <2> HIDE DEF x
  <2>5. v[i] = x - b /\ x - b \in Nat
    BY <2>2, <2>3, <2>4 DEF Larger
  <2> QED BY <2>5 DEF x, b, hi
<1>4. v \in Seq(Nat) /\ Len(v) = n
  <2>1. \A i \in 1..n : v[i] \in Nat
    BY <1>3
  <2>2. v = [i \in 1..n |-> v[i]] /\ n \in Nat
    BY DEF Held
  <2> QED BY <2>1, <2>2
<1>5. Sums(v)[0] = 0 /\ \A k \in 1..n : Sums(v)[k] = Sums(v)[k - 1] + v[k]
  BY <1>4, SumsDef
<1> DEFINE Up(k) == Sums(v)[k] = Smaller(PieceAt(c + k), e) - a
           Q == {k \in Nat : k + 1 \in 1..n => Up(k + 1)}
<1>6. 0 \in Q
  <2>1. 1 \in 1..n /\ 0 + 1 = 1 /\ 1 - 1 = 0
    OBVIOUS
  <2>2. Sums(v)[1] = 0 + v[1] /\ v[1] = Smaller(PieceAt(c + 1), e) - a /\ v[1] \in Nat
    BY <1>3, <1>5, <2>1
  <2>3. Up(1)
    BY <2>2
  <2> HIDE DEF Up
  <2> QED BY <2>1, <2>3
<1>7. ASSUME NEW i \in Nat, i \in 1..n, i + 1 \in 1..n, Up(i) PROVE Up(i + 1)
  <2> DEFINE z == i + 1
             lo == PieceAt(c + i)
             x == Smaller(PieceAt(c + z), e)
  <2>1. z \in 1..n /\ z - 1 = i /\ z # 1 /\ z > 1 /\ c + z - 1 = c + i
    BY <1>7
  <2>2. lo \in Int /\ lo < e /\ PieceAt(c + z) = lo + PieceLength /\ PieceLength \in Nat
    BY <1>2, <2>1, PieceBorders
  <2>3. Sums(v)[z] = Sums(v)[i] + v[z]
    BY <1>5, <2>1
  <2>4. v[z] = x - lo
    BY <1>3, <2>1
  <2>5. Sums(v)[i] = lo - a
    BY <1>7, <2>2 DEF Smaller
  <2>6. x \in Int
    BY <2>2 DEF Smaller
  <2> HIDE DEF z, lo, x
  <2>7. Sums(v)[z] = x - a
    BY <2>2, <2>3, <2>4, <2>5, <2>6
  <2> QED BY <2>7 DEF x, z
<1>8. ASSUME NEW k \in Nat, k \in Q PROVE k + 1 \in Q
  <2> SUFFICES ASSUME (k + 1) + 1 \in 1..n PROVE Up((k + 1) + 1)
    <3> HIDE DEF Up
    <3> QED OBVIOUS
  <2>1. k + 1 \in 1..n /\ k + 1 \in Nat
    OBVIOUS
  <2> HIDE DEF Up
  <2> QED BY <1>7, <1>8, <2>1
<1>9. \A k \in Nat : k \in Q
  <2> HIDE DEF Q
  <2> QED BY <1>6, <1>8, Induction
<1>10. ASSUME NEW k \in 1..n PROVE Up(k)
  <2>1. k - 1 \in Nat /\ (k - 1) + 1 = k
    OBVIOUS
  <2>2. k - 1 \in Q
    <3> HIDE DEF Q
    <3> QED BY <1>9, <2>1
  <2> HIDE DEF Up
  <2> QED BY <2>1, <2>2
<1> QED BY <1>4, <1>10

\* The slices of a file with bytes, as the constructor computes them.
LEMMA SizesAddUp ==
    ASSUME NEW l \in Seq(Nat), NEW f \in 1..Len(l), l[f] > 0
    PROVE  \E a, e, c, n \in Nat :
               /\ a = Offset(l, f) /\ a < e /\ e = a + l[f] /\ n # 0
               /\ PieceAt(c) <= a /\ a < PieceAt(c) + PieceLength
               /\ PieceAt(c + n - 1) < e /\ e <= PieceAt(c + n)
               /\ FilesOf(l, f) = [i \in 1..n |-> c + i - 1]
               /\ SizesOf(l, f) \in Seq(Nat) /\ Len(SizesOf(l, f)) = n
               /\ \A k \in 1..n : Sums(SizesOf(l, f))[k] = Smaller(PieceAt(c + k), e) - a
<1>0. PICK a, e, c, n \in Nat : /\ a = Offset(l, f) /\ e = Offset(l, f + 1)
                                /\ c = PieceOf(a) /\ n = SlicesOf(l, f)
  BY PiecesOfFile
<1> DEFINE d == PieceOf(e - 1)
<1>1. /\ a < e /\ e = a + l[f] /\ FirstOf(l, f) = c /\ n = d - c + 1 /\ n # 0
      /\ d \in Nat /\ c <= d /\ d = PieceOf(e - 1)
  BY <1>0, PiecesOfFile
<1> HIDE DEF d
<1>2. FilesOf(l, f) = [i \in 1..n |-> c + i - 1]
  BY <1>0, <1>1 DEF FilesOf
<1>3. SizesOf(l, f) = Held(a, e, c, n)
  <2>1. ASSUME NEW i \in 1..n
        PROVE  SliceOf(l, c + i - 1, f)
                 = Larger(0, Smaller(PieceAt(c + i), e) - Larger(PieceAt(c + i - 1), a))
    <3>1. (c + i - 1) + 1 = c + i
      OBVIOUS
    <3> QED BY <1>0, <3>1 DEF SliceOf, PieceAt
  <2> QED BY <1>0, <1>1, <2>1 DEF SizesOf, Held
<1>4. PieceAt(c) <= a /\ a < PieceAt(c) + PieceLength
  BY ONLY PieceBorders, a \in Nat, <1>0
<1>5. PieceAt(d) <= e - 1 /\ e - 1 < PieceAt(d) + PieceLength
  <2>1. a < e
    BY <1>1
  <2>2. e - 1 \in Nat
    BY ONLY <2>1, a \in Nat, e \in Nat
  <2> QED BY ONLY PieceBorders, <1>1, <2>2
<1>6. n \in Nat \ {0} /\ d \in Int /\ d = c + n - 1 /\ d + 1 = c + n
  BY ONLY <1>1, c \in Nat, n \in Nat, SMTT(30)
<1>7. PieceAt(d) \in Int /\ PieceAt(d + 1) = PieceAt(d) + PieceLength /\ PieceLength \in Nat
  BY ONLY <1>6, PieceBorders
<1>8. PieceAt(d) < e /\ e <= PieceAt(d + 1)
  BY ONLY <1>5, <1>7, e \in Nat
<1>9. a < e /\ c <= d /\ d \in Nat /\ n = d - c + 1
  BY <1>1
<1>10. /\ Held(a, e, c, n) \in Seq(Nat) /\ Len(Held(a, e, c, n)) = n
       /\ \A k \in 1..n : Sums(Held(a, e, c, n))[k] = Smaller(PieceAt(c + k), e) - a
  BY ONLY <1>4, <1>6, <1>8, <1>9, a \in Nat, e \in Nat, c \in Nat, PiecesAddUp
<1>11. /\ a = Offset(l, f) /\ a < e /\ e = a + l[f] /\ n # 0
       /\ PieceAt(c) <= a /\ a < PieceAt(c) + PieceLength
       /\ PieceAt(c + n - 1) < e /\ e <= PieceAt(c + n)
       /\ FilesOf(l, f) = [i \in 1..n |-> c + i - 1]
       /\ SizesOf(l, f) \in Seq(Nat) /\ Len(SizesOf(l, f)) = n
       /\ \A k \in 1..n : Sums(SizesOf(l, f))[k] = Smaller(PieceAt(c + k), e) - a
  BY <1>0, <1>1, <1>2, <1>3, <1>4, <1>6, <1>8, <1>10
<1> QED BY <1>11, SMTT(30)

\* Nothing adds up to nothing.
LEMMA SumsOfZeros ==
    ASSUME NEW v \in Seq(Nat), \A i \in 1..Len(v) : v[i] = 0
    PROVE  \A k \in 0..Len(v) : Sums(v)[k] = 0
<1> DEFINE Q == {k \in Nat : k \in 0..Len(v) => Sums(v)[k] = 0}
<1>1. Sums(v)[0] = 0 /\ \A k \in 1..Len(v) : Sums(v)[k] = Sums(v)[k - 1] + v[k]
  BY SumsDef
<1>2. 0 \in Q
  BY <1>1
<1>3. ASSUME NEW k \in Nat, k \in Q PROVE k + 1 \in Q
  <2> SUFFICES ASSUME k + 1 \in 0..Len(v) PROVE Sums(v)[k + 1] = 0
    OBVIOUS
  <2>1. Len(v) \in Nat /\ k + 1 \in 1..Len(v) /\ k \in 0..Len(v) /\ (k + 1) - 1 = k
    OBVIOUS
  <2>2. Sums(v)[k] = 0 /\ v[k + 1] = 0
    BY <1>3, <2>1
  <2> QED BY <1>1, <2>1, <2>2
<1>4. \A k \in Nat : k \in Q
  <2> HIDE DEF Q
  <2> QED BY <1>2, <1>3, Induction
<1> QED BY <1>4

\* An empty file may be given a piece, but no byte of it.
LEMMA SizesOfEmpty ==
    ASSUME NEW l \in Seq(Nat), NEW f \in 1..Len(l), l[f] = 0
    PROVE  \E n \in Nat, c \in Int :
               /\ FilesOf(l, f) = [i \in 1..n |-> c + i - 1]
               /\ SizesOf(l, f) \in Seq(Nat) /\ Len(SizesOf(l, f)) = n
               /\ \A k \in 0..n : Sums(SizesOf(l, f))[k] = 0
<1> DEFINE a == Offset(l, f)
           m == SlicesOf(l, f)
           c == FirstOf(l, f)
           n == IF m < 0 THEN 0 ELSE m
<1>1. a \in Nat /\ Offset(l, f + 1) = a /\ Total(l) \in Nat
  BY Offsets
<1>2. ASSUME NEW q \in Int PROVE MapFile(l, f, q) \in Int
  <2>1. PieceLength \in Nat \ {0}
    BY TrackerAssumption
  <2>2. NumPieces(l) \in Int
    BY <1>1, <2>1 DEF NumPieces
  <2>3. Larger(a + q, 0) \in Int
    BY <1>1 DEF Larger
  <2>4. Larger(a + q, 0) \div PieceLength \in Int
    BY <2>1, <2>3
  <2> QED BY <2>2, <2>4 DEF MapFile
<1>3. c \in Int /\ m \in Int
  <2>1. MapFile(l, f, 0) \in Int /\ MapFile(l, f, l[f] - 1) \in Int
    BY <1>2, SMTT(30)
  <2> QED BY <2>1 DEF FirstOf, SlicesOf
<1>4. ASSUME NEW i \in 1..m PROVE SliceOf(l, c + i - 1, f) = 0
  <2> DEFINE lo == PieceAt(c + i - 1)
             hi == PieceAt((c + i - 1) + 1)
  <2>1. c + i - 1 \in Int /\ (c + i - 1) + 1 \in Int
    BY <1>3
  <2>2. lo \in Int /\ hi \in Int
    BY <2>1, PieceBorders
  <2>3. SliceOf(l, c + i - 1, f) = Larger(0, Smaller(hi, a) - Larger(lo, a))
    BY <1>1 DEF SliceOf, PieceAt
  <2> HIDE DEF lo, hi, a
  <2>4. Smaller(hi, a) \in Int /\ Larger(lo, a) \in Int /\ Smaller(hi, a) <= a /\ a <= Larger(lo, a)
    BY <1>1, <2>2 DEF Smaller, Larger
  <2> HIDE DEF c, m
  <2>5. Larger(0, Smaller(hi, a) - Larger(lo, a)) = 0
    BY <1>1, <2>4 DEF Larger
  <2> QED BY <2>3, <2>5
<1> HIDE DEF a, m, c
<1>5. n \in Nat /\ 1..m = 1..n
  BY <1>3
<1>6. FilesOf(l, f) = [i \in 1..n |-> c + i - 1]
  BY <1>5 DEF FilesOf, m, c
<1>7. SizesOf(l, f) = [i \in 1..n |-> 0]
  BY <1>4, <1>5 DEF SizesOf, m, c
<1> HIDE DEF n
<1>8. SizesOf(l, f) \in Seq(Nat) /\ Len(SizesOf(l, f)) = n /\ \A i \in 1..n : SizesOf(l, f)[i] = 0
  BY <1>5, <1>7
<1>9. \A k \in 0..n : Sums(SizesOf(l, f))[k] = 0
  BY <1>8, SumsOfZeros
<1> QED BY <1>3, <1>5, <1>6, <1>8, <1>9

\* getSequentialDownloadedPieces() counts complete pieces, up to one that is not.
LEMMA SequentialPiecesIs ==
    ASSUME NEW f, NEW n \in Nat, NEW c \in Int, files[f] = [i \in 1..n |-> c + i - 1]
    PROVE  /\ SequentialPieces(f) \in 0..n
           /\ \A i \in 1..SequentialPieces(f) : c + i - 1 \in complete
           /\ SequentialPieces(f) < n => c + SequentialPieces(f) \notin complete
<1> DEFINE T == {i \in DOMAIN files[f] : files[f][i] \notin complete}
<1>1. /\ T = {i \in 1..n : c + i - 1 \notin complete} /\ Len(files[f]) = n
      /\ SequentialPieces(f) = IF T = {} THEN Len(files[f]) ELSE Min(T) - 1
  BY DEF SequentialPieces
<1> HIDE DEF T
<1>2. CASE T = {}
  BY <1>1, <1>2
<1>3. CASE T # {}
  <2>1. T \in SUBSET Nat
    BY <1>1
  <2>2. \E x \in T : \A y \in T : x <= y
    BY <1>3, <2>1, LeastNumber
  <2>3. Min(T) \in T /\ \A y \in T : Min(T) <= y
    BY <2>2 DEF Min
  <2> DEFINE m == Min(T)
  <2>4. m \in 1..n /\ c + m - 1 \notin complete /\ SequentialPieces(f) = m - 1
    BY <1>1, <1>3, <2>3
  <2>5. ASSUME NEW i \in 1..(m - 1) PROVE c + i - 1 \in complete
    <3>1. i \in 1..n /\ ~(m <= i)
      BY <2>4
    <3>2. i \notin T
      BY <2>3, <3>1
    <3> QED BY <1>1, <3>1, <3>2
  <2> HIDE DEF m
  <2>6. m - 1 \in 0..n /\ c + (m - 1) = c + m - 1
    BY <2>4
  <2> QED BY <2>4, <2>5, <2>6
<1> QED BY <1>2, <1>3

\* The longest of a set of lengths.
LEMMA MaxIs ==
    ASSUME NEW S \in SUBSET Int, NEW K \in S, \A y \in S : y <= K
    PROVE  Max(S) = K
<1>1. Max(S) \in S /\ \A y \in S : Max(S) >= y
  BY DEF Max
<1>2. Max(S) >= K /\ Max(S) <= K
  BY <1>1
<1>3. Max(S) \in Int /\ K \in Int
  BY <1>1
<1> QED BY ONLY <1>2, <1>3

\* A file from byte a to byte e with n pieces from c on: with the first m of them
\* in done, and not the next, it can be played to the end of the m-th and no further.
LEMMA Playable ==
    ASSUME NEW a \in Nat, NEW e \in Nat, a < e, NEW c \in Nat, NEW n \in Nat, n # 0,
           PieceAt(c) <= a, a < PieceAt(c) + PieceLength,
           PieceAt(c + n - 1) < e, e <= PieceAt(c + n),
           NEW done, NEW m \in 0..n, \A i \in 1..m : c + i - 1 \in done,
           m < n => c + m \notin done,
           NEW K, m = 0 => K = 0, m > 0 => K = Smaller(PieceAt(c + m), e) - a
    PROVE  /\ K \in 0..(e - a)
           /\ \A b \in 0..(K - 1) : PieceOf(a + b) \in done
           /\ \A k \in 0..(e - a) : (\A b \in 0..(k - 1) : PieceOf(a + b) \in done) => k <= K
<1> DEFINE lo == PieceAt(c)
           hi == PieceAt(c + m)
<1>1. /\ PieceLength \in Nat \ {0} /\ lo \in Int /\ hi \in Int
      /\ m = 0 => hi = lo
      /\ m > 0 => a < hi
      /\ m = n => e <= hi
      /\ m < n => hi < e
  <2>1. PieceLength \in Nat \ {0}
    BY PieceBorders
  <2>2. c \in Int /\ c + m \in Int /\ c + m \in Nat
    OBVIOUS
  <2>3. lo \in Int /\ hi \in Int
    BY <2>2, PieceBorders
  <2>4. m = 0 => hi = lo
    OBVIOUS
  <2>5. ASSUME m > 0 PROVE a < hi
    <3>1. c < c + m
      BY <2>5
    <3>2. lo + PieceLength <= hi
      BY <2>2, <3>1, PieceBorders
    <3> HIDE DEF lo, hi
    <3>3. a < lo + PieceLength
      BY DEF lo
    <3> QED BY ONLY <2>1, <2>3, <3>2, <3>3, a \in Nat
  <2>6. ASSUME m < n PROVE hi < e
    <3> DEFINE z == c + n - 1
    <3>1. z \in Nat /\ z \in Int /\ PieceAt(z) < e /\ (c + m < z \/ c + m = z)
      BY <2>6
    <3> HIDE DEF z
    <3>2. CASE c + m = z
      BY <3>1, <3>2
    <3>3. CASE c + m < z
      <4>1. hi + PieceLength <= PieceAt(z) /\ PieceAt(z) \in Int
        BY ONLY <2>2, <3>1, <3>3, PieceBorders
      <4> HIDE DEF hi
      <4> QED BY ONLY <2>1, <2>3, <3>1, <4>1, e \in Nat
    <3> QED BY <3>1, <3>2, <3>3
  <2>7. m = n => e <= hi
    OBVIOUS
  <2> QED BY <2>1, <2>3, <2>4, <2>5, <2>6, <2>7
<1>2. /\ K \in 0..(e - a)
      /\ m = n => K = e - a
      /\ m > 0 => a + K <= hi
      /\ m < n => lo <= a + K /\ a + K < e /\ hi <= a + K /\ a + K < hi + PieceLength
  <2>1. m = 0 => K = 0
    OBVIOUS
  <2>2. m > 0 => K = Smaller(hi, e) - a
    OBVIOUS
  <2>3. lo <= a /\ a < lo + PieceLength
    OBVIOUS
  <2> HIDE DEF lo, hi
  <2>4. m \in Nat /\ n \in Nat /\ n # 0 /\ m <= n /\ a < e /\ a \in Nat /\ e \in Nat
    OBVIOUS
  <2>5. CASE m = 0
    BY ONLY <1>1, <2>1, <2>3, <2>4, <2>5
  <2>6. CASE m > 0 /\ m = n
    <3>1. K = e - a
      BY ONLY <1>1, <2>2, <2>4, <2>6 DEF Smaller
    <3> QED BY ONLY <1>1, <2>4, <2>6, <3>1
  <2>7. CASE m > 0 /\ m < n
    <3>1. K = hi - a
      BY ONLY <1>1, <2>2, <2>4, <2>7 DEF Smaller
    <3> QED BY ONLY <1>1, <2>3, <2>4, <2>7, <3>1
  <2> QED BY <2>4, <2>5, <2>6, <2>7
<1>3. ASSUME NEW b \in 0..(K - 1) PROVE PieceOf(a + b) \in done
  <2> DEFINE x == a + b
             p == PieceOf(x)
  <2>1. m > 0 /\ x \in Nat /\ a <= x /\ x < hi
    <3>1. K \in Int /\ K > 0 /\ b \in Nat /\ b < K
      BY <1>2
    <3>2. m > 0
      BY <3>1
    <3> HIDE DEF hi
    <3> QED BY <1>1, <1>2, <3>1, <3>2
  <2> HIDE DEF x
  <2>2. p \in Nat /\ p \in Int /\ PieceAt(p) <= x /\ x < PieceAt(p) + PieceLength
    BY ONLY <2>1, PieceBorders
  <2> HIDE DEF p
  <2>3. PieceAt(p) \in Int
    BY ONLY <2>2, PieceBorders
  <2>4. ~(p < c)
    <3> SUFFICES ASSUME p < c PROVE FALSE
      OBVIOUS
    <3>1. PieceAt(p) + PieceLength <= lo
      BY <2>2, PieceBorders
    <3>2. lo <= a
      OBVIOUS
    <3> HIDE DEF lo
    <3> QED BY ONLY <1>1, <2>1, <2>2, <2>3, <3>1, <3>2, a \in Nat
  <2>5. ~(c + m <= p)
    <3> SUFFICES ASSUME c + m <= p PROVE FALSE
      OBVIOUS
    <3>1. hi <= PieceAt(p)
      <4>1. c + m \in Nat /\ (c + m = p \/ c + m < p)
        BY <2>2
      <4>2. CASE c + m = p
        BY <2>3, <4>2
      <4>3. CASE c + m < p
        <5>1. hi + PieceLength <= PieceAt(p)
          BY ONLY <2>2, <4>1, <4>3, PieceBorders
        <5> HIDE DEF hi
        <5> QED BY ONLY <1>1, <2>3, <5>1
      <4> QED BY <4>1, <4>2, <4>3
    <3> HIDE DEF hi
    <3> QED BY ONLY <1>1, <2>1, <2>2, <2>3, <3>1
  <2>6. p - c + 1 \in 1..m /\ c + (p - c + 1) - 1 = p
    BY <2>2, <2>4, <2>5
  <2>7. p \in done
    BY <2>6
  <2> QED BY <2>7 DEF p, x
<1>4. ASSUME NEW k \in 0..(e - a), \A b \in 0..(k - 1) : PieceOf(a + b) \in done
      PROVE  k <= K
  <2>1. CASE m = n
    BY <1>2, <2>1
  <2>2. CASE m < n
    <3> SUFFICES ASSUME ~(k <= K) PROVE FALSE
      OBVIOUS
    <3>1. K \in Nat /\ K \in 0..(k - 1)
      BY <1>2
    <3>2. PieceOf(a + K) \in done
      BY <1>4, <3>1
    <3>3. a + K \in Nat /\ c + m \in Nat /\ hi <= a + K /\ a + K < hi + PieceLength
      BY <1>2, <2>2, <3>1
    <3>4. PieceOf(a + K) = c + m
      BY ONLY <3>3, PieceBorders
    <3> QED BY <2>2, <3>2, <3>4
  <2> QED BY <2>1, <2>2
<1> QED BY <1>2, <1>3, <1>4

\* The inductive invariant: the constructor's tables are those of the layout.
TrackerInv ==
    /\ layout \in Seq(Nat)
    /\ \A f \in 1..Len(layout) : files[f] = FilesOf(layout, f) /\ sizes[f] = SizesOf(layout, f)

LEMMA TrackerInvPrimed ==
    TrackerInv' = (/\ layout' \in Seq(Nat)
                   /\ \A f \in 1..Len(layout') : /\ files'[f] = FilesOf(layout', f)
                                                 /\ sizes'[f] = SizesOf(layout', f))
BY DEF TrackerInv, FilesOf, SizesOf, FirstOf, SlicesOf, MapFile, SliceOf, Offset, Total,
       NumPieces, Sums, Larger, Smaller

LEMMA TrackInv ==
    ASSUME NEW m \in 1..MaxFiles, NEW l \in [1..m -> 0..MaxFileSize], Track(l)
    PROVE  TrackerInv'
<1>1. m \in Nat /\ MaxFileSize \in Nat
  BY TrackerAssumption
<1>2. l \in Seq(Nat) /\ Len(l) = m /\ DOMAIN l = 1..m
  BY <1>1
<1>3. layout' = l
  BY DEF Track
<1>4. files' = [f \in DOMAIN l |-> FilesOf(l, f)]
  BY DEF Track, FilesOf, FirstOf, SlicesOf
<1>5. sizes' = [f \in DOMAIN l |-> SizesOf(l, f)]
  BY DEF Track, SizesOf, FirstOf, SlicesOf
<1>6. ASSUME NEW f \in 1..Len(l)
      PROVE  files'[f] = FilesOf(l, f) /\ sizes'[f] = SizesOf(l, f)
  BY <1>2, <1>4, <1>5
<1> QED BY <1>2, <1>3, <1>6, TrackerInvPrimed

LEMMA SequentialFollows == TrackerInv => SequentialIsPlayable
<1> SUFFICES ASSUME TrackerInv, NEW f \in DOMAIN layout
             PROVE  SequentialBytes(f)
                      = Max({k \in 0..layout[f] : \A b \in 0..(k - 1) :
                                (Offset(layout, f) + b) \div PieceLength \in complete})
  BY DEF SequentialIsPlayable
<1> DEFINE a == Offset(layout, f)
           m == SequentialPieces(f)
           Plays(k) == \A b \in 0..(k - 1) : PieceOf(a + b) \in complete
           S == {k \in 0..layout[f] : Plays(k)}
           K == SequentialBytes(f)
<1>1. /\ layout \in Seq(Nat) /\ f \in 1..Len(layout) /\ layout[f] \in Nat
      /\ files[f] = FilesOf(layout, f) /\ sizes[f] = SizesOf(layout, f)
  BY DEF TrackerInv
<1>2. a \in Nat
  BY <1>1, Offsets
<1>3. K = Sums(SizesOf(layout, f))[m]
  BY <1>1 DEF SequentialBytes
<1>4. S \in SUBSET Int
  OBVIOUS
<1>5. SUFFICES K \in S /\ \A k \in S : k <= K
  <2>1. Max(S) = K
    <3> HIDE DEF S, K
    <3> QED BY <1>4, <1>5, MaxIs
  <2> QED BY <2>1 DEF PieceOf
<1>6. CASE layout[f] = 0
  <2>1. PICK n \in Nat, c \in Int :
               /\ FilesOf(layout, f) = [i \in 1..n |-> c + i - 1]
               /\ SizesOf(layout, f) \in Seq(Nat) /\ Len(SizesOf(layout, f)) = n
               /\ \A k \in 0..n : Sums(SizesOf(layout, f))[k] = 0
    BY <1>1, <1>6, SizesOfEmpty
  <2>2. m \in 0..n
    BY <1>1, <2>1, SequentialPiecesIs
  <2>3. K = 0
    BY <1>3, <2>1, <2>2
  <2>4. S = {0}
    BY <1>6
  <2> HIDE DEF S, K
  <2> QED BY <2>3, <2>4
<1>7. CASE layout[f] > 0
  <2> HIDE DEF S, K, m
  <2>0. a = Offset(layout, f)
    OBVIOUS
  <2> HIDE DEF a
  <2>1. PICK x, e, c, n \in Nat :
            /\ x = Offset(layout, f) /\ x < e /\ e = x + layout[f] /\ n # 0
            /\ PieceAt(c) <= x /\ x < PieceAt(c) + PieceLength
            /\ PieceAt(c + n - 1) < e /\ e <= PieceAt(c + n)
            /\ FilesOf(layout, f) = [i \in 1..n |-> c + i - 1]
            /\ SizesOf(layout, f) \in Seq(Nat) /\ Len(SizesOf(layout, f)) = n
            /\ \A k \in 1..n : Sums(SizesOf(layout, f))[k] = Smaller(PieceAt(c + k), e) - x
    BY ONLY <1>1, <1>7, SizesAddUp, Zenon
  <2>2. /\ m \in 0..n /\ \A i \in 1..m : c + i - 1 \in complete
        /\ m < n => c + m \notin complete
    <3>1. files[f] = [i \in 1..n |-> c + i - 1] /\ c \in Int
      BY <1>1, <2>1
    <3> QED BY ONLY <3>1, n \in Nat, SequentialPiecesIs DEF m
  <2>3. (m = 0 => K = 0) /\ (m > 0 => K = Smaller(PieceAt(c + m), e) - x)
    <3>1. Sums(SizesOf(layout, f))[0] = 0
      BY <2>1, SumsDef
    <3>2. m > 0 => m \in 1..n
      BY <2>1, <2>2
    <3> QED BY <1>3, <2>1, <3>1, <3>2
  <2>4. /\ K \in 0..(e - x)
        /\ \A b \in 0..(K - 1) : PieceOf(x + b) \in complete
        /\ \A k \in 0..(e - x) : (\A b \in 0..(k - 1) : PieceOf(x + b) \in complete) => k <= K
    <3>1. /\ x \in Nat /\ e \in Nat /\ c \in Nat /\ n \in Nat /\ x < e /\ n # 0
          /\ PieceAt(c) <= x /\ x < PieceAt(c) + PieceLength
          /\ PieceAt(c + n - 1) < e /\ e <= PieceAt(c + n)
      BY <2>1
    <3> QED BY ONLY <3>1, <2>2, <2>3, Playable
  <2>5. e - x = layout[f] /\ x = a
    BY ONLY <1>1, <2>0, <2>1
  <2>6. ASSUME NEW k PROVE k \in S <=> k \in 0..layout[f] /\ Plays(k)
    BY DEF S
  <2> QED BY <2>4, <2>5, <2>6
<1> QED BY <1>1, <1>6, <1>7

\* SequentialIsPlayable for every layout and piece length: the length that
\* getSequentialDownloadedBytes() reports is the longest beginning of the file
\* whose bytes are all in complete pieces, whatever pieces were completed or lost
\* since the tracker was made.
THEOREM SequentialPlays == TrackerSpec => []SequentialIsPlayable
<1>1. TrackerInit => TrackerInv
  BY DEF TrackerInit, TrackerInv
<1>2. TrackerInv /\ [TrackerNext]_trackerVars => TrackerInv'
  <2> SUFFICES ASSUME TrackerInv, [TrackerNext]_trackerVars PROVE TrackerInv'
    OBVIOUS
  <2>1. ASSUME NEW m \in 1..MaxFiles, NEW l \in [1..m -> 0..MaxFileSize], Track(l)
        PROVE  TrackerInv'
    BY <2>1, TrackInv
  <2>2. ASSUME UNCHANGED <<layout, files, sizes>> PROVE TrackerInv'
    BY <2>2, TrackerInvPrimed DEF TrackerInv
  <2> QED BY <2>1, <2>2 DEF TrackerNext, SetComplete, trackerVars
<1> QED BY <1>1, <1>2, SequentialFollows, PTL DEF TrackerSpec
=============================================================================
