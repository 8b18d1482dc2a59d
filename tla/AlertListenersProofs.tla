------------------------ MODULE AlertListenersProofs ------------------------
(***************************************************************************)
(* Proofs that no registration of an alert listener is lost, that alerts   *)
(* are delivered once, and that DHT requests catch their answers and leave *)
(* no listener behind, for any listeners, requests and alert types.        *)
(***************************************************************************)
EXTENDS AlertListeners, FiniteSetTheorems, FunctionTheorems, TLAPS

USE ListenersAssumption

----------------------------------------------------------------------------
(* Trees. *)

\* Sets of numbers have a least member, which gives induction as a statement
\* about the set of numbers something holds for.
LEMMA LeastNumber ==
    ASSUME NEW T \in SUBSET Nat, T # {}
    PROVE  \E x \in T : \A y \in T : x <= y
<1> DEFINE R == OpToRel(<, Nat)
<1>1. IsWellFoundedOn(R, Nat)
  BY NatLessThanWellFounded
<1> HIDE DEF R
<1>2. PICK x \in T : \A y \in T : ~(<<y, x>> \in R)
  BY <1>1, WFMin
<1>3. \A y \in Nat : y < x => <<y, x>> \in R
  BY DEF R, OpToRel
<1>4. ASSUME NEW y \in T PROVE x <= y
  <2>1. x \in Nat /\ y \in Nat /\ ~(y < x)
    BY <1>2, <1>3
  <2> QED BY <2>1
<1> QED BY <1>4

LEMMA Induction ==
    ASSUME NEW S, 1 \in S, \A n \in Nat \ {0} : n \in S => n + 1 \in S
    PROVE  \A n \in Nat \ {0} : n \in S
<1> DEFINE T == {n \in Nat \ {0} : n \notin S}
<1>1. SUFFICES ASSUME T # {} PROVE FALSE
  OBVIOUS
<1>2. PICK x \in T : \A y \in T : x <= y
  BY <1>1, LeastNumber
<1>3. x # 1 /\ x - 1 \in Nat \ {0}
  OBVIOUS
<1>4. x - 1 \in T
  BY <1>3
<1> QED BY <1>2, <1>4

\* The recursive definition of TreesOf defines it.
LEMMA TreesOfDef ==
    TreesOf = [n \in 1..MaxRegs |-> IF n = 1 THEN Listeners ELSE TreesOf[n - 1] \X Listeners]
<1> DEFINE Grows(f, n) == f[n] = IF n = 1 THEN Listeners ELSE f[n - 1] \X Listeners
           Defines(f, m) == /\ f = [n \in 1..m |-> f[n]]
                            /\ \A n \in 1..m : Grows(f, n)
           S == {m \in Nat \ {0} : \E f : Defines(f, m)}
<1>1. 1 \in S
  <2> DEFINE f == [n \in 1..1 |-> Listeners]
  <2>1. Defines(f, 1)
    OBVIOUS
  <2> HIDE DEF Defines, f
  <2> QED BY <2>1
<1>2. ASSUME NEW m \in Nat \ {0}, m \in S PROVE m + 1 \in S
  <2>1. PICK f : Defines(f, m)
    BY <1>2
  <2> DEFINE g == [n \in 1..(m + 1) |-> IF n = m + 1 THEN f[m] \X Listeners ELSE f[n]]
  <2>2. ASSUME NEW n \in 1..(m + 1) PROVE Grows(g, n)
    <3>1. CASE n = m + 1
      BY <3>1
    <3>2. CASE n # m + 1
      <4>1. n \in 1..m
        BY <3>2
      <4>2. Grows(f, n)
        <5> HIDE DEF Grows
        <5> QED BY <2>1, <4>1
      <4>3. g[n] = f[n] /\ (n # 1 => g[n - 1] = f[n - 1])
        BY <4>1
      <4> QED BY <4>2, <4>3
    <3> QED BY <3>1, <3>2
  <2>3. Defines(g, m + 1)
    <3> HIDE DEF Grows
    <3> QED BY <2>2
  <2> HIDE DEF Defines, g
  <2> QED BY <2>3
<1>3. \E f : Defines(f, MaxRegs)
  <2>1. CASE MaxRegs = 0
    <3> DEFINE f == [n \in 1..0 |-> Listeners]
    <3>1. Defines(f, 0)
      OBVIOUS
    <3> HIDE DEF Defines, f
    <3> QED BY <2>1, <3>1
  <2>2. CASE MaxRegs # 0
    <3>1. \A n \in Nat \ {0} : n \in S
      <4> HIDE DEF S
      <4> QED BY <1>1, <1>2, Induction
    <3> HIDE DEF Defines
    <3> QED BY <2>2, <3>1
  <2> QED BY <2>1, <2>2
<1> DEFINE D(f) == [n \in 1..MaxRegs |-> IF n = 1 THEN Listeners ELSE f[n - 1] \X Listeners]
<1>4. PICK f : Defines(f, MaxRegs)
  BY <1>3
<1>5. f = D(f)
  BY <1>4
<1>6. TreesOf = CHOOSE g : g = D(g)
  BY DEF TreesOf
<1> HIDE DEF D
<1>7. TreesOf = D(TreesOf)
  BY <1>5, <1>6
<1> QED BY <1>7 DEF D

\* Trees of two listeners or more are pairs of a smaller tree and a listener.
LEMMA Pairs ==
    /\ TreesOf[1] = Listeners
    /\ \A n \in 2..MaxRegs : TreesOf[n] = TreesOf[n - 1] \X Listeners
  BY TreesOfDef

LEMMA PairParts ==
    ASSUME NEW n \in 2..MaxRegs, NEW t \in TreesOf[n]
    PROVE  /\ t = <<t[1], t[2]>> /\ t[1] \in TreesOf[n - 1] /\ t[2] \in Listeners
           /\ IsMulticaster(t) /\ t # Null
<1>1. t \in TreesOf[n - 1] \X Listeners
  BY Pairs
<1>2. t \notin Listeners \cup {Null}
  OBVIOUS
<1> QED BY <1>1, <1>2 DEF IsMulticaster

LEMMA InTrees ==
    /\ Null \in Trees /\ Listeners \subseteq Trees
    /\ \A n \in 1..MaxRegs : TreesOf[n] \subseteq Trees
    /\ \A t \in Trees : t = Null \/ \E n \in 1..MaxRegs : t \in TreesOf[n]
<1>1. 1 \in 1..MaxRegs
  OBVIOUS
<1> QED BY <1>1, Pairs DEF Trees

\* A tree has one size.
LEMMA SizesApart ==
    \A m, n \in 1..MaxRegs : m # n => TreesOf[m] \cap TreesOf[n] = {}
<1> DEFINE S == {m \in Nat \ {0} :
                   \A n \in 1..MaxRegs : m < n => TreesOf[m] \cap TreesOf[n] = {}}
<1>1. 1 \in S
  BY Pairs
<1>2. ASSUME NEW m \in Nat \ {0}, m \in S PROVE m + 1 \in S
  <2> SUFFICES ASSUME NEW n \in 1..MaxRegs, m + 1 < n,
                      NEW t \in TreesOf[m + 1], t \in TreesOf[n]
               PROVE  FALSE
    OBVIOUS
  <2>1. m + 1 \in 2..MaxRegs /\ n \in 2..MaxRegs /\ n - 1 \in 1..MaxRegs /\ m < n - 1
    OBVIOUS
  <2>2. t[1] \in TreesOf[m] /\ t[1] \in TreesOf[n - 1]
    BY <2>1, PairParts
  <2> QED BY <1>2, <2>1, <2>2
<1>3. \A m \in Nat \ {0} : m \in S
  <2> HIDE DEF S
  <2> QED BY <1>1, <1>2, Induction
<1> QED BY <1>3

\* A function of trees may be defined by what it is for a listener and by what
\* it is for a pair, given what it is for the pair's tree.
Computes(f, b, c) ==
    /\ \A t \in Listeners \cup {Null} : f[t] = b[t]
    /\ \A n \in 2..MaxRegs : \A t \in TreesOf[n] : f[t] = c[<<t, f[t[1]]>>]

LEMMA TreeRecursion ==
    ASSUME NEW V, NEW b \in [Listeners \cup {Null} -> V], NEW c \in [Trees \X V -> V]
    PROVE  \E f \in [Trees -> V] : Computes(f, b, c)
<1> DEFINE Base(f) == \A t \in Listeners \cup {Null} : f[t] = b[t]
           Size(f, n) == \A t \in TreesOf[n] : f[t] = c[<<t, f[t[1]]>>]
           UpTo(f, m) == Base(f) /\ \A n \in 2..m : Size(f, n)
           S == {m \in Nat \ {0} : m <= MaxRegs => \E f \in [Trees -> V] : UpTo(f, m)}
<1>1. 1 \in S
  <2> DEFINE f == [t \in Trees |-> IF t \in Listeners \cup {Null} THEN b[t] ELSE b[Null]]
  <2>1. f \in [Trees -> V] /\ Base(f)
    BY InTrees
  <2>2. UpTo(f, 1)
    BY <2>1
  <2> HIDE DEF f, UpTo
  <2> QED BY <2>1, <2>2
<1>2. ASSUME NEW m \in Nat \ {0}, m \in S PROVE m + 1 \in S
  <2> SUFFICES ASSUME m + 1 <= MaxRegs PROVE \E f \in [Trees -> V] : UpTo(f, m + 1)
    <3> HIDE DEF UpTo
    <3> QED OBVIOUS
  <2>1. PICK f \in [Trees -> V] : UpTo(f, m)
    <3> HIDE DEF UpTo
    <3> QED BY <1>2
  <2> DEFINE g == [t \in Trees |-> IF t \in TreesOf[m + 1] THEN c[<<t, f[t[1]]>>] ELSE f[t]]
  <2>2. m \in 1..MaxRegs /\ m + 1 \in 2..MaxRegs
    OBVIOUS
  <2>3. \A t \in TreesOf[m + 1] : t \in Trees /\ t[1] \in Trees
    BY <2>2, PairParts, InTrees
  <2>4. g \in [Trees -> V]
    BY <2>3
  <2>5. Base(g)
    <3>1. \A t \in Listeners \cup {Null} : t \notin TreesOf[m + 1] /\ t \in Trees
      BY <2>2, InTrees
    <3> QED BY <2>1, <3>1
  <2>6. ASSUME NEW n \in 2..(m + 1) PROVE Size(g, n)
    <3> SUFFICES ASSUME NEW t \in TreesOf[n] PROVE g[t] = c[<<t, g[t[1]]>>]
      OBVIOUS
    <3>1. n \in 2..MaxRegs /\ n - 1 \in 1..MaxRegs /\ n - 1 # m + 1
      BY <2>2
    <3>2. t \in Trees /\ t[1] \in TreesOf[n - 1] /\ t[1] \in Trees
      BY <3>1, PairParts, InTrees
    <3>3. t[1] \notin TreesOf[m + 1]
      BY <2>2, <3>1, <3>2, SizesApart
    <3>4. g[t[1]] = f[t[1]]
      BY <3>2, <3>3
    <3>5. CASE n = m + 1
      BY <3>2, <3>4, <3>5
    <3>6. CASE n # m + 1
      <4>1. n \in 2..m /\ t \notin TreesOf[m + 1]
        BY <2>2, <3>1, <3>6, SizesApart
      <4>2. f[t] = c[<<t, f[t[1]]>>]
        BY <2>1, <4>1
      <4> QED BY <3>2, <3>4, <4>1, <4>2
    <3> QED BY <3>5, <3>6
  <2>7. UpTo(g, m + 1)
    <3> HIDE DEF Size, Base, g
    <3> QED BY <2>5, <2>6
  <2> HIDE DEF g, UpTo
  <2> QED BY <2>4, <2>7
<1>3. \A m \in Nat \ {0} : m \in S
  <2> HIDE DEF S
  <2> QED BY <1>1, <1>2, Induction
<1>4. PICK f \in [Trees -> V] : UpTo(f, MaxRegs)
  <2> HIDE DEF UpTo
  <2> QED BY <1>3
<1> QED BY <1>4 DEF Computes

\* What the recursive definition of Leaves computes.
LEMMA LeavesDef ==
    /\ Leaves(Null) = <<>> /\ \A l \in Listeners : Leaves(l) = <<l>>
    /\ \A n \in 2..MaxRegs : \A t \in TreesOf[n] : Leaves(t) = Leaves(t[1]) \o <<t[2]>>
    /\ \A t \in Trees : Leaves(t) \in Seq(Listeners)
<1> DEFINE D(f) == [t \in Trees |-> IF t = Null THEN <<>>
                                   ELSE IF ~IsMulticaster(t) THEN <<t>>
                                   ELSE f[t[1]] \o f[t[2]]]
           V == Seq(Listeners)
           b == [t \in Listeners \cup {Null} |-> IF t = Null THEN <<>> ELSE <<t>>]
           c == [x \in Trees \X V |-> IF x[1][2] \in Listeners THEN x[2] \o <<x[1][2]>> ELSE <<>>]
<1>1. b \in [Listeners \cup {Null} -> V] /\ c \in [Trees \X V -> V]
  OBVIOUS
<1>2. PICK f \in [Trees -> V] : Computes(f, b, c)
  <2> HIDE DEF b, c, V
  <2> QED BY <1>1, TreeRecursion
<1>3. ASSUME NEW n \in 2..MaxRegs, NEW t \in TreesOf[n]
      PROVE  /\ t \in Trees /\ t[1] \in Trees /\ t[2] \in Listeners /\ t[2] \in Trees
             /\ IsMulticaster(t) /\ t # Null
  <2>1. n - 1 \in 1..MaxRegs /\ n \in 1..MaxRegs
    OBVIOUS
  <2> QED BY <2>1, PairParts, InTrees
<1>4. f = D(f)
  <2>1. ASSUME NEW t \in Trees PROVE f[t] = D(f)[t]
    <3>1. CASE t \in Listeners \cup {Null}
      BY <1>2, <3>1 DEF IsMulticaster, Computes
    <3>2. CASE t \notin Listeners \cup {Null}
      <4>1. PICK n \in 2..MaxRegs : t \in TreesOf[n]
        BY <3>2, InTrees, Pairs
      <4>2. f[t] = f[t[1]] \o <<t[2]>>
        <5>1. t \in Trees /\ f[t[1]] \in V /\ t[2] \in Listeners
          BY <1>2, <1>3, <4>1
        <5>2. f[t] = c[<<t, f[t[1]]>>]
          BY <1>2, <4>1 DEF Computes
        <5> HIDE DEF V
        <5>3. c[<<t, f[t[1]]>>] = f[t[1]] \o <<t[2]>>
          BY <5>1
        <5> QED BY <5>2, <5>3
      <4>3. f[t[2]] = <<t[2]>>
        <5>1. t[2] \in Listeners /\ t[2] # Null
          BY <1>3, <4>1
        <5>2. f[t[2]] = b[t[2]]
          BY <1>2, <5>1 DEF Computes
        <5> QED BY <5>1, <5>2
      <4> QED BY <1>3, <4>1, <4>2, <4>3
    <3> QED BY <3>1, <3>2
  <2> QED BY <2>1
<1> DEFINE leaves == CHOOSE g : g = D(g)
<1>5. leaves = D(leaves)
  <2> HIDE DEF D
  <2> QED BY <1>4
<1>6. \A t \in Trees : Leaves(t) = leaves[t]
  BY DEF Leaves
<1> HIDE DEF leaves
<1>7. \A t \in Trees : Leaves(t) = IF t = Null THEN <<>>
                                   ELSE IF ~IsMulticaster(t) THEN <<t>>
                                   ELSE leaves[t[1]] \o leaves[t[2]]
  BY <1>5, <1>6
<1>8. Leaves(Null) = <<>> /\ \A l \in Listeners : Leaves(l) = <<l>>
  BY <1>7, InTrees DEF IsMulticaster
<1>9. ASSUME NEW n \in 2..MaxRegs, NEW t \in TreesOf[n] PROVE Leaves(t) = Leaves(t[1]) \o <<t[2]>>
  BY <1>3, <1>6, <1>7, <1>8
<1> HIDE DEF D, b, c, V
<1>a. /\ \A l \in Listeners : <<l>> \in V
      /\ \A s \in V, l \in Listeners : s \o <<l>> \in V
      /\ <<>> \in V
  BY DEF V
<1> DEFINE S == {n \in Nat \ {0} : n <= MaxRegs => \A t \in TreesOf[n] : Leaves(t) \in V}
<1>10. 1 \in S
  BY <1>8, <1>a, Pairs
<1>11. ASSUME NEW n \in Nat \ {0}, n \in S PROVE n + 1 \in S
  <2> SUFFICES ASSUME n + 1 <= MaxRegs, NEW t \in TreesOf[n + 1] PROVE Leaves(t) \in V
    OBVIOUS
  <2>1. n + 1 \in 2..MaxRegs /\ t[1] \in TreesOf[n] /\ t[2] \in Listeners
    BY PairParts
  <2>2. Leaves(t[1]) \in V
    BY <1>11, <2>1
  <2> QED BY <1>9, <1>a, <2>1, <2>2
<1>12. \A n \in Nat \ {0} : n \in S
  <2> HIDE DEF S
  <2> QED BY <1>10, <1>11, Induction
<1>13. \A t \in Trees : Leaves(t) \in V
  <2> SUFFICES ASSUME NEW t \in Trees, NEW n \in 1..MaxRegs, t \in TreesOf[n]
               PROVE  Leaves(t) \in V
    BY <1>8, <1>a, InTrees
  <2> QED BY <1>12
<1> QED BY <1>8, <1>9, <1>13 DEF V

\* A tree has as many leaves as its size says.
LEMMA LeavesLen == \A n \in 1..MaxRegs : \A t \in TreesOf[n] : Len(Leaves(t)) = n
<1> DEFINE S == {n \in Nat \ {0} : n <= MaxRegs => \A t \in TreesOf[n] : Len(Leaves(t)) = n}
<1>1. 1 \in S
  BY LeavesDef, Pairs
<1>2. ASSUME NEW n \in Nat \ {0}, n \in S PROVE n + 1 \in S
  <2> SUFFICES ASSUME n + 1 <= MaxRegs, NEW t \in TreesOf[n + 1] PROVE Len(Leaves(t)) = n + 1
    OBVIOUS
  <2>1. n + 1 \in 2..MaxRegs /\ n \in 1..MaxRegs /\ t[1] \in TreesOf[n] /\ t[2] \in Listeners
    BY PairParts
  <2>2. Len(Leaves(t[1])) = n /\ Leaves(t[1]) \in Seq(Listeners)
    BY <1>2, <2>1, LeavesDef, InTrees
  <2>3. Leaves(t) = Leaves(t[1]) \o <<t[2]>>
    BY <2>1, LeavesDef
  <2> QED BY <2>1, <2>2, <2>3
<1>3. \A n \in Nat \ {0} : n \in S
  <2> HIDE DEF S
  <2> QED BY <1>1, <1>2, Induction
<1> QED BY <1>3

----------------------------------------------------------------------------
(* Registrations in order, and how many a listener has. *)

LEMMA LatestIsLast ==
    ASSUME NEW s \in Seq(Listeners), NEW x, \E i \in DOMAIN s : s[i] = x
    PROVE  /\ Latest(s, x) \in DOMAIN s /\ s[Latest(s, x)] = x
           /\ \A j \in DOMAIN s : s[j] = x => j <= Latest(s, x)
<1> DEFINE Is(i) == s[i] = x /\ \A j \in DOMAIN s : s[j] = x => j <= i
           T == {Len(s) - i : i \in {j \in 1..Len(s) : s[j] = x}}
<1>1. T \in SUBSET Nat /\ T # {}
  OBVIOUS
<1>2. PICK m \in T : \A y \in T : m <= y
  <2> HIDE DEF T
  <2> QED BY <1>1, LeastNumber
<1>3. PICK i \in 1..Len(s) : m = Len(s) - i /\ s[i] = x
  BY <1>2
<1>4. ASSUME NEW j \in DOMAIN s, s[j] = x PROVE j <= i
  <2>1. Len(s) - j \in T /\ j \in 1..Len(s)
    BY <1>4
  <2>2. m <= Len(s) - j
    <3> HIDE DEF T
    <3> QED BY <1>2, <2>1
  <2> QED BY <1>3, <2>1, <2>2
<1>5. \E k \in DOMAIN s : Is(k)
  <2>1. i \in DOMAIN s /\ Is(i)
    BY <1>3, <1>4
  <2> HIDE DEF Is
  <2> QED BY <2>1
<1>6. Latest(s, x) = CHOOSE k \in DOMAIN s : Is(k)
  BY DEF Latest
<1> HIDE DEF Is
<1>7. Latest(s, x) \in DOMAIN s /\ Is(Latest(s, x))
  BY <1>5, <1>6
<1> QED BY <1>7 DEF Is

\* r is s without the element at k.
Dropped(r, s, k) ==
    /\ k \in 1..Len(s) /\ Len(r) = Len(s) - 1
    /\ \A i \in 1..Len(r) : r[i] = IF i < k THEN s[i] ELSE s[i + 1]

LEMMA CountIsFinite ==
    ASSUME NEW s \in Seq(Listeners), NEW l
    PROVE  /\ IsFiniteSet({i \in DOMAIN s : s[i] = l})
           /\ Count(s, l) \in Nat /\ (Count(s, l) = 0 <=> \A i \in DOMAIN s : s[i] # l)
<1>1. IsFiniteSet(1..Len(s)) /\ {i \in DOMAIN s : s[i] = l} \in SUBSET (1..Len(s))
  BY FS_Interval
<1>2. IsFiniteSet({i \in DOMAIN s : s[i] = l})
  BY <1>1, FS_Subset
<1> QED BY <1>2, FS_CardinalityType, FS_EmptySet DEF Count

LEMMA CountDropped ==
    ASSUME NEW s \in Seq(Listeners), NEW r \in Seq(Listeners), NEW k, Dropped(r, s, k), NEW l
    PROVE  Count(s, l) = Count(r, l) + IF s[k] = l THEN 1 ELSE 0
<1> DEFINE A == {i \in DOMAIN r : r[i] = l}
           B == {i \in DOMAIN s : s[i] = l}
           f == [i \in A |-> IF i < k THEN i ELSE i + 1]
<1> USE DEF Dropped
<1>1. f \in [A -> B \ {k}]
  OBVIOUS
<1>2. \A i, j \in A : f[i] = f[j] => i = j
  OBVIOUS
<1>3. ASSUME NEW j \in B \ {k} PROVE \E i \in A : f[i] = j
  <2>1. CASE j < k
    <3>1. j \in A /\ f[j] = j
      BY <2>1, SMTT(30)
    <3> QED BY <3>1
  <2>2. CASE j > k
    <3>1. j - 1 \in A /\ f[j - 1] = j
      BY <2>2
    <3> QED BY <3>1
  <2> QED BY <2>1, <2>2, SMTT(30)
<1>4. ExistsBijection(A, B \ {k})
  <2> HIDE DEF A, B, f
  <2> QED BY <1>1, <1>2, <1>3, Fun_IsBij, Fun_ExistsBij
<1>5. IsFiniteSet(A) /\ IsFiniteSet(B) /\ Count(s, l) = Cardinality(B) /\ Count(r, l) = Cardinality(A)
  BY CountIsFinite DEF Count
<1>6. Cardinality(B \ {k}) = Cardinality(A)
  <2> HIDE DEF A, B
  <2> QED BY <1>4, <1>5, FS_Bijection
<1>7. Cardinality(B \ {k}) = IF k \in B THEN Cardinality(B) - 1 ELSE Cardinality(B)
  <2> HIDE DEF A, B
  <2> QED BY <1>5, FS_RemoveElement
<1>8. k \in B <=> s[k] = l
  OBVIOUS
<1>9. Cardinality(A) \in Nat /\ Cardinality(B) \in Nat
  <2> HIDE DEF A, B
  <2> QED BY <1>5, FS_CardinalityType
<1> HIDE DEF A, B
<1> QED BY <1>5, <1>6, <1>7, <1>8, <1>9

LEMMA WithoutDrops ==
    ASSUME NEW s \in Seq(Listeners), NEW x
    PROVE  /\ Without(s, x) \in Seq(Listeners)
           /\ IF \E i \in DOMAIN s : s[i] = x
              THEN Dropped(Without(s, x), s, Latest(s, x)) /\ s[Latest(s, x)] = x
              ELSE Without(s, x) = s
<1>1. CASE \E i \in DOMAIN s : s[i] = x
  <2>1. Latest(s, x) \in 1..Len(s) /\ s[Latest(s, x)] = x
    BY <1>1, LatestIsLast
  <2>2. Without(s, x) = [i \in 1..(Len(s) - 1) |-> IF i < Latest(s, x) THEN s[i] ELSE s[i + 1]]
    BY <1>1 DEF Without
  <2>3. Without(s, x) \in Seq(Listeners) /\ Len(Without(s, x)) = Len(s) - 1
    BY <2>1, <2>2
  <2>4. Dropped(Without(s, x), s, Latest(s, x))
    BY <2>1, <2>2, <2>3 DEF Dropped
  <2> QED BY <1>1, <2>1, <2>3, <2>4
<1>2. CASE ~ \E i \in DOMAIN s : s[i] = x
  BY <1>2 DEF Without
<1> QED BY <1>1, <1>2

\* One removal takes one registration away, and leaves the others alone.
LEMMA CountWithout ==
    ASSUME NEW s \in Seq(Listeners), NEW x, NEW l
    PROVE  Count(Without(s, x), l) =
             IF l = x /\ Count(s, x) > 0 THEN Count(s, x) - 1 ELSE Count(s, l)
<1>1. Count(s, l) \in Nat /\ Count(Without(s, x), l) \in Nat
  BY WithoutDrops, CountIsFinite
<1>2. CASE \E i \in DOMAIN s : s[i] = x
  <2>1. Count(s, l) = Count(Without(s, x), l) + IF x = l THEN 1 ELSE 0
    BY <1>2, WithoutDrops, CountDropped
  <2> QED BY <1>1, <2>1
<1>3. CASE ~ \E i \in DOMAIN s : s[i] = x
  <2>1. Without(s, x) = s /\ Count(s, x) = 0
    BY <1>3, WithoutDrops, CountIsFinite
  <2> QED BY <2>1
<1> QED BY <1>2, <1>3

LEMMA CountAppend ==
    ASSUME NEW s \in Seq(Listeners), NEW x \in Listeners, NEW l
    PROVE  Count(Append(s, x), l) = Count(s, l) + IF x = l THEN 1 ELSE 0
<1> DEFINE z == Append(s, x)
           k == Len(s) + 1
<1>1. Dropped(s, z, k) /\ z \in Seq(Listeners) /\ z[k] = x
  BY DEF Dropped
<1> HIDE DEF z, k
<1>2. Count(z, l) = Count(s, l) + IF z[k] = l THEN 1 ELSE 0
  BY <1>1, CountDropped
<1> QED BY <1>1, <1>2 DEF z

LEMMA CountTail ==
    ASSUME NEW s \in Seq(Listeners), s # <<>>, NEW l
    PROVE  Count(s, l) = Count(Tail(s), l) + IF Head(s) = l THEN 1 ELSE 0
<1> DEFINE z == Tail(s)
<1>1. Dropped(z, s, 1) /\ z \in Seq(Listeners) /\ s[1] = Head(s)
  BY DEF Dropped
<1> HIDE DEF z
<1>2. Count(s, l) = Count(z, l) + IF s[1] = l THEN 1 ELSE 0
  BY <1>1, CountDropped
<1> QED BY <1>1, <1>2 DEF z

\* The latest registration is the last one, or it is among the others.
LEMMA WithoutLast ==
    ASSUME NEW s \in Seq(Listeners), NEW x \in Listeners, NEW l \in Listeners
    PROVE  Without(s \o <<l>>, x) = IF l = x THEN s ELSE Without(s, x) \o <<l>>
<1> DEFINE z == s \o <<l>>
           n == Len(s)
<1>0. /\ z \in Seq(Listeners) /\ Len(z) = n + 1 /\ n \in Nat /\ z[n + 1] = l
      /\ \A i \in 1..n : z[i] = s[i]
  OBVIOUS
<1> HIDE DEF z
<1>1. CASE l = x
  <2>1. \E i \in DOMAIN z : z[i] = x
    BY <1>0, <1>1
  <2>2. Latest(z, x) \in 1..(n + 1) /\ n + 1 <= Latest(z, x)
    BY <1>0, <1>1, <2>1, LatestIsLast
  <2>3. Latest(z, x) = n + 1
    BY <1>0, <2>2
  <2>4. Without(z, x) = [i \in 1..n |-> s[i]]
    BY <1>0, <2>1, <2>3, SMTT(30) DEF Without
  <2> QED BY <1>1, <2>4 DEF z
<1>2. CASE l # x /\ \E i \in DOMAIN s : s[i] = x
  <2>1. Latest(s, x) \in 1..n /\ s[Latest(s, x)] = x
        /\ \A j \in 1..n : s[j] = x => j <= Latest(s, x)
    BY <1>2, LatestIsLast
  <2>2. \E i \in DOMAIN z : z[i] = x
    BY <1>0, <2>1
  <2>3. Latest(z, x) \in 1..(n + 1) /\ z[Latest(z, x)] = x
        /\ \A j \in 1..(n + 1) : z[j] = x => j <= Latest(z, x)
    BY <1>0, <2>2, LatestIsLast
  <2>4. Latest(z, x) = Latest(s, x)
    BY <1>0, <1>2, <2>1, <2>3
  <2>5. Without(z, x) = [i \in 1..n |-> IF i < Latest(s, x) THEN z[i] ELSE z[i + 1]]
    BY <1>0, <2>2, <2>4 DEF Without
  <2>6. Without(s, x) = [i \in 1..(n - 1) |-> IF i < Latest(s, x) THEN s[i] ELSE s[i + 1]]
    BY <1>2 DEF Without
  <2>7. Without(s, x) \in Seq(Listeners) /\ Len(Without(s, x)) = n - 1
    BY <2>1, <2>6
  <2>8. /\ Without(s, x) \o <<l>> \in [1..n -> Listeners]
        /\ \A i \in 1..n : (Without(s, x) \o <<l>>)[i] = IF i = n THEN l ELSE Without(s, x)[i]
    <3> DEFINE w == Without(s, x)
    <3>1. w \in Seq(Listeners) /\ Len(w) = n - 1 /\ n \in Nat
      BY <1>0, <2>7
    <3> HIDE DEF w
    <3>2. Len(w \o <<l>>) = n /\ w \o <<l>> \in Seq(Listeners)
      BY <3>1
    <3>3. \A i \in 1..n : (w \o <<l>>)[i] = IF i = n THEN l ELSE w[i]
      BY <3>1
    <3>4. w \o <<l>> \in [1..n -> Listeners]
      <4> DEFINE u == w \o <<l>>
      <4>1. u \in Seq(Listeners) /\ Len(u) = n
        BY <3>2
      <4> HIDE DEF u
      <4>2. u \in [1..n -> Listeners]
        BY <4>1
      <4> QED BY <4>2 DEF u
    <3> QED BY <3>3, <3>4 DEF w
  <2>9. \A i \in 1..n : Without(z, x)[i] = (Without(s, x) \o <<l>>)[i]
    BY <1>0, <2>1, <2>5, <2>6, <2>8
  <2> QED BY <1>2, <2>5, <2>8, <2>9 DEF z
<1>3. CASE l # x /\ ~ \E i \in DOMAIN s : s[i] = x
  <2>1. ~ \E i \in DOMAIN z : z[i] = x
    BY <1>0, <1>3
  <2>2. Without(z, x) = z /\ Without(s, x) = s
    BY <1>3, <2>1 DEF Without
  <2> QED BY <1>3, <2>2 DEF z
<1> QED BY <1>1, <1>2, <1>3

----------------------------------------------------------------------------
(* Adding to a tree, and removing from it. *)

\* What removal from a tree does, as long as the result is one.
RemovesWithin(f, x) ==
    /\ f[Null] = Null /\ \A l \in Listeners : f[l] = IF l = x THEN Null ELSE l
    /\ \A n \in 2..MaxRegs : \A t \in TreesOf[n] :
         /\ x = t[1] => f[t] = t[2]
         /\ x # t[1] /\ x = t[2] => f[t] = t[1]
         /\ x # t[1] /\ x # t[2] /\ f[t[1]] # Null /\ <<f[t[1]], t[2]>> \in Trees
              => f[t] = <<f[t[1]], t[2]>>

\* Removal leaves the tree, or takes one listener out of it: the one that was
\* registered last.
Shrinks(f, x, n, t) ==
    /\ IF n = 1 THEN f[t] = (IF t = x THEN Null ELSE t)
       ELSE f[t] \in TreesOf[n] \cup TreesOf[n - 1]
    /\ Leaves(f[t]) = Without(Leaves(t), x)

LEMMA WithoutEmpty == \A x : Without(<<>>, x) = <<>>
  BY DEF Without

LEMMA RemoveShape ==
    ASSUME NEW x \in Listeners, NEW f, RemovesWithin(f, x)
    PROVE  \A n \in 1..MaxRegs : \A t \in TreesOf[n] : Shrinks(f, x, n, t)
<1> DEFINE S == {n \in Nat \ {0} : n <= MaxRegs => \A t \in TreesOf[n] : Shrinks(f, x, n, t)}
<1>0. \A t \in Listeners : Leaves(t) = <<t>> /\ Without(<<t>>, x) = IF t = x THEN <<>> ELSE <<t>>
  <2> SUFFICES ASSUME NEW t \in Listeners
               PROVE  Without(<<t>>, x) = IF t = x THEN <<>> ELSE <<t>>
    BY LeavesDef
  <2> DEFINE e == <<>>
  <2>1. e \in Seq(Listeners) /\ e \o <<t>> = <<t>> /\ Without(e, x) = e
    BY WithoutEmpty
  <2> HIDE DEF e
  <2>2. Without(e \o <<t>>, x) = IF t = x THEN e ELSE Without(e, x) \o <<t>>
    BY <2>1, WithoutLast
  <2> QED BY <2>1, <2>2 DEF e
<1>1. 1 \in S
  <2> SUFFICES ASSUME NEW t \in TreesOf[1] PROVE Shrinks(f, x, 1, t)
    OBVIOUS
  <2>1. t \in Listeners /\ f[t] = IF t = x THEN Null ELSE t
    BY Pairs DEF RemovesWithin
  <2>2. Leaves(f[t]) = Without(Leaves(t), x)
    BY <1>0, <2>1, LeavesDef
  <2> QED BY <2>1, <2>2 DEF Shrinks
<1>2. ASSUME NEW m \in Nat \ {0}, m \in S PROVE m + 1 \in S
  <2> SUFFICES ASSUME m + 1 <= MaxRegs, NEW t \in TreesOf[m + 1] PROVE Shrinks(f, x, m + 1, t)
    OBVIOUS
  <2> DEFINE n == m + 1
  <2>1. n \in 2..MaxRegs /\ n - 1 = m /\ m \in 1..MaxRegs /\ n \in 1..MaxRegs /\ n # 1
    OBVIOUS
  <2>2. t = <<t[1], t[2]>> /\ t[1] \in TreesOf[m] /\ t[2] \in Listeners
    BY <2>1, PairParts
  <2>3. Shrinks(f, x, m, t[1])
    BY <1>2, <2>1, <2>2
  <2>4. Leaves(t) = Leaves(t[1]) \o <<t[2]>> /\ Leaves(t[1]) \in Seq(Listeners)
    BY <2>1, <2>2, LeavesDef, InTrees
  <2>5. Without(Leaves(t), x) = IF t[2] = x THEN Leaves(t[1])
                                ELSE Without(Leaves(t[1]), x) \o <<t[2]>>
    BY <2>2, <2>4, WithoutLast, SMTT(30)
  <2> HIDE DEF n
  <2>6. CASE x = t[1]
    <3>1. f[t] = t[2]
      BY <2>1, <2>6 DEF RemovesWithin, n
    <3>2. m = 1
      <4>1. x \in TreesOf[1]
        BY Pairs
      <4>2. m # 1 => m \in 1..MaxRegs /\ 1 \in 1..MaxRegs
        BY <2>1
      <4> QED BY <2>2, <2>6, <4>1, <4>2, SizesApart
    <3>3. t[2] \in TreesOf[n - 1]
      BY <2>1, <2>2, <3>2, Pairs
    <3>4. Leaves(t[1]) = <<x>> /\ Leaves(t[2]) = <<t[2]>> /\ Without(<<x>>, x) = <<>>
      BY <1>0, <2>2, <2>6
    <3>5. Leaves(f[t]) = Without(Leaves(t), x)
      <4>1. CASE t[2] = x
        BY <2>5, <2>6, <3>1, <4>1
      <4>2. CASE t[2] # x
        <5>1. <<>> \o <<t[2]>> = <<t[2]>>
          OBVIOUS
        <5>2. Without(Leaves(t), x) = <<>> \o <<t[2]>>
          BY <2>5, <3>4, <4>2
        <5> QED BY <3>1, <3>4, <5>1, <5>2
      <4> QED BY <4>1, <4>2
    <3> QED BY <2>1, <3>1, <3>3, <3>5 DEF Shrinks, n
  <2>7. CASE x # t[1] /\ x = t[2]
    <3>1. f[t] = t[1]
      BY <2>1, <2>7 DEF RemovesWithin, n
    <3>2. Leaves(f[t]) = Without(Leaves(t), x)
      BY <2>5, <2>7, <3>1
    <3> QED BY <2>1, <2>2, <3>1, <3>2 DEF Shrinks, n
  <2>8. CASE x # t[1] /\ x # t[2]
    <3> DEFINE u == f[t[1]]
               p == <<u, t[2]>>
    <3>1. u \in TreesOf[m] \/ (m # 1 /\ m - 1 \in 1..MaxRegs /\ u \in TreesOf[m - 1])
      <4>1. CASE m = 1
        <5>1. t[1] # x /\ f[t[1]] = IF t[1] = x THEN Null ELSE t[1]
          BY <2>3, <2>8, <4>1 DEF Shrinks
        <5> QED BY <2>2, <5>1
      <4>2. CASE m # 1
        <5>1. m - 1 \in 1..MaxRegs
          BY <2>1, <4>2
        <5> QED BY <2>3, <4>2, <5>1 DEF Shrinks
      <4> QED BY <4>1, <4>2
    <3>2. p \in TreesOf[n] \cup TreesOf[n - 1]
      <4>1. CASE u \in TreesOf[m]
        <5>1. TreesOf[n] = TreesOf[m] \X Listeners
          BY <2>1, Pairs
        <5> QED BY <2>2, <4>1, <5>1
      <4>2. CASE m # 1 /\ m - 1 \in 1..MaxRegs /\ u \in TreesOf[m - 1]
        <5>1. TreesOf[m] = TreesOf[m - 1] \X Listeners
          BY <2>1, <4>2, Pairs
        <5> QED BY <2>1, <2>2, <4>2, <5>1
      <4> QED BY <3>1, <4>1, <4>2
    <3>3. p \in Trees
      BY <2>1, <3>2, InTrees
    <3>4. f[t] = p
      <4>1. u # Null
        <5>1. \A k \in 1..MaxRegs : k = 1 \/ k \in 2..MaxRegs
          OBVIOUS
        <5> QED BY <2>1, <3>1, <5>1, Pairs
      <4> QED BY <2>1, <2>8, <3>3, <4>1 DEF RemovesWithin, n
    <3>5. Leaves(p) = Leaves(u) \o <<t[2]>>
      <4>1. p[1] = u /\ p[2] = t[2]
        OBVIOUS
      <4>2. \E k \in 2..MaxRegs : p \in TreesOf[k]
        <5>1. CASE p \in TreesOf[n]
          BY <2>1, <5>1
        <5>2. CASE p \in TreesOf[m] /\ m # 1
          <6>1. m \in 2..MaxRegs
            BY <2>1, <5>2
          <6> QED BY <5>2, <6>1
        <5>3. m # 1 \/ p \in TreesOf[n]
          <6>1. CASE u \in TreesOf[m]
            <7>1. TreesOf[n] = TreesOf[m] \X Listeners
              BY <2>1, Pairs
            <7> QED BY <2>2, <6>1, <7>1
          <6>2. CASE m # 1
            BY <6>2
          <6> QED BY <3>1, <6>1, <6>2
        <5> QED BY <2>1, <3>2, <5>1, <5>2, <5>3
      <4> HIDE DEF p
      <4>3. Leaves(p) = Leaves(p[1]) \o <<p[2]>>
        BY <4>2, LeavesDef
      <4> QED BY <4>1, <4>3
    <3>6. Leaves(u) = Without(Leaves(t[1]), x)
      BY <2>3 DEF Shrinks
    <3>7. Leaves(f[t]) = Without(Leaves(t), x)
      BY <2>5, <2>8, <3>4, <3>5, <3>6
    <3> QED BY <2>1, <3>2, <3>4, <3>7 DEF Shrinks, n
  <2> QED BY <2>6, <2>7, <2>8
<1>3. \A n \in Nat \ {0} : n \in S
  <2> HIDE DEF S
  <2> QED BY <1>1, <1>2, Induction
<1> QED BY <1>3

\* RemoveTree(tree, x) is a tree, and it takes away the registration that a
\* removal is to take away.
LEMMA RemoveTreeDef ==
    ASSUME NEW x \in Listeners, NEW tree \in Trees
    PROVE  /\ RemoveTree(tree, x) \in Trees
           /\ Leaves(RemoveTree(tree, x)) = Without(Leaves(tree), x)
<1> DEFINE D(f) == [t \in Trees |-> IF t = x \/ t = Null THEN Null
                                    ELSE IF ~IsMulticaster(t) THEN t
                                    ELSE IF x = t[1] THEN t[2]
                                    ELSE IF x = t[2] THEN t[1]
                                    ELSE AddTree(f[t[1]], f[t[2]])]
           b == [t \in Listeners \cup {Null} |-> IF t = x THEN Null ELSE t]
           R(y) == IF x = y[1][1] THEN y[1][2] ELSE IF x = y[1][2] THEN y[1][1]
                   ELSE <<y[2], y[1][2]>>
           c == [y \in Trees \X Trees |-> IF R(y) \in Trees THEN R(y) ELSE Null]
<1>1. b \in [Listeners \cup {Null} -> Trees] /\ c \in [Trees \X Trees -> Trees]
  BY InTrees
<1>2. PICK f \in [Trees -> Trees] : Computes(f, b, c)
  <2> HIDE DEF b, c
  <2> QED BY <1>1, TreeRecursion
<1>3. ASSUME NEW n \in 2..MaxRegs, NEW t \in TreesOf[n]
      PROVE  /\ t \in Trees /\ t[1] \in Trees /\ t[2] \in Listeners /\ t[2] \in Trees
             /\ IsMulticaster(t) /\ t # Null /\ t # x /\ t[2] # Null
             /\ t[1] \in TreesOf[n - 1] /\ n - 1 \in 1..MaxRegs /\ n \in 1..MaxRegs
  <2>1. n - 1 \in 1..MaxRegs /\ n \in 1..MaxRegs
    OBVIOUS
  <2>2. t # x
    OBVIOUS
  <2> QED BY <2>1, <2>2, PairParts, InTrees
<1>4. RemovesWithin(f, x)
  <2>1. f[Null] = Null /\ \A l \in Listeners : f[l] = IF l = x THEN Null ELSE l
    BY <1>2 DEF Computes
  <2>2. ASSUME NEW n \in 2..MaxRegs, NEW t \in TreesOf[n]
        PROVE  /\ x = t[1] => f[t] = t[2]
               /\ x # t[1] /\ x = t[2] => f[t] = t[1]
               /\ x # t[1] /\ x # t[2] /\ f[t[1]] # Null /\ <<f[t[1]], t[2]>> \in Trees
                    => f[t] = <<f[t[1]], t[2]>>
    <3>1. f[t] = c[<<t, f[t[1]]>>]
      BY <1>2, <2>2 DEF Computes
    <3>2. t \in Trees /\ t[1] \in Trees /\ f[t[1]] \in Trees /\ t[2] \in Trees
      BY <1>2, <1>3
    <3> DEFINE y == <<t, f[t[1]]>>
    <3>3. y \in Trees \X Trees /\ y[1] = t /\ y[2] = f[t[1]]
      BY <3>2
    <3> HIDE DEF y
    <3>4. f[t] = IF R(y) \in Trees THEN R(y) ELSE Null
      BY <3>1, <3>3 DEF y
    <3> QED BY <3>2, <3>3, <3>4
  <2> QED BY <2>1, <2>2 DEF RemovesWithin
<1>5. ASSUME NEW g, RemovesWithin(g, x), NEW n \in 1..MaxRegs, NEW t \in TreesOf[n] PROVE Shrinks(g, x, n, t)
  BY <1>5, RemoveShape
<1>6. f = D(f)
  <2>1. ASSUME NEW t \in Trees PROVE f[t] = D(f)[t]
    <3>1. CASE t \in Listeners \cup {Null}
      BY <1>4, <3>1 DEF IsMulticaster, RemovesWithin
    <3>2. CASE t \notin Listeners \cup {Null}
      <4>1. PICK n \in 2..MaxRegs : t \in TreesOf[n]
        BY <3>2, InTrees, Pairs
      <4>2. t[1] \in TreesOf[n - 1] /\ n - 1 \in 1..MaxRegs /\ t[2] \in Listeners /\ t[2] # Null
            /\ t # x /\ t # Null /\ IsMulticaster(t) /\ n \in 1..MaxRegs
        BY <1>3, <4>1
      <4>3. D(f)[t] = IF x = t[1] THEN t[2] ELSE IF x = t[2] THEN t[1]
                      ELSE AddTree(f[t[1]], f[t[2]])
        BY <4>2
      <4>4. (x = t[1] => f[t] = t[2]) /\ (x # t[1] /\ x = t[2] => f[t] = t[1])
        BY <1>4, <4>1 DEF RemovesWithin
      <4>5. ASSUME x # t[1], x # t[2] PROVE f[t] = AddTree(f[t[1]], f[t[2]])
        <5>1. f[t[2]] = t[2]
          BY <1>4, <4>2, <4>5 DEF RemovesWithin
        <5>2. Shrinks(f, x, n - 1, t[1])
          BY <1>4, <1>5, <4>2
        <5>3. \E k \in 1..(n - 1) : f[t[1]] \in TreesOf[k]
          <6>1. CASE n - 1 = 1
            BY <4>2, <4>5, <5>2, <6>1 DEF Shrinks
          <6>2. CASE n - 1 # 1
            <7>1. n - 1 \in 1..(n - 1) /\ n - 1 - 1 \in 1..(n - 1)
              BY <6>2, <4>1
            <7>2. f[t[1]] \in TreesOf[n - 1] \cup TreesOf[n - 1 - 1]
              BY <5>2, <6>2 DEF Shrinks
            <7> QED BY <7>1, <7>2
          <6> QED BY <6>1, <6>2
        <5>4. PICK k \in 1..(n - 1) : f[t[1]] \in TreesOf[k]
          BY <5>3
        <5>5. k \in 1..MaxRegs /\ k + 1 \in 2..MaxRegs /\ k + 1 - 1 = k /\ k + 1 \in 1..MaxRegs
          BY <4>1
        <5>6. f[t[1]] # Null
          <6>1. k = 1 \/ k \in 2..MaxRegs
            BY <5>5
          <6> QED BY <5>4, <6>1, Pairs
        <5>7. <<f[t[1]], t[2]>> \in Trees
          <6>1. TreesOf[k + 1] = TreesOf[k] \X Listeners
            BY <5>5, Pairs
          <6>2. <<f[t[1]], t[2]>> \in TreesOf[k + 1]
            BY <4>2, <5>4, <6>1
          <6> QED BY <5>5, <6>2, InTrees
        <5>8. f[t] = <<f[t[1]], t[2]>>
          BY <1>4, <4>1, <4>5, <5>6, <5>7 DEF RemovesWithin
        <5> QED BY <4>2, <5>1, <5>6, <5>8 DEF AddTree
      <4> QED BY <4>3, <4>4, <4>5
    <3> QED BY <3>1, <3>2
  <2> QED BY <2>1
<1> DEFINE remove == CHOOSE g : g = D(g)
<1>7. remove = D(remove)
  <2> HIDE DEF D
  <2> QED BY <1>6
<1>8. RemoveTree(tree, x) = remove[tree]
  BY DEF RemoveTree
<1> HIDE DEF remove, b, c
<1>9. RemovesWithin(remove, x)
  <2>1. \A t \in Trees : remove[t] = IF t = x \/ t = Null THEN Null
                                    ELSE IF ~IsMulticaster(t) THEN t
                                    ELSE IF x = t[1] THEN t[2]
                                    ELSE IF x = t[2] THEN t[1]
                                    ELSE AddTree(remove[t[1]], remove[t[2]])
    BY <1>7
  <2>2. remove[Null] = Null /\ \A l \in Listeners : remove[l] = IF l = x THEN Null ELSE l
    BY <2>1, InTrees DEF IsMulticaster
  <2>3. ASSUME NEW n \in 2..MaxRegs, NEW t \in TreesOf[n]
        PROVE  /\ x = t[1] => remove[t] = t[2]
               /\ x # t[1] /\ x = t[2] => remove[t] = t[1]
               /\ x # t[1] /\ x # t[2] /\ remove[t[1]] # Null /\ <<remove[t[1]], t[2]>> \in Trees
                    => remove[t] = <<remove[t[1]], t[2]>>
    <3>1. /\ t \in Trees /\ IsMulticaster(t) /\ t # Null /\ t # x
          /\ t[2] \in Listeners /\ t[2] # Null
      BY <1>3, <2>3
    <3>2. remove[t] = IF x = t[1] THEN t[2] ELSE IF x = t[2] THEN t[1]
                      ELSE AddTree(remove[t[1]], remove[t[2]])
      BY <2>1, <3>1
    <3>3. x # t[2] => remove[t[2]] = t[2]
      BY <2>2, <3>1
    <3> QED BY <3>1, <3>2, <3>3 DEF AddTree
  <2> QED BY <2>2, <2>3 DEF RemovesWithin
<1>10. CASE tree = Null
  <2>1. remove[tree] = Null /\ Leaves(Null) = <<>>
    BY <1>9, <1>10, LeavesDef DEF RemovesWithin
  <2> QED BY <1>8, <1>10, <2>1, InTrees, WithoutEmpty
<1>11. CASE tree # Null
  <2>1. PICK n \in 1..MaxRegs : tree \in TreesOf[n]
    BY <1>11, InTrees
  <2>2. Shrinks(remove, x, n, tree)
    BY <1>5, <1>9, <2>1
  <2>3. remove[tree] \in Trees
    <3>1. CASE n = 1
      BY <2>2, <3>1, InTrees DEF Shrinks
    <3>2. CASE n # 1
      <4>1. n - 1 \in 1..MaxRegs
        BY <3>2
      <4> QED BY <2>1, <2>2, <3>2, <4>1, InTrees DEF Shrinks
    <3> QED BY <3>1, <3>2
  <2> QED BY <1>8, <2>2, <2>3 DEF Shrinks
<1> QED BY <1>10, <1>11

LEMMA AddTreeDef ==
    ASSUME NEW l \in Listeners, NEW tree \in Trees, Len(Leaves(tree)) < MaxRegs
    PROVE  /\ AddTree(tree, l) \in Trees
           /\ Leaves(AddTree(tree, l)) = Append(Leaves(tree), l)
<1>1. CASE tree = Null
  <2>1. AddTree(tree, l) = l /\ Leaves(l) = <<l>> /\ Leaves(tree) = <<>>
    BY <1>1, LeavesDef DEF AddTree
  <2> QED BY <2>1, InTrees
<1>2. CASE tree # Null
  <2>1. PICK n \in 1..MaxRegs : tree \in TreesOf[n]
    BY <1>2, InTrees
  <2>2. n + 1 \in 2..MaxRegs /\ n + 1 \in 1..MaxRegs /\ n + 1 - 1 = n
    BY <2>1, LeavesLen
  <2> DEFINE p == <<tree, l>>
  <2>3. AddTree(tree, l) = p
    BY <1>2 DEF AddTree
  <2>4. p \in TreesOf[n + 1]
    BY <2>1, <2>2, Pairs
  <2>5. p[1] = tree /\ p[2] = l
    OBVIOUS
  <2> HIDE DEF p
  <2>6. Leaves(p) = Leaves(tree) \o <<l>> /\ Leaves(tree) \in Seq(Listeners)
    BY <2>2, <2>4, <2>5, LeavesDef
  <2>7. Leaves(tree) \o <<l>> = Append(Leaves(tree), l)
    BY <2>6
  <2> QED BY <2>2, <2>3, <2>4, <2>6, <2>7, InTrees
<1> QED BY <1>1, <1>2

----------------------------------------------------------------------------
(* The inductive invariant. *)

Changes == [add : BOOLEAN, who : Listeners, slots : Seq(Slots) \ {<<>>}, seen : Trees]
Places == {"idle", "add", "await", "remove", "done"}
Steps == {"wait", "typed", "callTyped", "all", "callAll", "end"}

TypesInv ==
    /\ listeners \in [Slots -> Trees] /\ regs \in [Slots -> Seq(Listeners)]
    /\ inside \in SUBSET Threads /\ change \in [Threads -> Changes \cup {None}]
    /\ request \in [Requests -> [at : Places, result : BOOLEAN]]
    /\ asked \in SUBSET Requests
    /\ alert \in [step : Steps, type : Slots, target : Requests \cup {Null},
                  todo : Seq(Listeners), called : Listeners \cup {Null}, threw : BOOLEAN]
    /\ due \in [Listeners -> Int \cup {Unsettled}]

\* One thread is in modifyListeners(): what it loaded is what is there.
MonitorInv ==
    /\ \A t, u \in inside : t = u
    /\ \A t \in inside : /\ change[t] # None /\ HasRoom(t)
                         /\ change[t].seen = listeners[Head(change[t].slots)]

\* A request's thread registers and removes its own listener, nobody else does.
OwnersInv ==
    \A t \in Threads : change[t] # None =>
        IF t \in Requests THEN change[t].who = t /\ change[t].slots = <<Reply>>
        ELSE change[t].who \in Apps

\* A request's listener is registered once from the end of its addListener() to
\* the end of its removeListener(), and the request is sent in between.
RequestInv ==
    \A r \in Requests :
        /\ request[r].at \in {"idle", "await", "remove"} => change[r] = None
        /\ change[r] # None => (change[r].add <=> request[r].at = "add")
        /\ Count(regs[Reply], r) =
             IF request[r].at = "idle" THEN 0
             ELSE IF request[r].at = "add" THEN (IF change[r] = None THEN 1 ELSE 0)
             ELSE IF request[r].at = "done" THEN (IF change[r] = None THEN 0 ELSE 1)
             ELSE 1
        /\ r \in asked \/ r = alert.target => request[r].at \in {"await", "remove", "done"}

AlertInv ==
    /\ alert.step = "wait" => alert = Quiet
    /\ alert.step # "wait" => alert.type \in Types
    /\ alert.target # Null => alert.type = Reply

\* Calls that a listener which is left alone still expects for this alert; those
\* of an all-types listener for a special type stay due to the end.
ToAll(l) == Count(regs[All], l)
PassedOver == alert.step \in {"callAll", "end"} /\ alert.type \in Special
StillDue(l) ==
    (IF alert.step = "typed" THEN Count(regs[alert.type], l)
     ELSE IF alert.step \in {"callTyped", "callAll"} THEN Count(alert.todo, l) ELSE 0)
    + (IF alert.step \in {"typed", "callTyped", "all"} \/ PassedOver THEN ToAll(l) ELSE 0)
DueInv == \A l \in Listeners : due[l] # Unsettled => due[l] = StillDue(l)

\* The answer reaches the request before the typed listeners are done.
AnswerInv ==
    (alert.target # Null /\ ~alert.threw /\ request[alert.target].at = "await") =>
        /\ alert.step = "callTyped" =>
             request[alert.target].result \/ Count(alert.todo, alert.target) > 0
        /\ alert.step = "all" => request[alert.target].result

IInv == /\ TypesInv /\ MonitorInv /\ OwnersInv /\ RequestInv /\ AlertInv /\ DueInv
        /\ AnswerInv /\ RegistrationsKept

LEMMA InitInv == Init => IInv
<1> SUFFICES ASSUME Init PROVE IInv
  OBVIOUS
<1> USE DEF Init
<1>1. Count(<<>>, Null) = 0 /\ \A l : Count(<<>>, l) = 0
  BY FS_EmptySet DEF Count
<1>2. /\ Null \in Trees /\ Reply \in Slots /\ All \in Slots /\ All \notin Special
      /\ Null \notin Requests /\ Leaves(Null) = <<>>
  BY InTrees, LeavesDef DEF Slots, Listeners
<1>3. TypesInv
  BY <1>2 DEF TypesInv, Quiet, Places, Steps
<1>4. MonitorInv /\ OwnersInv /\ AlertInv
  BY DEF MonitorInv, OwnersInv, AlertInv, Quiet
<1>5. RequestInv
  <2> SUFFICES ASSUME NEW r \in Requests
               PROVE  /\ request[r].at = "idle" /\ change[r] = None /\ r \notin asked
                      /\ r # alert.target /\ Count(regs[Reply], r) = 0
    BY DEF RequestInv
  <2> QED BY <1>1, <1>2 DEF Threads, Quiet
<1>6. DueInv
  BY DEF DueInv, StillDue, PassedOver, Quiet
<1>7. AnswerInv
  BY DEF AnswerInv, Quiet
<1>8. RegistrationsKept
  BY <1>2 DEF RegistrationsKept
<1> QED BY <1>3, <1>4, <1>5, <1>6, <1>7, <1>8 DEF IInv

\* Facts about the constants and the types that the steps keep using.
LEMMA Basics ==
    /\ Reply \in Slots /\ All \in Slots /\ Types \subseteq Slots
    /\ Requests \subseteq Listeners /\ Apps \subseteq Listeners /\ Requests \subseteq Threads
    /\ App \in Threads /\ Alerts \in Threads /\ Null \notin Requests /\ Null \notin Apps
    /\ App \notin Requests /\ Alerts \notin Requests
    /\ \A c \in Changes : c # None
    /\ \A l \in Listeners : SlotsOf(l) \in Seq(Slots) \ {<<>>}
    /\ \A r \in Requests : SlotsOf(r) = <<Reply>>
    /\ \A s \in Seq(Slots) \ {<<>>} : Head(s) \in Slots /\ Tail(s) \in Seq(Slots)
         /\ (Len(s) # 1 => Tail(s) # <<>>)
<1>1. \A l \in Listeners : SlotsOf(l) \in Seq(Slots) \ {<<>>}
  <2> SUFFICES ASSUME NEW l \in Listeners PROVE SlotsOf(l) \in Seq(Slots) \ {<<>>}
    OBVIOUS
  <2>1. CASE l \in Requests
    BY <2>1 DEF SlotsOf, Slots
  <2>2. CASE l \notin Requests /\ TypesOf(l) = <<>>
    BY <2>2 DEF SlotsOf, Slots
  <2>3. CASE l \notin Requests /\ TypesOf(l) # <<>>
    <3>1. TypesOf(l) \in Seq(Types)
      BY <2>3 DEF Listeners
    <3>2. TypesOf(l) \in Seq(Slots)
      BY <3>1 DEF Slots
    <3> QED BY <2>3, <3>2 DEF SlotsOf
  <2> QED BY <2>1, <2>2, <2>3
<1>2. \A c \in Changes : c # None
  <2>1. \A c \in Changes : c.who \in Listeners
    BY DEF Changes
  <2>2. None.who \notin Listeners
    BY DEF None
  <2> QED BY <2>1, <2>2
<1>3. \A s \in Seq(Slots) \ {<<>>} : Head(s) \in Slots /\ Tail(s) \in Seq(Slots)
         /\ (Len(s) # 1 => Tail(s) # <<>>)
  <2> SUFFICES ASSUME NEW s \in Seq(Slots), s # <<>>
               PROVE  Head(s) \in Slots /\ Tail(s) \in Seq(Slots) /\ (Len(s) # 1 => Tail(s) # <<>>)
    OBVIOUS
  <2>1. Head(s) \in Slots /\ Tail(s) \in Seq(Slots)
    OBVIOUS
  <2>2. Len(s) # 1 => Len(Tail(s)) # 0
    OBVIOUS
  <2>3. Len(<<>>) = 0
    OBVIOUS
  <2>4. Len(s) # 1 => Tail(s) # <<>>
    BY <2>2, <2>3, Zenon
  <2> QED BY <2>1, <2>4
<1> QED BY <1>1, <1>2, <1>3 DEF Slots, Listeners, Threads, SlotsOf

\* A change is begun by a thread that has none in progress.
LEMMA StartTypes ==
    ASSUME TypesInv, NEW t \in Threads, NEW add \in BOOLEAN, NEW l \in Listeners,
           StartChange(t, add, l)
    PROVE  /\ change' \in [Threads -> Changes \cup {None}]
           /\ change[t] = None /\ change'[t] \in Changes /\ change'[t] # None
           /\ change'[t].add = add /\ change'[t].who = l /\ change'[t].slots = SlotsOf(l)
           /\ \A u \in Threads : u # t => change'[u] = change[u]
<1> DEFINE c == [add |-> add, who |-> l, slots |-> SlotsOf(l), seen |-> Null]
<1>1. c \in Changes
  BY Basics, InTrees DEF Changes
<1>2. change[t] = None /\ change' = [change EXCEPT ![t] = c]
  BY DEF StartChange
<1>3. c.add = add /\ c.who = l /\ c.slots = SlotsOf(l)
  OBVIOUS
<1> HIDE DEF c
<1> QED BY <1>1, <1>2, <1>3, Basics DEF TypesInv

LEMMA AppChangeInv ==
    ASSUME IInv, NEW t \in {App, Alerts}, NEW add \in BOOLEAN, NEW l \in Apps,
           AppChange(t, add, l)
    PROVE  IInv'
<1> USE DEF IInv
<1>1. t \in Threads /\ t \notin Requests /\ l \in Listeners
  BY Basics
<1>2. StartChange(t, add, l) /\ UNCHANGED <<listeners, inside, request, asked, alert, due, regs>>
  BY DEF AppChange
<1>3. /\ change' \in [Threads -> Changes \cup {None}]
      /\ change[t] = None /\ change'[t] # None /\ change'[t].who = l
      /\ \A u \in Threads : u # t => change'[u] = change[u]
  BY <1>1, <1>2, StartTypes
<1>4. TypesInv'
  BY <1>2, <1>3 DEF TypesInv
<1>5. MonitorInv'
  <2>1. \A u \in inside : u # t /\ u \in Threads
    BY <1>3 DEF MonitorInv, TypesInv
  <2> QED BY <1>2, <1>3, <2>1 DEF MonitorInv, HasRoom
<1>6. OwnersInv'
  BY <1>1, <1>3 DEF OwnersInv
<1>7. RequestInv'
  <2>1. \A r \in Requests : change'[r] = change[r]
    BY <1>1, <1>3, Basics
  <2> QED BY <1>2, <2>1 DEF RequestInv
<1>8. AlertInv' /\ DueInv' /\ AnswerInv' /\ RegistrationsKept'
  BY <1>2 DEF AlertInv, DueInv, StillDue, ToAll, PassedOver, AnswerInv, RegistrationsKept
<1> QED BY <1>4, <1>5, <1>6, <1>7, <1>8

LEMMA EnterInv == ASSUME IInv, NEW t \in Threads, Enter(t) PROVE IInv'
<1> USE DEF IInv
<1>1. /\ change[t] # None /\ inside = {} /\ HasRoom(t) /\ inside' = inside \cup {t}
      /\ change' = [change EXCEPT ![t].seen = listeners[Head(change[t].slots)]]
      /\ UNCHANGED <<listeners, request, asked, alert, due, regs>>
  BY DEF Enter
<1>2. change[t] \in Changes /\ Head(change[t].slots) \in Slots
  <2>1. change[t] \in Changes
    BY <1>1 DEF TypesInv
  <2>2. change[t].slots \in Seq(Slots) \ {<<>>}
    BY <2>1 DEF Changes
  <2> QED BY <2>1, <2>2, Basics
<1>3. listeners[Head(change[t].slots)] \in Trees
  BY <1>2 DEF TypesInv
<1>4. /\ change'[t] \in Changes /\ change'[t].add = change[t].add
      /\ change'[t].who = change[t].who /\ change'[t].slots = change[t].slots
      /\ change'[t].seen = listeners[Head(change[t].slots)]
  <2> DEFINE v == listeners[Head(change[t].slots)]
             c == [change[t] EXCEPT !.seen = v]
  <2>1. change'[t] = c
    BY <1>1 DEF TypesInv
  <2>2. v \in Trees /\ change[t] \in Changes
    BY <1>2, <1>3
  <2> HIDE DEF v
  <2>3. c \in Changes /\ c.add = change[t].add /\ c.who = change[t].who
        /\ c.slots = change[t].slots /\ c.seen = v
    BY <2>2 DEF Changes
  <2> QED BY <2>1, <2>3 DEF v
<1>5. change'[t] # None /\ \A u \in Threads : u # t => change'[u] = change[u]
  BY <1>1, <1>4, Basics DEF TypesInv
<1>6. change' \in [Threads -> Changes \cup {None}]
  BY <1>1, <1>4, <1>5 DEF TypesInv
<1>7. TypesInv'
  BY <1>1, <1>6 DEF TypesInv
<1>8. MonitorInv'
  <2>1. inside' = {t}
    BY <1>1
  <2>2. HasRoom(t)'
    BY <1>1, <1>4 DEF HasRoom
  <2> QED BY <1>1, <1>4, <1>5, <2>1, <2>2 DEF MonitorInv
<1>9. OwnersInv'
  BY <1>1, <1>4, <1>5 DEF OwnersInv
<1>10. RequestInv'
  <2>1. \A r \in Requests : (change'[r] = None <=> change[r] = None) /\ change'[r].add = change[r].add
    BY <1>1, <1>4, <1>5, Basics
  <2> QED BY <1>1, <2>1 DEF RequestInv
<1>11. AlertInv' /\ DueInv' /\ AnswerInv' /\ RegistrationsKept'
  BY <1>1 DEF AlertInv, DueInv, StillDue, ToAll, PassedOver, AnswerInv, RegistrationsKept
<1> QED BY <1>7, <1>8, <1>9, <1>10, <1>11

\* What one synchronized modifyListeners() does to a slot.
LEMMA ReplaceSlot ==
    ASSUME IInv, NEW t \in Threads, Replace(t),
           NEW s, s = Head(change[t].slots), NEW l, l = change[t].who
    PROVE  /\ change[t] \in Changes /\ change[t] # None /\ s \in Slots /\ l \in Listeners
           /\ regs'[s] = IF change[t].add THEN Append(regs[s], l) ELSE Without(regs[s], l)
           /\ regs'[s] \in Seq(Listeners) /\ regs' \in [Slots -> Seq(Listeners)]
           /\ listeners' \in [Slots -> Trees] /\ Leaves(listeners'[s]) = regs'[s]
           /\ \A u \in Slots : u # s => regs'[u] = regs[u] /\ listeners'[u] = listeners[u]
<1> USE DEF IInv
<1>1. t \in inside /\ change[t] # None /\ HasRoom(t) /\ change[t].seen = listeners[s]
  BY DEF Replace, MonitorInv
<1>2. change[t] \in Changes
  BY <1>1 DEF TypesInv
<1>3. s \in Slots /\ l \in Listeners
  <2>1. change[t].slots \in Seq(Slots) \ {<<>>} /\ change[t].who \in Listeners
    BY <1>2 DEF Changes
  <2> QED BY <2>1, Basics
<1>4. /\ listeners' = [listeners EXCEPT ![s] = IF change[t].add THEN AddTree(change[t].seen, l)
                                              ELSE RemoveTree(change[t].seen, l)]
      /\ regs' = [regs EXCEPT ![s] = IF change[t].add THEN Append(regs[s], l)
                                     ELSE Without(regs[s], l)]
  BY <1>3 DEF Replace, TypesInv
<1>5. /\ listeners[s] \in Trees /\ regs[s] \in Seq(Listeners) /\ Leaves(listeners[s]) = regs[s]
  BY <1>3 DEF TypesInv, RegistrationsKept
<1>6. CASE change[t].add
  <2>1. Len(Leaves(listeners[s])) < MaxRegs
    BY <1>1, <1>5, <1>6 DEF HasRoom
  <2>2. /\ AddTree(listeners[s], l) \in Trees
        /\ Leaves(AddTree(listeners[s], l)) = Append(regs[s], l)
    BY <1>3, <1>5, <2>1, AddTreeDef
  <2>3. Append(regs[s], l) \in Seq(Listeners)
    BY <1>3, <1>5
  <2> QED BY <1>1, <1>2, <1>3, <1>4, <1>5, <1>6, <2>2, <2>3 DEF TypesInv
<1>7. CASE ~change[t].add
  <2>1. /\ RemoveTree(listeners[s], l) \in Trees
        /\ Leaves(RemoveTree(listeners[s], l)) = Without(regs[s], l)
    BY <1>3, <1>5, RemoveTreeDef
  <2>2. Without(regs[s], l) \in Seq(Listeners)
    BY <1>5, WithoutDrops
  <2> QED BY <1>1, <1>2, <1>3, <1>4, <1>5, <1>7, <2>1, <2>2 DEF TypesInv
<1> QED BY <1>6, <1>7

\* Only the registrations of the listener that is added or removed change.
LEMMA ReplaceCounts ==
    ASSUME IInv, NEW t \in Threads, Replace(t), NEW l, l # change[t].who, NEW s \in Slots
    PROVE  Count(regs'[s], l) = Count(regs[s], l)
<1> DEFINE s0 == Head(change[t].slots)
           w == change[t].who
<1>1. /\ w \in Listeners /\ s0 \in Slots
      /\ regs'[s0] = IF change[t].add THEN Append(regs[s0], w) ELSE Without(regs[s0], w)
      /\ \A u \in Slots : u # s0 => regs'[u] = regs[u]
  BY ReplaceSlot
<1>2. regs[s0] \in Seq(Listeners) /\ w # l /\ Count(regs[s0], l) \in Nat
  BY <1>1, CountIsFinite DEF IInv, TypesInv
<1> HIDE DEF w, s0
<1>3. Count(Append(regs[s0], w), l) = Count(regs[s0], l)
  BY <1>1, <1>2, CountAppend
<1>4. Count(Without(regs[s0], w), l) = Count(regs[s0], l)
  BY <1>1, <1>2, CountWithout
<1> QED BY <1>1, <1>3, <1>4

LEMMA ReplaceInv == ASSUME IInv, NEW t \in Threads, Replace(t) PROVE IInv'
<1> USE DEF IInv
<1> DEFINE s == Head(change[t].slots)
           w == change[t].who
<1>1. /\ change[t] \in Changes /\ change[t] # None /\ s \in Slots /\ w \in Listeners
      /\ regs'[s] = IF change[t].add THEN Append(regs[s], w) ELSE Without(regs[s], w)
      /\ regs' \in [Slots -> Seq(Listeners)]
      /\ listeners' \in [Slots -> Trees] /\ Leaves(listeners'[s]) = regs'[s]
      /\ \A u \in Slots : u # s => regs'[u] = regs[u] /\ listeners'[u] = listeners[u]
  BY ReplaceSlot
<1>2. /\ t \in inside /\ inside' = inside \ {t} /\ UNCHANGED <<request, asked, alert>>
      /\ due' = IF alert = Quiet THEN due ELSE [due EXCEPT ![w] = Unsettled]
      /\ change' = [change EXCEPT ![t] = IF Len(change[t].slots) = 1 THEN None
                                         ELSE [change[t] EXCEPT !.slots = Tail(change[t].slots)]]
  <2>1. /\ t \in inside /\ inside' = inside \ {t} /\ UNCHANGED <<request, asked, alert>>
        /\ due' = IF alert = Quiet THEN due ELSE [due EXCEPT ![w] = Unsettled]
    BY DEF Replace
  <2>2. change' = [change EXCEPT ![t] = IF Len(change[t].slots) = 1 THEN None
                                        ELSE [change[t] EXCEPT !.slots = Tail(change[t].slots)]]
    BY Zenon DEF Replace
  <2> QED BY <2>1, <2>2
<1>3. /\ change'[t] \in Changes \cup {None}
      /\ change'[t] # None => change'[t].who = w /\ Len(change[t].slots) # 1
      /\ Len(change[t].slots) = 1 => change'[t] = None
      /\ \A u \in Threads : u # t => change'[u] = change[u]
  <2> DEFINE c == [change[t] EXCEPT !.slots = Tail(change[t].slots)]
  <2>1. Len(change[t].slots) # 1 => c \in Changes /\ c.who = w
    <3>1. /\ change[t].slots \in Seq(Slots) \ {<<>>}
          /\ change[t] \in [add : BOOLEAN, who : Listeners, slots : Seq(Slots) \ {<<>>}, seen : Trees]
      BY <1>1 DEF Changes
    <3>2. Len(change[t].slots) # 1 => Tail(change[t].slots) \in Seq(Slots) \ {<<>>}
      BY <3>1, Basics
    <3> DEFINE tl == Tail(change[t].slots)
    <3> HIDE DEF tl
    <3>3. tl \in Seq(Slots) \ {<<>>} => [change[t] EXCEPT !.slots = tl] \in Changes
                                        /\ [change[t] EXCEPT !.slots = tl].who = change[t].who
      BY <3>1 DEF Changes
    <3> QED BY <3>2, <3>3 DEF tl
  <2> HIDE DEF c
  <2>2. change' = [change EXCEPT ![t] = IF Len(change[t].slots) = 1 THEN None ELSE c]
    BY <1>2 DEF c
  <2> HIDE DEF w
  <2> QED BY <2>1, <2>2 DEF TypesInv
<1>4. change' \in [Threads -> Changes \cup {None}]
  BY <1>2, <1>3 DEF TypesInv
<1>5. due' \in [Listeners -> Int \cup {Unsettled}] /\ (alert # Quiet => due'[w] = Unsettled)
      /\ \A l \in Listeners : l # w => due'[l] = due[l]
  BY <1>1, <1>2 DEF TypesInv
<1>6. inside' = {}
  BY <1>2 DEF MonitorInv
<1> HIDE DEF s, w
<1>7. TypesInv'
  BY <1>1, <1>2, <1>4, <1>5, <1>6 DEF TypesInv
<1>8. MonitorInv'
  BY <1>6 DEF MonitorInv
<1>9. IF t \in Requests THEN w = t /\ change[t].slots = <<Reply>> ELSE w \in Apps
  BY <1>1 DEF OwnersInv, w
<1>10. t \in Requests => change'[t] = None /\ s = Reply
  <2>1. Len(<<Reply>>) = 1 /\ Head(<<Reply>>) = Reply
    OBVIOUS
  <2> QED BY <1>3, <1>9, <2>1, Zenon DEF s
<1>11. OwnersInv'
  BY <1>3, <1>9, <1>10 DEF OwnersInv
<1>12. RequestInv'
  <2> SUFFICES ASSUME NEW r \in Requests
               PROVE  /\ request[r].at \in {"idle", "await", "remove"} => change'[r] = None
                      /\ change'[r] # None => (change'[r].add <=> request[r].at = "add")
                      /\ Count(regs'[Reply], r) =
                           IF request[r].at = "idle" THEN 0
                           ELSE IF request[r].at = "add" THEN (IF change'[r] = None THEN 1 ELSE 0)
                           ELSE IF request[r].at = "done" THEN (IF change'[r] = None THEN 0 ELSE 1)
                           ELSE 1
                      /\ r \in asked \/ r = alert.target
                           => request[r].at \in {"await", "remove", "done"}
    BY <1>2 DEF RequestInv
  <2>1. CASE r # t
    <3>1. r # w
      <4>1. \A a \in Apps : a \notin Requests
        OBVIOUS
      <4> QED BY <1>9, <2>1, <4>1
    <3>2. Count(regs'[Reply], r) = Count(regs[Reply], r)
      BY <3>1, Basics, ReplaceCounts DEF w
    <3>3. change'[r] = change[r]
      BY <1>3, <2>1, Basics
    <3> QED BY <3>2, <3>3 DEF RequestInv
  <2>2. CASE r = t
    <3>1. w = r /\ s = Reply /\ change'[r] = None
      BY <1>9, <1>10, <2>2
    <3>2. regs[Reply] \in Seq(Listeners) /\ r \in Listeners
      BY Basics DEF TypesInv
    <3>3. request[r].at \in {"add", "done"} /\ (change[r].add <=> request[r].at = "add")
          /\ Count(regs[Reply], r) = IF request[r].at = "add" THEN 0 ELSE 1
      <4>1. request[r].at \in Places
        BY DEF TypesInv
      <4> QED BY <1>1, <2>2, <4>1 DEF RequestInv, Places
    <3>4. Count(regs'[Reply], r) = IF request[r].at = "add" THEN 1 ELSE 0
      <4>1. CASE request[r].at = "add"
        <5>1. regs'[Reply] = Append(regs[Reply], r)
          BY <1>1, <2>2, <3>1, <3>3, <4>1
        <5>2. Count(Append(regs[Reply], r), r) = Count(regs[Reply], r) + 1
          BY <3>2, CountAppend
        <5> QED BY <3>3, <4>1, <5>1, <5>2
      <4>2. CASE request[r].at = "done"
        <5>1. regs'[Reply] = Without(regs[Reply], r)
          BY <1>1, <2>2, <3>1, <3>3, <4>2
        <5>2. Count(regs[Reply], r) = 1
          BY <3>3, <4>2
        <5>3. Count(Without(regs[Reply], r), r) = 0
          BY <3>2, <5>2, CountWithout
        <5> QED BY <4>2, <5>1, <5>3
      <4> QED BY <3>3, <4>1, <4>2
    <3> QED BY <3>1, <3>3, <3>4 DEF RequestInv
  <2> QED BY <2>1, <2>2
<1>13. AlertInv' /\ AnswerInv'
  BY <1>2 DEF AlertInv, AnswerInv
<1>14. DueInv'
  <2>1. CASE alert = Quiet
    BY <1>2, <2>1 DEF DueInv, StillDue, PassedOver, Quiet
  <2>2. CASE alert # Quiet
    <3> SUFFICES ASSUME NEW l \in Listeners, due'[l] # Unsettled PROVE due'[l] = StillDue(l)'
      BY DEF DueInv
    <3>1. l # w /\ due'[l] = due[l]
      BY <1>5, <2>2
    <3>2. \A u \in Slots : Count(regs'[u], l) = Count(regs[u], l)
      BY <3>1, ReplaceCounts DEF w
    <3>3. StillDue(l)' = StillDue(l)
      <4>1. alert.type \in Slots /\ All \in Slots
        BY Basics DEF TypesInv
      <4> QED BY <1>2, <3>2, <4>1 DEF StillDue, ToAll, PassedOver
    <3> QED BY <3>1, <3>3 DEF DueInv
  <2> QED BY <2>1, <2>2
<1>15. RegistrationsKept'
  BY <1>1 DEF RegistrationsKept
<1> QED BY <1>7, <1>8, <1>11, <1>12, <1>13, <1>14, <1>15

----------------------------------------------------------------------------
(* The steps of a request. *)

LEMMA GoesTypes ==
    ASSUME TypesInv, NEW r \in Requests, NEW from, NEW to \in Places, Goes(r, from, to)
    PROVE  /\ request' \in [Requests -> [at : Places, result : BOOLEAN]]
           /\ request[r].at = from /\ request'[r].at = to
           /\ request'[r].result = request[r].result
           /\ \A q \in Requests : q # r => request'[q] = request[q]
<1>1. request[r].at = from /\ request' = [request EXCEPT ![r].at = to]
  BY DEF Goes
<1>2. /\ request \in [Requests -> [at : Places, result : BOOLEAN]]
      /\ request[r] \in [at : Places, result : BOOLEAN]
  BY DEF TypesInv
<1>3. request'[r] = [request[r] EXCEPT !.at = to]
  BY <1>1, <1>2
<1>4. /\ request'[r] \in [at : Places, result : BOOLEAN]
      /\ request'[r].at = to /\ request'[r].result = request[r].result
  BY <1>2, <1>3
<1>5. \A q \in Requests : q # r => request'[q] = request[q]
  BY <1>1, <1>2
<1>6. request' \in [Requests -> [at : Places, result : BOOLEAN]]
  <2> HIDE DEF Places
  <2> QED BY <1>1, <1>2, <1>4
<1> QED BY <1>1, <1>4, <1>5, <1>6

\* A request whose thread goes on does not lose the answer it has.
LEMMA GoesAnswer ==
    ASSUME IInv, NEW r \in Requests, NEW from, NEW to \in Places, Goes(r, from, to),
           to = "await" => from = "add", UNCHANGED alert
    PROVE  AnswerInv'
<1> USE DEF IInv
<1>1. /\ request[r].at = from /\ request'[r].at = to
      /\ request'[r].result = request[r].result
      /\ \A q \in Requests : q # r => request'[q] = request[q]
  BY GoesTypes
<1>2. SUFFICES ASSUME alert.target # Null, ~alert.threw, request'[alert.target].at = "await"
               PROVE  /\ alert.step = "callTyped" =>
                           request'[alert.target].result \/ Count(alert.todo, alert.target) > 0
                      /\ alert.step = "all" => request'[alert.target].result
  BY DEF AnswerInv
<1>3. alert.target \in Requests
  BY <1>2 DEF TypesInv
<1>4. request[alert.target].at # "add"
  BY <1>3 DEF RequestInv
<1>5. alert.target # r
  BY <1>1, <1>2, <1>4
<1> QED BY <1>1, <1>2, <1>3, <1>5 DEF AnswerInv

\* What a step keeps that does not touch the listeners, the alert or the calls
\* that are due.
LEMMA FrameInv ==
    ASSUME IInv, UNCHANGED <<listeners, alert, due, regs>>
    PROVE  AlertInv' /\ DueInv' /\ RegistrationsKept'
  BY DEF IInv, AlertInv, DueInv, StillDue, ToAll, PassedOver, RegistrationsKept

\* RequestAdd and RequestRemove: the request's thread begins a change.
LEMMA RequestChangeInv ==
    ASSUME IInv, NEW r \in Requests, NEW from, NEW to, NEW add \in BOOLEAN,
           \/ from = "idle" /\ to = "add" /\ add
           \/ from = "remove" /\ to = "done" /\ ~add,
           Goes(r, from, to), StartChange(r, add, r),
           UNCHANGED <<listeners, inside, asked, alert, due, regs>>
    PROVE  IInv'
<1> USE DEF IInv
<1>1. to \in Places /\ r \in Listeners /\ r \in Threads
  BY Basics DEF Places
<1>2. /\ request' \in [Requests -> [at : Places, result : BOOLEAN]]
      /\ request[r].at = from /\ request'[r].at = to
      /\ \A q \in Requests : q # r => request'[q] = request[q]
  BY <1>1, GoesTypes
<1>3. /\ change' \in [Threads -> Changes \cup {None}]
      /\ change[r] = None /\ change'[r] # None
      /\ change'[r].add = add /\ change'[r].who = r /\ change'[r].slots = <<Reply>>
      /\ \A u \in Threads : u # r => change'[u] = change[u]
  BY <1>1, StartTypes, Basics
<1>4. TypesInv'
  BY <1>2, <1>3 DEF TypesInv
<1>5. MonitorInv'
  <2>1. \A u \in inside : u # r /\ u \in Threads
    BY <1>3 DEF MonitorInv, TypesInv
  <2> QED BY <1>3, <2>1 DEF MonitorInv, HasRoom
<1>6. OwnersInv'
  BY <1>1, <1>3 DEF OwnersInv
<1>7. RequestInv'
  <2> SUFFICES ASSUME NEW q \in Requests
               PROVE  /\ request'[q].at \in {"idle", "await", "remove"} => change'[q] = None
                      /\ change'[q] # None => (change'[q].add <=> request'[q].at = "add")
                      /\ Count(regs[Reply], q) =
                           IF request'[q].at = "idle" THEN 0
                           ELSE IF request'[q].at = "add" THEN (IF change'[q] = None THEN 1 ELSE 0)
                           ELSE IF request'[q].at = "done" THEN (IF change'[q] = None THEN 0 ELSE 1)
                           ELSE 1
                      /\ q \in asked \/ q = alert.target
                           => request'[q].at \in {"await", "remove", "done"}
    BY DEF RequestInv
  <2>1. CASE q = r
    BY <1>2, <1>3, <2>1 DEF RequestInv
  <2>2. CASE q # r
    <3>1. request'[q] = request[q] /\ change'[q] = change[q]
      BY <1>2, <1>3, <2>2, Basics
    <3> QED BY <3>1 DEF RequestInv
  <2> QED BY <2>1, <2>2
<1>8. AnswerInv'
  BY <1>1, GoesAnswer
<1> QED BY <1>4, <1>5, <1>6, <1>7, <1>8, FrameInv

\* RequestAsk, RequestAskFails and RequestAwait: it goes on, its listener
\* registered.
LEMMA RequestGoesInv ==
    ASSUME IInv, NEW r \in Requests, NEW from, NEW to, Goes(r, from, to),
           \/ from = "add" /\ to = "await" /\ change[r] = None /\ asked' = asked \cup {r}
           \/ from = "add" /\ to = "remove" /\ change[r] = None /\ UNCHANGED asked
           \/ from = "await" /\ to = "remove" /\ UNCHANGED asked,
           UNCHANGED <<listeners, inside, change, alert, due, regs>>
    PROVE  IInv'
<1> USE DEF IInv
<1>1. to \in Places
  BY DEF Places
<1>2. /\ request' \in [Requests -> [at : Places, result : BOOLEAN]]
      /\ request[r].at = from /\ request'[r].at = to
      /\ \A q \in Requests : q # r => request'[q] = request[q]
  BY <1>1, GoesTypes
<1>3. TypesInv'
  BY <1>2 DEF TypesInv
<1>4. MonitorInv' /\ OwnersInv'
  BY DEF MonitorInv, HasRoom, OwnersInv
<1>5. RequestInv'
  <2> SUFFICES ASSUME NEW q \in Requests
               PROVE  /\ request'[q].at \in {"idle", "await", "remove"} => change[q] = None
                      /\ change[q] # None => (change[q].add <=> request'[q].at = "add")
                      /\ Count(regs[Reply], q) =
                           IF request'[q].at = "idle" THEN 0
                           ELSE IF request'[q].at = "add" THEN (IF change[q] = None THEN 1 ELSE 0)
                           ELSE IF request'[q].at = "done" THEN (IF change[q] = None THEN 0 ELSE 1)
                           ELSE 1
                      /\ q \in asked' \/ q = alert.target
                           => request'[q].at \in {"await", "remove", "done"}
    BY DEF RequestInv
  <2>1. CASE q = r
    BY <1>2, <2>1 DEF RequestInv
  <2>2. CASE q # r
    <3>1. request'[q] = request[q] /\ (q \in asked' <=> q \in asked)
      BY <1>2, <2>2
    <3> QED BY <3>1 DEF RequestInv
  <2> QED BY <2>1, <2>2
<1>6. AnswerInv'
  BY <1>1, GoesAnswer
<1> QED BY <1>3, <1>4, <1>5, <1>6, FrameInv

LEMMA RequestStepsInv ==
    ASSUME IInv, NEW r \in Requests,
           \/ RequestAdd(r) \/ RequestAsk(r) \/ RequestAskFails(r)
           \/ RequestAwait(r) \/ RequestRemove(r)
    PROVE  IInv'
<1>1. CASE RequestAdd(r)
  <2>1. Goes(r, "idle", "add") /\ StartChange(r, TRUE, r)
        /\ UNCHANGED <<listeners, inside, asked, alert, due, regs>>
    BY <1>1 DEF RequestAdd
  <2> QED BY <2>1, RequestChangeInv
<1>2. CASE RequestAsk(r)
  <2>1. Goes(r, "add", "await") /\ change[r] = None /\ asked' = asked \cup {r}
        /\ UNCHANGED <<listeners, inside, change, alert, due, regs>>
    BY <1>2 DEF RequestAsk
  <2> QED BY <2>1, RequestGoesInv
<1>3. CASE RequestAskFails(r)
  <2>1. Goes(r, "add", "remove") /\ change[r] = None /\ UNCHANGED asked
        /\ UNCHANGED <<listeners, inside, change, alert, due, regs>>
    BY <1>3 DEF RequestAskFails
  <2> QED BY <2>1, RequestGoesInv
<1>4. CASE RequestAwait(r)
  <2>1. Goes(r, "await", "remove") /\ UNCHANGED asked
        /\ UNCHANGED <<listeners, inside, change, alert, due, regs>>
    BY <1>4 DEF RequestAwait
  <2> QED BY <2>1, RequestGoesInv
<1>5. CASE RequestRemove(r)
  <2>1. Goes(r, "remove", "done") /\ StartChange(r, FALSE, r)
        /\ UNCHANGED <<listeners, inside, asked, alert, due, regs>>
    BY <1>5 DEF RequestRemove
  <2> QED BY <2>1, RequestChangeInv
<1> QED BY <1>1, <1>2, <1>3, <1>4, <1>5

----------------------------------------------------------------------------
(* The steps of the alerts thread. *)

LEMMA AlertFrame ==
    ASSUME IInv, UNCHANGED <<listeners, inside, change, regs>>,
           \A r \in Requests :
               /\ request'[r].at = request[r].at
               /\ r \in asked' \/ r = alert'.target => r \in asked \/ r = alert.target
    PROVE  MonitorInv' /\ OwnersInv' /\ RequestInv' /\ RegistrationsKept'
<1> USE DEF IInv
<1>1. MonitorInv' /\ OwnersInv'
  BY DEF MonitorInv, OwnersInv, HasRoom
<1>2. RequestInv'
  BY DEF RequestInv
<1>3. RegistrationsKept'
  BY DEF RegistrationsKept
<1> QED BY <1>1, <1>2, <1>3

LEMMA CountsAreNumbers ==
    ASSUME TypesInv
    PROVE  /\ \A s \in Slots : \A l : Count(regs[s], l) \in Nat
           /\ \A l : Count(alert.todo, l) \in Nat /\ ToAll(l) \in Nat /\ Count(<<>>, l) = 0
<1>1. \A s \in Slots : \A l : Count(regs[s], l) \in Nat
  BY CountIsFinite DEF TypesInv
<1>2. \A l : Count(alert.todo, l) \in Nat
  BY CountIsFinite DEF TypesInv
<1>3. \A l : Count(<<>>, l) = 0
  BY FS_EmptySet DEF Count
<1>4. \A l : ToAll(l) \in Nat
  BY <1>1, Basics DEF ToAll
<1> QED BY <1>1, <1>2, <1>3, <1>4

LEMMA TakeAlertInv ==
    ASSUME IInv, NEW type \in Types, NEW target \in Requests \cup {Null}, TakeAlert(type, target)
    PROVE  IInv'
<1> USE DEF IInv
<1> DEFINE N(l) == Count(regs[type], l) + Count(regs[All], l)
           W(l) == \E t \in Threads : change[t].who = l
<1>1. /\ target \in asked \cup {Null} /\ (target # Null => type = Reply)
      /\ asked' = asked \ {target}
      /\ UNCHANGED <<listeners, inside, change, request, regs>>
  BY DEF TakeAlert
<1>2. alert' = [step |-> "typed", type |-> type, target |-> target, todo |-> <<>>,
                called |-> Null, threw |-> FALSE]
  BY DEF TakeAlert
<1>3. due' = [l \in Listeners |-> IF W(l) THEN Unsettled ELSE N(l)]
  BY DEF TakeAlert
<1>4. \A l : N(l) \in Nat
  <2>1. \A l : Count(regs[type], l) \in Nat /\ Count(regs[All], l) \in Nat
    BY CountsAreNumbers, Basics
  <2> QED BY <2>1
<1> HIDE DEF N, W
<1>5. due' \in [Listeners -> Int \cup {Unsettled}]
  BY <1>3, <1>4
<1>6. /\ alert'.step = "typed" /\ alert'.type = type /\ alert'.target = target
      /\ alert' \in [step : Steps, type : Slots, target : Requests \cup {Null},
                     todo : Seq(Listeners), called : Listeners \cup {Null}, threw : BOOLEAN]
  BY <1>2, Basics DEF Steps
<1>7. TypesInv'
  BY <1>1, <1>5, <1>6 DEF TypesInv
<1>8. MonitorInv' /\ OwnersInv' /\ RequestInv' /\ RegistrationsKept'
  <2>1. \A r \in Requests : r \in asked' \/ r = alert'.target => r \in asked \/ r = alert.target
    BY <1>1, <1>6, Basics
  <2> QED BY <1>1, <2>1, AlertFrame
<1>9. AlertInv' /\ AnswerInv'
  BY <1>1, <1>6 DEF AlertInv, AnswerInv
<1>10. DueInv'
  <2> SUFFICES ASSUME NEW l \in Listeners, due'[l] # Unsettled PROVE due'[l] = StillDue(l)'
    BY DEF DueInv
  <2>1. due'[l] = N(l)
    BY <1>3
  <2>2. StillDue(l)' = N(l)
    BY <1>1, <1>6 DEF StillDue, ToAll, PassedOver, N
  <2> QED BY <2>1, <2>2
<1> QED BY <1>7, <1>8, <1>9, <1>10

\* The tree of a slot has the registrations of the slot.
LEMMA FireTodo ==
    ASSUME IInv, NEW s \in Slots
    PROVE  Leaves(listeners[s]) = regs[s] /\ regs[s] \in Seq(Listeners)
  BY DEF IInv, RegistrationsKept, TypesInv

\* A step of the alerts thread that leaves the type and the target alone.
LEMMA AlertStepTypes ==
    ASSUME TypesInv, NEW step \in Steps, NEW todo \in Seq(Listeners),
           NEW called \in Listeners \cup {Null}, NEW threw \in BOOLEAN,
           alert' = [alert EXCEPT !.step = step, !.todo = todo, !.called = called, !.threw = threw]
    PROVE  /\ alert' \in [step : Steps, type : Slots, target : Requests \cup {Null},
                          todo : Seq(Listeners), called : Listeners \cup {Null}, threw : BOOLEAN]
           /\ alert'.step = step /\ alert'.todo = todo /\ alert'.threw = threw
           /\ alert'.type = alert.type /\ alert'.target = alert.target
  BY DEF TypesInv

LEMMA FireInv == ASSUME IInv, FireTyped \/ FireAll PROVE IInv'
<1> USE DEF IInv
<1> DEFINE s == IF alert.step = "typed" THEN alert.type ELSE All
           step == IF alert.step = "typed" THEN "callTyped" ELSE "callAll"
           todo == IF alert.step # "typed" /\ alert.type \in Special THEN <<>> ELSE Leaves(listeners[s])
<1>1. /\ alert.step \in {"typed", "all"}
      /\ UNCHANGED <<listeners, inside, change, request, asked, due, regs>>
  BY DEF FireTyped, FireAll
<1>2. s \in Slots /\ alert.type \in Slots /\ All \in Slots
  BY Basics DEF TypesInv
<1>3. Leaves(listeners[s]) = regs[s] /\ regs[s] \in Seq(Listeners)
  <2> HIDE DEF s
  <2> QED BY <1>2, FireTodo
<1>4. alert' = [alert EXCEPT !.step = step, !.todo = todo, !.called = alert.called,
                             !.threw = alert.threw]
  BY DEF FireTyped, FireAll, TypesInv
<1>5. step \in Steps /\ todo \in Seq(Listeners)
      /\ alert.called \in Listeners \cup {Null} /\ alert.threw \in BOOLEAN
  BY <1>3 DEF TypesInv, Steps
<1> HIDE DEF step, todo, s
<1>6. /\ alert' \in [step : Steps, type : Slots, target : Requests \cup {Null},
                     todo : Seq(Listeners), called : Listeners \cup {Null}, threw : BOOLEAN]
      /\ alert'.step = step /\ alert'.todo = todo /\ alert'.threw = alert.threw
      /\ alert'.type = alert.type /\ alert'.target = alert.target
  BY <1>4, <1>5, AlertStepTypes
<1>7. TypesInv'
  BY <1>1, <1>6 DEF TypesInv
<1>8. MonitorInv' /\ OwnersInv' /\ RequestInv' /\ RegistrationsKept'
  BY <1>1, <1>6, AlertFrame
<1>9. AlertInv'
  BY <1>1, <1>6 DEF AlertInv, step
<1>10. DueInv'
  <2> SUFFICES ASSUME NEW l \in Listeners, due[l] # Unsettled PROVE due[l] = StillDue(l)'
    BY <1>1 DEF DueInv
  <2>1. /\ due[l] = StillDue(l) /\ Count(<<>>, l) = 0 /\ ToAll(l) \in Nat
        /\ Count(regs[s], l) \in Nat /\ Count(todo, l) \in Nat
    BY <1>2, <1>5, CountsAreNumbers, CountIsFinite DEF DueInv
  <2>2. CASE alert.step = "typed"
    <3>1. todo = regs[alert.type] /\ step = "callTyped" /\ ToAll(l)' = ToAll(l)
      BY <1>1, <1>3, <1>6, <2>2 DEF todo, step, s, ToAll
    <3>2. StillDue(l)' = Count(todo, l) + ToAll(l)
      BY <1>6, <3>1 DEF StillDue
    <3> QED BY <2>1, <2>2, <3>1, <3>2 DEF StillDue
  <2>3. CASE alert.step = "all"
    <3>1. step = "callAll" /\ StillDue(l) = 0 + ToAll(l)
      BY <2>3 DEF step, StillDue
    <3>2. ToAll(l)' = ToAll(l)
      BY <1>1 DEF ToAll
    <3>3. CASE alert.type \in Special
      <4>1. Count(todo, l) = 0
        BY <2>1, <2>3, <3>3 DEF todo
      <4>2. StillDue(l)' = Count(todo, l) + ToAll(l)
        BY <1>6, <3>1, <3>2, <3>3 DEF StillDue, PassedOver
      <4> QED BY <2>1, <3>1, <4>1, <4>2
    <3>4. CASE alert.type \notin Special
      <4>1. Count(todo, l) = ToAll(l)
        BY <1>3, <2>1, <2>3, <3>4 DEF todo, s, ToAll
      <4>2. StillDue(l)' = Count(todo, l) + 0
        BY <1>6, <3>1, <3>4 DEF StillDue, PassedOver
      <4> QED BY <2>1, <3>1, <4>1, <4>2
    <3> QED BY <3>3, <3>4
  <2> QED BY <1>1, <2>2, <2>3
<1>11. AnswerInv'
  <2> SUFFICES ASSUME alert.target # Null, ~alert.threw, request[alert.target].at = "await"
               PROVE  /\ step = "callTyped" => Count(todo, alert.target) > 0
                      /\ step # "all"
    BY <1>1, <1>6 DEF AnswerInv
  <2>1. alert.target \in Requests /\ alert.type = Reply
    BY DEF AlertInv, TypesInv
  <2>2. Count(regs[Reply], alert.target) = 1
    BY <2>1 DEF RequestInv
  <2>3. step = "callTyped" => todo = regs[Reply]
    BY <1>1, <1>3, <2>1 DEF step, todo, s
  <2> QED BY <2>2, <2>3 DEF step
<1> QED BY <1>7, <1>8, <1>9, <1>10, <1>11

\* The listener at the head of the list gets the alert.
LEMMA CallInv == ASSUME IInv, Call PROVE IInv'
<1> USE DEF IInv
<1> DEFINE l == Head(alert.todo)
           todo == Tail(alert.todo)
<1>1. /\ alert.step \in {"callTyped", "callAll"} /\ alert.todo # <<>>
      /\ UNCHANGED <<listeners, inside, change, asked, regs>>
      /\ due' = [due EXCEPT ![l] = IF due[l] = Unsettled THEN due[l] ELSE due[l] - 1]
      /\ request' = IF l = alert.target THEN [request EXCEPT ![l].result = TRUE] ELSE request
  BY DEF Call, Calling
<1>2. alert.todo \in Seq(Listeners) /\ l \in Listeners /\ todo \in Seq(Listeners)
  <2>1. alert.todo \in Seq(Listeners)
    BY DEF TypesInv
  <2> QED BY <1>1, <2>1
<1>3. alert' = [alert EXCEPT !.step = alert.step, !.todo = todo, !.called = l,
                             !.threw = alert.threw]
  BY DEF Call, TypesInv
<1>4. \A k : Count(alert.todo, k) = Count(todo, k) + IF l = k THEN 1 ELSE 0
  BY <1>1, <1>2, CountTail
<1> HIDE DEF l, todo
<1>5. alert.step \in Steps /\ alert.threw \in BOOLEAN /\ l \in Listeners \cup {Null}
  BY <1>2 DEF TypesInv
<1>6. /\ alert' \in [step : Steps, type : Slots, target : Requests \cup {Null},
                     todo : Seq(Listeners), called : Listeners \cup {Null}, threw : BOOLEAN]
      /\ alert'.step = alert.step /\ alert'.todo = todo /\ alert'.threw = alert.threw
      /\ alert'.type = alert.type /\ alert'.target = alert.target
  BY <1>2, <1>3, <1>5, AlertStepTypes
<1>7. /\ due' \in [Listeners -> Int \cup {Unsettled}]
      /\ due'[l] = IF due[l] = Unsettled THEN Unsettled ELSE due[l] - 1
      /\ \A k \in Listeners : k # l => due'[k] = due[k]
  <2> DEFINE d == IF due[l] = Unsettled THEN due[l] ELSE due[l] - 1
  <2>1. due[l] \in Int \cup {Unsettled} /\ due \in [Listeners -> Int \cup {Unsettled}]
    BY <1>2 DEF TypesInv
  <2>2. d \in Int \cup {Unsettled} /\ d = IF due[l] = Unsettled THEN Unsettled ELSE due[l] - 1
    BY <2>1
  <2> HIDE DEF d
  <2>3. due' = [due EXCEPT ![l] = d]
    BY <1>1 DEF d
  <2> QED BY <1>2, <2>1, <2>2, <2>3
<1>8. /\ request' \in [Requests -> [at : Places, result : BOOLEAN]]
      /\ \A r \in Requests : request'[r].at = request[r].at
      /\ \A r \in Requests : request[r].result => request'[r].result
      /\ l = alert.target /\ l \in Requests => request'[l].result
  <2>1. request \in [Requests -> [at : Places, result : BOOLEAN]]
    BY DEF TypesInv
  <2>2. CASE l = alert.target
    <3>1. l \in Requests
      BY <1>2, <2>2 DEF TypesInv
    <3>2. request' = [request EXCEPT ![l].result = TRUE]
      BY <1>1, <2>2
    <3> QED BY <2>1, <3>1, <3>2
  <2>3. CASE l # alert.target
    BY <1>1, <2>1, <2>3
  <2> QED BY <2>2, <2>3
<1>9. TypesInv'
  BY <1>1, <1>6, <1>7, <1>8 DEF TypesInv
<1>10. MonitorInv' /\ OwnersInv' /\ RequestInv' /\ RegistrationsKept'
  BY <1>1, <1>6, <1>8, AlertFrame
<1>11. AlertInv'
  BY <1>1, <1>6 DEF AlertInv
<1>12. DueInv'
  <2> SUFFICES ASSUME NEW k \in Listeners, due'[k] # Unsettled PROVE due'[k] = StillDue(k)'
    BY DEF DueInv
  <2>1. due[k] = StillDue(k) /\ due'[k] = due[k] - IF k = l THEN 1 ELSE 0
    <3>1. due[k] # Unsettled
      BY <1>7
    <3>2. due[k] \in Int
      BY <3>1 DEF TypesInv
    <3> QED BY <1>7, <3>1, <3>2 DEF DueInv
  <2>2. Count(alert.todo, k) \in Nat /\ Count(todo, k) \in Nat /\ ToAll(k) \in Nat
    BY <1>2, CountsAreNumbers, CountIsFinite
  <2>3. ToAll(k)' = ToAll(k)
    BY <1>1, <1>6 DEF ToAll
  <2>4. /\ StillDue(k) = Count(alert.todo, k)
             + IF alert.step = "callTyped" \/ PassedOver THEN ToAll(k) ELSE 0
        /\ StillDue(k)' = Count(todo, k)
             + IF alert.step = "callTyped" \/ PassedOver THEN ToAll(k) ELSE 0
    BY <1>1, <1>6, <2>3 DEF StillDue, PassedOver
  <2> QED BY <1>4, <2>1, <2>2, <2>4
<1>13. AnswerInv'
  <2> SUFFICES ASSUME alert.target # Null, ~alert.threw, request[alert.target].at = "await"
               PROVE  /\ alert.step = "callTyped" =>
                           request'[alert.target].result \/ Count(todo, alert.target) > 0
                      /\ alert.step # "all"
    <3>1. alert.target # Null => alert.target \in Requests
      BY DEF TypesInv
    <3> QED BY <1>6, <1>8, <3>1 DEF AnswerInv
  <2>1. alert.target \in Requests
    BY DEF TypesInv
  <2>2. CASE l = alert.target
    BY <1>1, <1>8, <2>1, <2>2
  <2>3. CASE l # alert.target
    <3>1. Count(todo, alert.target) \in Nat /\ Count(alert.todo, alert.target) = Count(todo, alert.target) + 0
      BY <1>2, <1>4, <2>3, CountIsFinite
    <3>2. alert.step = "callTyped" =>
             request[alert.target].result \/ Count(alert.todo, alert.target) > 0
      BY DEF AnswerInv
    <3> QED BY <1>1, <1>8, <2>1, <3>1, <3>2
  <2> QED BY <2>2, <2>3
<1> QED BY <1>9, <1>10, <1>11, <1>12, <1>13

\* A listener that throws ends the calls for its slot.
LEMMA CallThrowsInv == ASSUME IInv, CallThrows PROVE IInv'
<1> USE DEF IInv
<1>1. /\ alert.step \in {"callTyped", "callAll"} /\ alert.todo \in Seq(Listeners)
      /\ UNCHANGED <<listeners, inside, change, request, asked, regs>>
      /\ due' = [l \in Listeners |-> IF \E i \in DOMAIN alert.todo : alert.todo[i] = l
                                     THEN Unsettled ELSE due[l]]
  BY DEF CallThrows, Calling, TypesInv
<1>2. alert' = [alert EXCEPT !.step = alert.step, !.todo = <<>>, !.called = Null, !.threw = TRUE]
  BY DEF CallThrows, TypesInv
<1>3. alert.step \in Steps /\ <<>> \in Seq(Listeners)
  BY DEF TypesInv
<1>4. /\ alert' \in [step : Steps, type : Slots, target : Requests \cup {Null},
                     todo : Seq(Listeners), called : Listeners \cup {Null}, threw : BOOLEAN]
      /\ alert'.step = alert.step /\ alert'.todo = <<>> /\ alert'.threw = TRUE
      /\ alert'.type = alert.type /\ alert'.target = alert.target
  BY <1>2, <1>3, AlertStepTypes
<1>5. due' \in [Listeners -> Int \cup {Unsettled}]
  BY <1>1 DEF TypesInv
<1>6. TypesInv'
  BY <1>1, <1>4, <1>5 DEF TypesInv
<1>7. MonitorInv' /\ OwnersInv' /\ RequestInv' /\ RegistrationsKept'
  BY <1>1, <1>4, AlertFrame
<1>8. AlertInv' /\ AnswerInv'
  BY <1>1, <1>4 DEF AlertInv, AnswerInv
<1>9. DueInv'
  <2> SUFFICES ASSUME NEW k \in Listeners, due'[k] # Unsettled PROVE due'[k] = StillDue(k)'
    BY DEF DueInv
  <2>1. due'[k] = due[k] /\ ~ \E i \in DOMAIN alert.todo : alert.todo[i] = k
    BY <1>1
  <2>2. due[k] = StillDue(k) /\ Count(alert.todo, k) = 0 /\ Count(<<>>, k) = 0
    BY <1>1, <2>1, CountIsFinite, CountsAreNumbers DEF DueInv
  <2>3. ToAll(k)' = ToAll(k)
    BY <1>1, <1>4 DEF ToAll
  <2>4. PassedOver' <=> PassedOver
    BY <1>4 DEF PassedOver
  <2> QED BY <1>1, <1>4, <2>1, <2>2, <2>3, <2>4 DEF StillDue
<1> QED BY <1>6, <1>7, <1>8, <1>9

LEMMA CallsDoneInv == ASSUME IInv, CallsDone PROVE IInv'
<1> USE DEF IInv
<1> DEFINE step == IF alert.step = "callTyped" THEN "all" ELSE "end"
<1>1. /\ alert.step \in {"callTyped", "callAll"} /\ alert.todo = <<>>
      /\ UNCHANGED <<listeners, inside, change, request, asked, due, regs>>
  BY DEF CallsDone, Calling
<1>2. alert' = [alert EXCEPT !.step = step, !.todo = alert.todo, !.called = Null,
                             !.threw = alert.threw]
  BY DEF CallsDone, TypesInv
<1>3. step \in Steps /\ alert.todo \in Seq(Listeners) /\ alert.threw \in BOOLEAN
  BY DEF TypesInv, Steps
<1> HIDE DEF step
<1>4. /\ alert' \in [step : Steps, type : Slots, target : Requests \cup {Null},
                     todo : Seq(Listeners), called : Listeners \cup {Null}, threw : BOOLEAN]
      /\ alert'.step = step /\ alert'.todo = alert.todo /\ alert'.threw = alert.threw
      /\ alert'.type = alert.type /\ alert'.target = alert.target
  BY <1>2, <1>3, AlertStepTypes
<1>5. TypesInv'
  BY <1>1, <1>4 DEF TypesInv
<1>6. MonitorInv' /\ OwnersInv' /\ RequestInv' /\ RegistrationsKept'
  BY <1>1, <1>4, AlertFrame
<1>7. AlertInv'
  BY <1>1, <1>4 DEF AlertInv, step
<1>8. \A k : Count(alert.todo, k) = 0 /\ ToAll(k) \in Nat
  BY <1>1, CountsAreNumbers
<1>9. DueInv'
  <2> SUFFICES ASSUME NEW k \in Listeners, due[k] # Unsettled PROVE due[k] = StillDue(k)'
    BY <1>1 DEF DueInv
  <2>1. due[k] = StillDue(k) /\ ToAll(k)' = ToAll(k)
    BY <1>1, <1>4 DEF DueInv, ToAll
  <2>2. CASE alert.step = "callTyped"
    <3>1. StillDue(k) = 0 + ToAll(k) /\ StillDue(k)' = 0 + ToAll(k)
      BY <1>4, <1>8, <2>1, <2>2 DEF StillDue, step
    <3> QED BY <2>1, <3>1
  <2>3. CASE alert.step = "callAll"
    <3>1. PassedOver' <=> PassedOver
      BY <1>4, <2>3 DEF PassedOver, step
    <3>2. StillDue(k) = StillDue(k)'
      BY <1>4, <1>8, <2>1, <2>3, <3>1 DEF StillDue, step
    <3> QED BY <2>1, <3>2
  <2> QED BY <1>1, <2>2, <2>3
<1>10. AnswerInv'
  BY <1>1, <1>4, <1>8 DEF AnswerInv, step
<1> QED BY <1>5, <1>6, <1>7, <1>9, <1>10

LEMMA AlertEndInv == ASSUME IInv, AlertEnd PROVE IInv'
<1> USE DEF IInv
<1>1. /\ alert' = Quiet /\ due' = [l \in Listeners |-> 0]
      /\ UNCHANGED <<listeners, inside, change, request, asked, regs>>
  BY DEF AlertEnd
<1>2. TypesInv'
  <2>1. Quiet \in [step : Steps, type : Slots, target : Requests \cup {Null},
                   todo : Seq(Listeners), called : Listeners \cup {Null}, threw : BOOLEAN]
    BY Basics DEF Quiet, Steps
  <2> QED BY <1>1, <2>1 DEF TypesInv
<1>3. alert'.step = "wait" /\ alert'.target = Null
  BY <1>1 DEF Quiet
<1>4. MonitorInv' /\ OwnersInv' /\ RequestInv' /\ RegistrationsKept'
  BY <1>1, <1>3, Basics, AlertFrame
<1>5. AlertInv' /\ AnswerInv' /\ DueInv'
  BY <1>1, <1>3 DEF AlertInv, AnswerInv, DueInv, StillDue, PassedOver
<1> QED BY <1>2, <1>4, <1>5

----------------------------------------------------------------------------
(* The theorems. *)

\* Whatever threads add and remove listeners, requests come and go and alerts
\* are delivered, the inductive invariant holds.
THEOREM Invariance == Spec => []IInv
<1>1. ASSUME IInv, [Next]_vars PROVE IInv'
  <2>1. CASE \E t \in Threads : Enter(t) \/ Replace(t)
    BY <1>1, <2>1, EnterInv, ReplaceInv
  <2>2. CASE \E t \in {App, Alerts}, add \in BOOLEAN, l \in Apps : AppChange(t, add, l)
    BY <1>1, <2>2, AppChangeInv
  <2>3. CASE \E r \in Requests : \/ RequestAdd(r) \/ RequestAsk(r) \/ RequestAskFails(r)
                                 \/ RequestAwait(r) \/ RequestRemove(r)
    BY <1>1, <2>3, RequestStepsInv
  <2>4. CASE \E type \in Types, target \in Requests \cup {Null} : TakeAlert(type, target)
    BY <1>1, <2>4, TakeAlertInv
  <2>5. CASE FireTyped \/ FireAll
    BY <1>1, <2>5, FireInv
  <2>6. CASE Call \/ CallThrows \/ CallsDone \/ AlertEnd
    BY <1>1, <2>6, CallInv, CallThrowsInv, CallsDoneInv, AlertEndInv
  <2>7. CASE UNCHANGED vars
    BY <1>1, <2>7 DEF vars, IInv, TypesInv, MonitorInv, HasRoom, OwnersInv, RequestInv,
       AlertInv, DueInv, StillDue, ToAll, PassedOver, AnswerInv, RegistrationsKept
  <2> QED BY <1>1, <2>1, <2>2, <2>3, <2>4, <2>5, <2>6, <2>7 DEF Next
<1> QED BY <1>1, InitInv, PTL DEF Spec

\* modifyListeners() loses no registration and brings none back: every slot's
\* tree calls exactly the registered listeners, in order.
THEOREM RegistrationsAreKept == Spec => []RegistrationsKept
<1>1. IInv => RegistrationsKept
  BY DEF IInv
<1> QED BY <1>1, Invariance, PTL

\* fireAlert() calls a listener that is left alone once per registration, and an
\* all-types listener for a special type no more often than that.
THEOREM EachIsDeliveredOnce == Spec => []DeliveredOnce
<1>1. IInv => DeliveredOnce
  <2> SUFFICES ASSUME IInv, alert.step = "end", NEW l \in Listeners, due[l] # Unsettled
               PROVE  due[l] \in 0..(IF alert.type \in Special THEN Count(regs[All], l) ELSE 0)
    BY DEF DeliveredOnce
  <2>1. Count(regs[All], l) \in Nat
    BY CountsAreNumbers, Basics DEF IInv
  <2>2. due[l] = 0 + IF alert.type \in Special THEN Count(regs[All], l) ELSE 0
    BY DEF IInv, DueInv, StillDue, PassedOver, ToAll
  <2> QED BY <2>1, <2>2
<1> QED BY <1>1, Invariance, PTL

\* dhtGetItem() and dhtGetPeers() register before they ask: the answer does not
\* pass a request that waits for it.
THEOREM AnswersAreCaught == Spec => []AnswerIsCaught
<1>1. IInv => AnswerIsCaught
  BY DEF IInv, AnswerInv, AnswerIsCaught
<1> QED BY <1>1, Invariance, PTL

\* The finally block of a DHT request removes its listener on every path.
THEOREM RequestsLeaveNothing == Spec => []RequestLeavesNothing
<1>1. IInv => RequestLeavesNothing
  <2> SUFFICES ASSUME IInv, NEW r \in Requests, request[r].at = "done", change[r] = None
               PROVE  Count(Leaves(listeners[Reply]), r) = 0
    BY DEF RequestLeavesNothing
  <2>1. Leaves(listeners[Reply]) = regs[Reply]
    BY Basics, FireTodo
  <2> QED BY <2>1 DEF IInv, RequestInv
<1> QED BY <1>1, Invariance, PTL
=============================================================================
