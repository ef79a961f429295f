-------------------------- MODULE KThreadProofs ---------------------------
(***************************************************************************)
(* The operators of KThread keep the thread subsystem consistent, from the *)
(* id allocator and the list operations up to the operators that create,   *)
(* end and collect threads.                                                *)
(***************************************************************************)
EXTENDS KThread, TLAPS, FiniteSetTheorems, WellFoundedInduction

-----------------------------------------------------------------------------
(***************************************************************************)
(* What the operations of the id allocator do, for every number of ids.    *)
(***************************************************************************)
\* A non-empty set of natural numbers has a least element.
LEMMA LeastExists ==
  ASSUME NEW S \in SUBSET Nat, S # {}
  PROVE  \E n \in S : \A m \in S : n <= m
<1> DEFINE Less == {p \in Nat \X Nat : p[1] < p[2]}
<1>1. IsWellFoundedOn(Less, Nat)
  BY NatLessThanWellFounded DEF OpToRel
<1>2. PICK n \in S : \A m \in S : <<m, n>> \notin Less
  <2> HIDE DEF Less
  <2> QED BY <1>1, WFMin
<1>3. ASSUME NEW m \in S PROVE n <= m
  <2>1. m \in Nat /\ n \in Nat
    OBVIOUS
  <2>2. <<m, n>> \notin Less
    BY <1>2
  <2>3. ~(m < n)
    BY <2>1, <2>2
  <2> QED BY <2>1, <2>3
<1> QED BY <1>3

\* The array holds some of the ids, two at least.
LEMMA MaskBitsFact == MASK_BITS \in Nat /\ 1 < MASK_BITS /\ MASK_BITS <= MAX_RESOURCES
<1>1. /\ MAX_RESOURCES \in Nat /\ WBITS \in Nat /\ 1 < WBITS /\ WBITS <= MAX_RESOURCES
  BY MaxResourcesAssumption, WbitsAssumption
<1> DEFINE words == MAX_RESOURCES \div WBITS
<1>2. words \in Nat /\ words * WBITS <= MAX_RESOURCES /\ words >= 1
  BY <1>1
<1>3. words * WBITS \in Nat /\ words * WBITS >= WBITS
  <2> HIDE DEF words
  <2> QED BY <1>1, <1>2
<1> QED BY <1>1, <1>2, <1>3 DEF MASK_BITS

LEMMA InitialIdsType == InitialIds \in UniqueIdState
BY DEF InitialIds, UniqueIdState, Id, HaltReason

\* The value of a bit: as many as there are words of the bits below it.
LEMMA BitValue ==
  ASSUME NEW n \in Nat
  PROVE  2^n \in Nat \ {0}
<1>1. IsFiniteSet(1 .. n) /\ Cardinality(1 .. n) = n
  BY FS_Interval
<1>2. IsFiniteSet(SUBSET (1 .. n)) /\ Cardinality(SUBSET (1 .. n)) = 2^Cardinality(1 .. n)
  BY <1>1, FS_SUBSET
<1>3. Cardinality(SUBSET (1 .. n)) \in Nat
  BY <1>2, FS_CardinalityType
<1>4. SUBSET (1 .. n) # {}
  OBVIOUS
<1>5. Cardinality(SUBSET (1 .. n)) # 0
  BY <1>2, <1>4, FS_EmptySet
<1> QED BY <1>1, <1>2, <1>3, <1>5

(***************************************************************************)
(* What k_new_unique_id does when it does not halt: either the new id is   *)
(* one that was free and is not last_id, and only its bit in the array     *)
(* changes, or the id is past the mask and the array stays as it is.       *)
(***************************************************************************)
LEMMA NewIdFresh ==
  ASSUME NEW x \in UniqueIdState, FreeDistances(x) # {}
  PROVE  \/ \E id \in (0 .. MASK_BITS - 1) \ x.idmask :
              /\ id # x.last_id
              /\ k_new_unique_id(x) = [x EXCEPT !.last_id = id, !.idmask = @ \cup {id}]
         \/ \E id \in Id : id >= MASK_BITS /\ k_new_unique_id(x) = [x EXCEPT !.last_id = id]
<1> DEFINE n == CHOOSE n \in FreeDistances(x) : \A m \in FreeDistances(x) : n <= m
           v == Advance(x, n)
<1>1. FreeDistances(x) \subseteq Nat
  BY MaxResourcesAssumption DEF FreeDistances
<1>2. n \in FreeDistances(x)
  BY <1>1, LeastExists
<1>3. n \in 1 .. MAX_RESOURCES /\ v.last_id # x.last_id /\ ~IdBit(v, v.last_id)
  BY <1>2 DEF FreeDistances, LastBit
<1>4. k_new_unique_id(x) = SetIdBit(v, v.last_id)
  BY DEF k_new_unique_id, Least, SetLastBit
<1> HIDE DEF n
<1>5. PICK c \in 0 .. MAX_RESOURCES - 1 : v = [x EXCEPT !.last_id = c] /\ v.last_id = c
  <2>1. x.last_id \in Nat /\ n \in Nat /\ x.last_id + n \in Int
    BY <1>3, MaxResourcesAssumption DEF UniqueIdState, Id
  <2>2. (x.last_id + n) % MAX_RESOURCES \in 0 .. MAX_RESOURCES - 1
    BY <2>1, MaxResourcesAssumption
  <2>3. v = [x EXCEPT !.last_id = (x.last_id + n) % MAX_RESOURCES]
    BY DEF Advance, UniqueIdState
  <2>4. v.last_id = (x.last_id + n) % MAX_RESOURCES
    BY <2>3 DEF UniqueIdState
  <2> QED BY <2>2, <2>3, <2>4
<1>6. MASK_BITS \in Nat
  BY MaskBitsFact
<1>7. CASE c < MASK_BITS
  <2>1. c \in (0 .. MASK_BITS - 1) \ x.idmask /\ c # x.last_id
    BY <1>3, <1>5, <1>6, <1>7 DEF IdBit, UniqueIdState
  <2>2. k_new_unique_id(x) = [x EXCEPT !.last_id = c, !.idmask = @ \cup {c}]
    BY <1>4, <1>5, <1>7 DEF SetIdBit, UniqueIdState
  <2> QED BY <2>1, <2>2
<1>8. CASE ~(c < MASK_BITS)
  <2> DEFINE b == 2^(c % WBITS)
  <2>1. c % WBITS \in Nat
    BY <1>5, MaxResourcesAssumption, WbitsAssumption
  <2>2. b \in Nat
    BY <2>1, BitValue
  <2>3. k_new_unique_id(x) = [x EXCEPT !.last_id = c + b]
    BY <1>4, <1>5, <1>8 DEF SetIdBit, UniqueIdState
  <2> HIDE DEF b
  <2>4. c + b \in Id /\ c + b >= MASK_BITS
    BY <1>5, <1>6, <1>8, <2>2, MaxResourcesAssumption DEF Id
  <2> QED BY <2>3, <2>4
<1> QED BY <1>7, <1>8

(***************************************************************************)
(* What k_free_unique_id does: it stops the kernel, clears the bit of the  *)
(* id in the array, or, for an id past the mask, only changes last_id.     *)
(***************************************************************************)
LEMMA FreeIdSteps ==
  ASSUME NEW x \in UniqueIdState, NEW id \in Id
  PROVE  \/ k_free_unique_id(x, id) = [x EXCEPT !.halted = "bad_id"]
         \/ id < MASK_BITS /\ k_free_unique_id(x, id) = [x EXCEPT !.idmask = @ \ {id}]
         \/ /\ id >= MASK_BITS
            /\ \E last \in Id : k_free_unique_id(x, id) = [x EXCEPT !.last_id = last]
<1> DEFINE ok == id > 0 /\ id < MAX_RESOURCES /\ IdBit(x, id)
<1>1. CASE ~ok
  BY <1>1 DEF k_free_unique_id
<1>2. CASE ok /\ id < MASK_BITS
  BY <1>2 DEF k_free_unique_id, ClearIdBit
<1>3. CASE ok /\ ~(id < MASK_BITS)
  <2> DEFINE b == 2^(id % WBITS)
  <2>1. id % WBITS \in Nat
    BY MaxResourcesAssumption, WbitsAssumption DEF Id
  <2>2. b \in Nat \ {0}
    BY <2>1, BitValue
  <2>3. /\ k_free_unique_id(x, id) = [x EXCEPT !.last_id = x.last_id - b]
        /\ (x.last_id \div b) % 2 = 1
    BY <1>3 DEF k_free_unique_id, ClearIdBit, IdBit
  <2> HIDE DEF b
  <2>4. x.last_id \in Nat
    BY DEF UniqueIdState, Id
  <2>5. x.last_id - b \in Id
    BY <2>2, <2>3, <2>4 DEF Id
  <2>6. id >= MASK_BITS
    BY <1>3, MaskBitsFact DEF Id
  <2> QED BY <2>3, <2>5, <2>6
<1> QED BY <1>1, <1>2, <1>3

\* Both operations keep the allocator's type.
LEMMA NewIdType ==
  ASSUME NEW x \in UniqueIdState
  PROVE  k_new_unique_id(x) \in UniqueIdState
<1>1. CASE FreeDistances(x) = {}
  BY <1>1 DEF k_new_unique_id, UniqueIdState, HaltReason
<1>2. CASE FreeDistances(x) # {}
  <2>1. 0 .. MASK_BITS - 1 \subseteq Id
    BY MaskBitsFact DEF Id
  <2>2. ASSUME NEW id \in 0 .. MASK_BITS - 1
        PROVE  [x EXCEPT !.last_id = id, !.idmask = @ \cup {id}] \in UniqueIdState
    BY <2>1 DEF UniqueIdState
  <2>3. ASSUME NEW id \in Id PROVE [x EXCEPT !.last_id = id] \in UniqueIdState
    BY DEF UniqueIdState
  <2> QED BY <1>2, <2>2, <2>3, NewIdFresh
<1> QED BY <1>1, <1>2

LEMMA FreeIdType ==
  ASSUME NEW x \in UniqueIdState, NEW id \in Id
  PROVE  k_free_unique_id(x, id) \in UniqueIdState
BY FreeIdSteps DEF UniqueIdState, HaltReason

-----------------------------------------------------------------------------
(***************************************************************************)
(* What the list operations of KThread do to the threads in a queue, to    *)
(* their number and to their being there only once.                        *)
(***************************************************************************)

\* No thread is twice in s.
NoDup(s) == \A i, j \in 1 .. Len(s) : s[i] = s[j] => i = j

LEMMA InToSet ==
  ASSUME NEW S, NEW s \in Seq(S), NEW x
  PROVE  x \in ToSet(s) <=> \E i \in 1 .. Len(s) : s[i] = x
BY DEF ToSet

LEMMA ToSetType ==
  ASSUME NEW S, NEW s \in Seq(S)
  PROVE  ToSet(s) \subseteq S
BY DEF ToSet

LEMMA EmptyToSet ==
  ASSUME NEW S, NEW s \in Seq(S)
  PROVE  s = <<>> <=> ToSet(s) = {}
<1>1. Len(s) > 0 => s[1] \in ToSet(s)
  BY DEF ToSet
<1>2. s = <<>> => ToSet(s) = {}
  BY DEF ToSet
<1> QED BY <1>1, <1>2

LEMMA NoDupEmpty == NoDup(<<>>) /\ ToSet(<<>>) = {}
BY DEF NoDup, ToSet

LEMMA AppendList ==
  ASSUME NEW S, NEW s \in Seq(S), NEW x \in S
  PROVE  /\ Append(s, x) \in Seq(S)
         /\ Len(Append(s, x)) = Len(s) + 1
         /\ ToSet(Append(s, x)) = ToSet(s) \cup {x}
         /\ NoDup(s) /\ x \notin ToSet(s) => NoDup(Append(s, x))
<1> DEFINE a == Append(s, x)
<1>1. /\ a \in Seq(S) /\ Len(a) = Len(s) + 1
      /\ \A i \in 1 .. Len(s) : a[i] = s[i]
      /\ a[Len(s) + 1] = x
  OBVIOUS
<1> HIDE DEF a
<1>2. ASSUME NEW y PROVE y \in ToSet(a) <=> y \in ToSet(s) \cup {x}
  <2>1. y \in ToSet(a) <=> \E i \in 1 .. Len(a) : a[i] = y
    BY <1>1, InToSet
  <2>2. y \in ToSet(s) <=> \E i \in 1 .. Len(s) : s[i] = y
    BY InToSet
  <2> QED BY <1>1, <2>1, <2>2
<1>3. ASSUME NoDup(s), x \notin ToSet(s) PROVE NoDup(a)
  <2>1. \A i \in 1 .. Len(s) : s[i] # x
    BY <1>3, InToSet
  <2> QED BY <1>1, <1>3, <2>1 DEF NoDup
<1>4. ToSet(a) = ToSet(s) \cup {x}
  BY <1>2
<1> QED BY <1>1, <1>3, <1>4 DEF a

LEMMA TailList ==
  ASSUME NEW S, NEW s \in Seq(S), s # <<>>
  PROVE  /\ Tail(s) \in Seq(S) /\ Head(s) \in S /\ Head(s) \in ToSet(s)
         /\ Len(Tail(s)) = Len(s) - 1
         /\ NoDup(s) => ToSet(Tail(s)) = ToSet(s) \ {Head(s)} /\ NoDup(Tail(s))
<1> DEFINE r == Tail(s)
<1>1. /\ r \in Seq(S) /\ Len(r) = Len(s) - 1 /\ Len(s) \in Nat \ {0}
      /\ \A i \in 1 .. Len(r) : r[i] = s[i + 1]
      /\ Head(s) = s[1] /\ Head(s) \in S
  OBVIOUS
<1> HIDE DEF r
<1>2. Head(s) \in ToSet(s)
  BY <1>1, InToSet
<1>3. ASSUME NoDup(s) PROVE ToSet(r) = ToSet(s) \ {Head(s)} /\ NoDup(r)
  <2>1. ASSUME NEW y PROVE y \in ToSet(r) <=> y \in ToSet(s) \ {s[1]}
    <3>1. y \in ToSet(r) <=> \E i \in 1 .. Len(r) : r[i] = y
      BY <1>1, InToSet
    <3>2. y \in ToSet(s) <=> \E i \in 1 .. Len(s) : s[i] = y
      BY InToSet
    <3>3. ASSUME NEW i \in 1 .. Len(s), s[i] = y, y # s[1]
          PROVE  i - 1 \in 1 .. Len(r) /\ r[i - 1] = y
      BY <1>1, <3>3
    <3> QED BY <1>1, <1>3, <3>1, <3>2, <3>3 DEF NoDup
  <2>2. NoDup(r)
    BY <1>1, <1>3 DEF NoDup
  <2> QED BY <1>1, <2>1, <2>2
<1> QED BY <1>1, <1>2, <1>3 DEF r

LEMMA ConcatGet ==
  ASSUME NEW S, NEW s \in Seq(S), NEW r \in Seq(S)
  PROVE  /\ s \o r \in Seq(S) /\ Len(s \o r) = Len(s) + Len(r)
         /\ \A i \in 1 .. Len(s \o r) :
              (s \o r)[i] = IF i <= Len(s) THEN s[i] ELSE r[i - Len(s)]
OBVIOUS

\* The elements behind x move up by one.
LEMMA RemoveGet ==
  ASSUME NEW S, NEW s \in Seq(S), NEW x \in ToSet(s)
  PROVE  LET n == IndexOf(s, x)
             r == list_find_and_remove(s, x)
         IN  /\ n \in 1 .. Len(s) /\ s[n] = x
             /\ r \in Seq(S) /\ Len(r) = Len(s) - 1
             /\ \A i \in 1 .. Len(r) : r[i] = IF i < n THEN s[i] ELSE s[i + 1]
<1> DEFINE n == IndexOf(s, x)
           r == list_find_and_remove(s, x)
<1>1. n \in 1 .. Len(s) /\ s[n] = x
  BY InToSet DEF IndexOf
<1>2. r = SubSeq(s, 1, n - 1) \o SubSeq(s, n + 1, Len(s))
  BY DEF list_find_and_remove, RemoveAt
<1> HIDE DEF n, r
<1>3. /\ r \in Seq(S) /\ Len(r) = Len(s) - 1
      /\ \A i \in 1 .. Len(r) : r[i] = IF i < n THEN s[i] ELSE s[i + 1]
  <2> DEFINE a == SubSeq(s, 1, n - 1)
             b == SubSeq(s, n + 1, Len(s))
  <2>1. a \in Seq(S) /\ Len(a) = n - 1 /\ \A i \in 1 .. n - 1 : a[i] = s[i]
    BY <1>1
  <2>2. /\ b \in Seq(S) /\ Len(b) = Len(s) - n
        /\ \A i \in 1 .. Len(s) - n : b[i] = s[i + n]
    BY <1>1
  <2> HIDE DEF a, b
  <2>3. r = a \o b
    BY <1>2 DEF a, b
  <2>4. /\ r \in Seq(S) /\ Len(r) = Len(a) + Len(b)
        /\ \A i \in 1 .. Len(r) : r[i] = IF i <= Len(a) THEN a[i] ELSE b[i - Len(a)]
    BY <2>1, <2>2, <2>3, ConcatGet
  <2>5. ASSUME NEW i \in 1 .. Len(r) PROVE r[i] = IF i < n THEN s[i] ELSE s[i + 1]
    <3>1. CASE i < n
      BY <1>1, <2>1, <2>2, <2>4, <3>1
    <3>2. CASE i >= n
      <4>1. i - (n - 1) \in 1 .. Len(s) - n /\ i - (n - 1) + n = i + 1
        BY <1>1, <2>1, <2>2, <2>4, <3>2
      <4>2. r[i] = b[i - (n - 1)]
        BY <1>1, <2>1, <2>2, <2>4, <3>2
      <4>3. b[i - (n - 1)] = s[i - (n - 1) + n]
        BY <2>2, <4>1
      <4>4. ~(i < n)
        BY <1>1, <3>2
      <4> QED BY <4>1, <4>2, <4>3, <4>4
    <3> QED BY <1>1, <3>1, <3>2
  <2> QED BY <1>1, <2>1, <2>2, <2>4, <2>5
<1> QED BY <1>1, <1>3 DEF n, r

LEMMA RemoveList ==
  ASSUME NEW S, NEW s \in Seq(S), NEW x
  PROVE  /\ list_find_and_remove(s, x) \in Seq(S)
         /\ Len(list_find_and_remove(s, x)) <= Len(s)
         /\ NoDup(s) => /\ ToSet(list_find_and_remove(s, x)) = ToSet(s) \ {x}
                        /\ NoDup(list_find_and_remove(s, x))
<1>1. CASE x \notin ToSet(s)
  BY <1>1 DEF list_find_and_remove
<1>2. CASE x \in ToSet(s)
  <2> DEFINE n == IndexOf(s, x)
             r == list_find_and_remove(s, x)
  <2>1. n \in 1 .. Len(s) /\ s[n] = x
    BY <1>2, RemoveGet
  <2>3. /\ r \in Seq(S) /\ Len(r) = Len(s) - 1
        /\ \A i \in 1 .. Len(r) : r[i] = IF i < n THEN s[i] ELSE s[i + 1]
    BY <1>2, RemoveGet
  <2> HIDE DEF n, r
  <2>4. ASSUME NoDup(s) PROVE ToSet(r) = ToSet(s) \ {x}
    <3>1. ASSUME NEW y PROVE y \in ToSet(r) <=> y \in ToSet(s) \ {x}
      <4>1. y \in ToSet(r) <=> \E i \in 1 .. Len(r) : r[i] = y
        BY <2>3, InToSet
      <4>2. y \in ToSet(s) <=> \E i \in 1 .. Len(s) : s[i] = y
        BY InToSet
      <4>3. ASSUME NEW i \in 1 .. Len(r), r[i] = y PROVE y \in ToSet(s) \ {x}
        <5> DEFINE o == IF i < n THEN i ELSE i + 1
        <5>1. o \in 1 .. Len(s) /\ o # n /\ s[o] = y
          BY <2>1, <2>3, <4>3
        <5>2. y # x
          BY <2>1, <2>4, <5>1 DEF NoDup
        <5> QED BY <4>2, <5>1, <5>2
      <4>4. ASSUME NEW i \in 1 .. Len(s), s[i] = y, y # x PROVE y \in ToSet(r)
        <5>1. CASE i < n
          BY <2>1, <2>3, <4>1, <4>4, <5>1
        <5>2. CASE i > n
          <6>1. i - 1 \in 1 .. Len(r) /\ r[i - 1] = y
            BY <2>1, <2>3, <4>4, <5>2
          <6> QED BY <4>1, <6>1
        <5> QED BY <2>1, <4>4, <5>1, <5>2
      <4> QED BY <4>1, <4>2, <4>3, <4>4
    <3> QED BY <3>1
  <2>5. ASSUME NoDup(s) PROVE NoDup(r)
    <3> SUFFICES ASSUME NEW i \in 1 .. Len(r), NEW j \in 1 .. Len(r), r[i] = r[j]
                 PROVE  i = j
      BY DEF NoDup
    <3> DEFINE Old(a) == IF a < n THEN a ELSE a + 1
    <3>1. /\ Old(i) \in 1 .. Len(s) /\ Old(j) \in 1 .. Len(s)
          /\ s[Old(i)] = r[i] /\ s[Old(j)] = r[j]
      BY <2>1, <2>3
    <3>2. Old(i) = Old(j)
      BY <2>5, <3>1 DEF NoDup
    <3> QED BY <2>1, <3>2
  <2> QED BY <2>3, <2>4, <2>5 DEF r
<1> QED BY <1>1, <1>2

LEMMA ConcatList ==
  ASSUME NEW S, NEW s \in Seq(S), NEW r \in Seq(S)
  PROVE  /\ s \o r \in Seq(S)
         /\ ToSet(s \o r) = ToSet(s) \cup ToSet(r)
         /\ NoDup(s) /\ NoDup(r) /\ ToSet(s) \cap ToSet(r) = {} => NoDup(s \o r)
<1> DEFINE c == s \o r
<1>1. /\ c \in Seq(S) /\ Len(c) = Len(s) + Len(r)
      /\ \A i \in 1 .. Len(c) : c[i] = IF i <= Len(s) THEN s[i] ELSE r[i - Len(s)]
  BY ConcatGet
<1> HIDE DEF c
<1>2. ASSUME NEW y PROVE y \in ToSet(c) <=> y \in ToSet(s) \cup ToSet(r)
  <2>1. y \in ToSet(c) <=> \E i \in 1 .. Len(c) : c[i] = y
    BY <1>1, InToSet
  <2>2. y \in ToSet(s) <=> \E i \in 1 .. Len(s) : s[i] = y
    BY InToSet
  <2>3. y \in ToSet(r) <=> \E i \in 1 .. Len(r) : r[i] = y
    BY InToSet
  <2>4. ASSUME NEW i \in 1 .. Len(r), r[i] = y PROVE y \in ToSet(c)
    <3>1. i + Len(s) \in 1 .. Len(c) /\ ~(i + Len(s) <= Len(s)) /\ i + Len(s) - Len(s) = i
      BY <1>1
    <3>2. c[i + Len(s)] = y
      BY <1>1, <2>4, <3>1
    <3> QED BY <2>1, <3>1, <3>2
  <2>5. ASSUME NEW i \in 1 .. Len(s), s[i] = y PROVE y \in ToSet(c)
    BY <1>1, <2>1, <2>5
  <2>6. ASSUME NEW i \in 1 .. Len(c), c[i] = y PROVE y \in ToSet(s) \cup ToSet(r)
    BY <1>1, <2>2, <2>3, <2>6
  <2> QED BY <2>1, <2>2, <2>3, <2>4, <2>5, <2>6
<1>3. ASSUME NoDup(s), NoDup(r), ToSet(s) \cap ToSet(r) = {} PROVE NoDup(c)
  <2>1. \A i \in 1 .. Len(s), j \in 1 .. Len(r) : s[i] # r[j]
    BY <1>3, InToSet
  <2> SUFFICES ASSUME NEW i \in 1 .. Len(c), NEW j \in 1 .. Len(c), c[i] = c[j]
               PROVE  i = j
    BY DEF NoDup
  <2>2. CASE i <= Len(s) /\ j <= Len(s)
    BY <1>1, <1>3, <2>2 DEF NoDup
  <2>3. CASE i <= Len(s) /\ j > Len(s)
    <3>1. i \in 1 .. Len(s) /\ j - Len(s) \in 1 .. Len(r)
      BY <1>1, <2>3
    <3> QED BY <1>1, <2>1, <2>3, <3>1
  <2>4. CASE i > Len(s) /\ j <= Len(s)
    <3>1. j \in 1 .. Len(s) /\ i - Len(s) \in 1 .. Len(r)
      BY <1>1, <2>4
    <3> QED BY <1>1, <2>1, <2>4, <3>1
  <2>5. CASE i > Len(s) /\ j > Len(s)
    <3>1. i - Len(s) \in 1 .. Len(r) /\ j - Len(s) \in 1 .. Len(r)
      BY <1>1, <2>5
    <3>2. r[i - Len(s)] = r[j - Len(s)]
      BY <1>1, <2>5
    <3>3. i - Len(s) = j - Len(s)
      BY <1>3, <3>1, <3>2 DEF NoDup
    <3> QED BY <3>1, <3>3
  <2> QED BY <1>1, <2>2, <2>3, <2>4, <2>5
<1>4. ToSet(c) = ToSet(s) \cup ToSet(r)
  BY <1>2
<1> QED BY <1>1, <1>3, <1>4 DEF c

(***************************************************************************)
(* Chosen(s, P) picks exactly the elements of s in P.  CHOOSE finds the    *)
(* n-th one because the count of those up to i grows by at most one with i.*)
(***************************************************************************)
LEMMA ChosenList ==
  ASSUME NEW S, NEW s \in Seq(S), NEW P
  PROVE  /\ Chosen(s, P) \in Seq(S)
         /\ ToSet(Chosen(s, P)) = ToSet(s) \cap P
         /\ NoDup(s) => NoDup(Chosen(s, P))
<1> DEFINE Upto(i)  == {j \in 1 .. i : s[j] \in P}
           Count(i) == Cardinality(Upto(i))
           at(n)    == CHOOSE i \in 1 .. Len(s) : s[i] \in P /\ Count(i) = n
           c        == Chosen(s, P)
<1>1. ASSUME NEW i \in Nat PROVE IsFiniteSet(Upto(i)) /\ Count(i) \in Nat
  <2>1. IsFiniteSet(1 .. i)
    BY FS_Interval
  <2>2. Upto(i) \in SUBSET (1 .. i)
    OBVIOUS
  <2>3. IsFiniteSet(Upto(i))
    BY <2>1, <2>2, FS_Subset
  <2> QED BY <2>3, FS_CardinalityType
<1>2. ASSUME NEW i \in Nat \ {0}
      PROVE  Count(i) = IF s[i] \in P THEN Count(i - 1) + 1 ELSE Count(i - 1)
  <2>1. i - 1 \in Nat /\ i \notin Upto(i - 1) /\ IsFiniteSet(Upto(i - 1))
    BY <1>1
  <2>2. CASE s[i] \in P
    <3>1. Upto(i) = Upto(i - 1) \cup {i}
      BY <2>2
    <3> QED BY <2>1, <2>2, <3>1, FS_AddElement
  <2>3. CASE s[i] \notin P
    <3>1. Upto(i) = Upto(i - 1)
      BY <2>3
    <3> QED BY <2>3, <3>1
  <2> QED BY <2>2, <2>3
<1>3. ASSUME NEW i \in Nat, NEW j \in Nat, i <= j PROVE Count(i) <= Count(j)
  <2>1. Upto(i) \in SUBSET Upto(j)
    BY <1>3
  <2> QED BY <1>1, <2>1, FS_Subset
<1>4. Count(0) = 0
  <2>1. Upto(0) = {}
    OBVIOUS
  <2> QED BY <2>1, FS_EmptySet
<1> HIDE DEF Upto, Count
<1>5. Len(s) \in Nat
  OBVIOUS
<1>6. ASSUME NEW n \in 1 .. Count(Len(s))
      PROVE  at(n) \in 1 .. Len(s) /\ s[at(n)] \in P /\ Count(at(n)) = n
  <2> DEFINE Reached == {i \in 1 .. Len(s) : Count(i) >= n}
  <2>1. Len(s) > 0
    <3>1. 1 .. Count(Len(s)) # {}
      OBVIOUS
    <3>2. Len(s) # 0
      BY <1>4, <3>1
    <3> QED BY <1>5, <3>2
  <2>2. Reached \in SUBSET Nat /\ Len(s) \in Reached
    <3>1. Len(s) \in 1 .. Len(s) /\ Count(Len(s)) \in Nat
      BY <1>1, <1>5, <2>1
    <3>2. Count(Len(s)) >= n
      BY <3>1
    <3>3. Reached \in SUBSET Nat
      BY <1>5
    <3> QED BY <3>1, <3>2, <3>3
  <2>3. PICK i \in Reached : \A j \in Reached : i <= j
    <3> HIDE DEF Reached
    <3> QED BY <2>2, LeastExists
  <2>4. i \in 1 .. Len(s) /\ Count(i) >= n /\ Count(i) \in Nat /\ Count(i - 1) \in Nat
    <3>1. i \in 1 .. Len(s) /\ Count(i) >= n
      BY <2>3
    <3>2. i \in Nat /\ i - 1 \in Nat
      BY <3>1
    <3> QED BY <1>1, <3>1, <3>2
  <2>5. Count(i - 1) < n
    BY <1>4, <1>5, <2>3, <2>4
  <2>6. s[i] \in P /\ Count(i) = n
    BY <1>2, <2>4, <2>5
  <2> QED BY <2>4, <2>6
<1>7. ASSUME NEW i \in 1 .. Len(s), NEW j \in 1 .. Len(s), s[i] \in P, s[j] \in P,
             Count(i) = Count(j)
      PROVE  i = j
  <2>1. ASSUME NEW a \in 1 .. Len(s), NEW b \in 1 .. Len(s), a < b, s[b] \in P
        PROVE  Count(a) < Count(b)
    <3>1. Count(a) <= Count(b - 1)
      BY <1>3, <2>1
    <3>2. Count(b) = Count(b - 1) + 1
      BY <1>2, <2>1
    <3> QED BY <1>1, <3>1, <3>2
  <2>2. Count(i) \in Nat /\ Count(j) \in Nat
    BY <1>1
  <2>3. ~(i < j)
    <3>1. i < j => Count(i) < Count(j)
      BY <1>7, <2>1
    <3> QED BY <1>7, <2>2, <3>1
  <2>4. ~(j < i)
    <3>1. j < i => Count(j) < Count(i)
      BY <1>7, <2>1
    <3> QED BY <1>7, <2>2, <3>1
  <2> QED BY <2>3, <2>4
<1>8. c = [n \in 1 .. Count(Len(s)) |-> s[at(n)]]
  BY DEF Chosen, Count, Upto
<1> HIDE DEF at, c
<1>9. /\ c \in Seq(S) /\ Len(c) = Count(Len(s))
      /\ \A n \in 1 .. Len(c) : c[n] = s[at(n)]
  <2>1. Count(Len(s)) \in Nat
    BY <1>1, <1>5
  <2>2. \A n \in 1 .. Count(Len(s)) : s[at(n)] \in S
    BY <1>6
  <2> QED BY <1>8, <2>1, <2>2
<1>10. ASSUME NEW x PROVE x \in ToSet(c) <=> x \in ToSet(s) \cap P
  <2>1. x \in ToSet(c) <=> \E n \in 1 .. Len(c) : c[n] = x
    BY <1>9, InToSet
  <2>2. x \in ToSet(s) <=> \E i \in 1 .. Len(s) : s[i] = x
    BY InToSet
  <2>3. ASSUME NEW n \in 1 .. Len(c), c[n] = x PROVE x \in ToSet(s) \cap P
    BY <1>6, <1>9, <2>2, <2>3
  <2>4. ASSUME NEW i \in 1 .. Len(s), s[i] = x, x \in P PROVE x \in ToSet(c)
    <3>1. Count(i) \in 1 .. Len(c)
      <4>1. Count(i) <= Count(Len(s))
        BY <1>3, <1>5
      <4>2. Count(i) = Count(i - 1) + 1 /\ Count(i - 1) \in Nat
        <5>1. i \in Nat \ {0} /\ i - 1 \in Nat
          OBVIOUS
        <5> QED BY <1>1, <1>2, <2>4, <5>1
      <4> QED BY <1>9, <4>1, <4>2
    <3>2. at(Count(i)) = i
      BY <1>6, <1>7, <1>9, <2>4, <3>1
    <3> QED BY <1>9, <2>1, <2>4, <3>1, <3>2
  <2> QED BY <2>1, <2>2, <2>3, <2>4
<1>11. ASSUME NoDup(s) PROVE NoDup(c)
  <2> SUFFICES ASSUME NEW m \in 1 .. Len(c), NEW n \in 1 .. Len(c), c[m] = c[n]
               PROVE  m = n
    BY DEF NoDup
  <2>1. at(m) \in 1 .. Len(s) /\ at(n) \in 1 .. Len(s) /\ s[at(m)] = s[at(n)]
    BY <1>6, <1>9
  <2>2. at(m) = at(n)
    BY <1>11, <2>1 DEF NoDup
  <2> QED BY <1>6, <1>9, <2>2
<1>12. ToSet(c) = ToSet(s) \cap P
  BY <1>10
<1> QED BY <1>9, <1>11, <1>12 DEF c

-----------------------------------------------------------------------------
(***************************************************************************)
(* The operators of KThread keep the thread subsystem consistent.          *)
(***************************************************************************)

LEMMA QueueNames ==
  /\ \A p \in Prio : ready_q(p) \in ReadyQueue /\ ready_q(p) \in Queue /\ ready_q(p)[2] = p
  /\ \A p, r \in Prio : ready_q(p) = ready_q(r) => p = r
  /\ \A t \in Desc : join_queue(t) \in BlockedQueue /\ join_queue(t) \in Queue
  /\ \A t, v \in Desc : join_queue(t) = join_queue(v) => t = v
  /\ \A w \in WaitQueue : wait_q(w) \in BlockedQueue /\ wait_q(w) \in Queue
  /\ \A w \in WaitQueue, t \in Desc : wait_q(w) # join_queue(t)
  /\ ReadyQueue \cap BlockedQueue = {}
  /\ \A Q \in ReadyQueue : \E p \in Prio : Q = ready_q(p)
BY DEF ReadyQueue, BlockedQueue, Queue, ready_q, join_queue, wait_q

\* Where the bit of a priority level is in rdy_mask.
LEMMA MaskIndex ==
  ASSUME NEW p \in Prio
  PROVE  p \div WORD \in MaskWord /\ (p % WORD) \in MaskBit
<1>1. /\ WORD \in Nat \ {0} /\ PRIO_LEVELS \in Nat \ {0}
      /\ p \in Nat /\ p <= PRIO_LEVELS - 1
  BY KThreadAssumption DEF Prio
<1> QED BY <1>1, SMTT(30) DEF MaskWord, MaskBit, RDY_MASKS

LEMMA MaskPosition ==
  ASSUME NEW i \in MaskWord, NEW b \in MaskBit, NEW p \in Prio
  PROVE  i * WORD + b = p <=> i = p \div WORD /\ b = p % WORD
<1>1. /\ WORD \in Nat \ {0} /\ PRIO_LEVELS \in Nat \ {0}
      /\ p \in Nat /\ i \in Nat /\ b \in Nat /\ b < WORD
  BY KThreadAssumption DEF Prio, MaskWord, MaskBit, RDY_MASKS
<1>2. p = (p \div WORD) * WORD + (p % WORD)
  BY <1>1
<1>3. (i * WORD + b) \div WORD = i /\ (i * WORD + b) % WORD = b
  BY <1>1, SMTT(30)
<1> QED BY <1>2, <1>3

-----------------------------------------------------------------------------
(***************************************************************************)
(* The consistency of the subsystem at any point inside a system call.     *)
(***************************************************************************)
\* A thread that may stand in queue Q: its descriptor is allocated and says so.
Belongs(k, t, Q) ==
  /\ t \in k.all_threads
  /\ k.queue[t] = Q
  /\ k.state[t] = (IF Q \in ReadyQueue THEN READY ELSE WAIT)
  /\ Q \in ReadyQueue => Q = ready_q(k.prio[t])

QueuesOK(k) ==
  \A Q \in Queue : NoDup(k.q[Q]) /\ \A t \in ToSet(k.q[Q]) : Belongs(k, t, Q)

MaskOK(k) ==
  \A i \in MaskWord, b \in MaskBit :
    b \in k.rdy_mask[i] <=> \E p \in Prio : p = i * WORD + b /\ k.q[ready_q(p)] # <<>>

\* No thread but active_thread is active.  (active_thread itself may have blocked or
\* ended since the last kthreads_schedule.)
ActiveOK(k) ==
  \A t \in Desc : k.state[t] = ACTIVE => t = k.active_thread /\ t \in k.all_threads

\* The idle thread never blocks or ends.
IdleOK(k) ==
  /\ Idle \in k.all_threads
  /\ k.state[Idle] = ACTIVE \/ \E Q \in ReadyQueue : Idle \in ToSet(k.q[Q])

Consistent(k) == k \in KState /\ QueuesOK(k) /\ MaskOK(k) /\ ActiveOK(k) /\ IdleOK(k)

\* The fields that moving threads between queues does not change.
SameResources(k, r) ==
  /\ r.id = k.id /\ r.ids = k.ids /\ r.all_threads = k.all_threads
  /\ r.prio = k.prio /\ r.proc = k.proc /\ r.exit_status = k.exit_status
  /\ r.ref_cnt = k.ref_cnt
  /\ r.thr_count = k.thr_count /\ r.procs = k.procs

SameThreads(k, r) ==
  /\ r.state = k.state /\ r.queue = k.queue
  /\ r.active_thread = k.active_thread /\ r.assert = k.assert

(***************************************************************************)
(* What an operator does to the fields of k is a predicate of its own:     *)
(* proofs cite it as one fact and expand it where they need a field.       *)
(***************************************************************************)
\* Only queue Q changed, to s; only word i of the mask, to w.
WithQueue(k, Q, s) == [k EXCEPT !.q[Q] = s]
WithMask(k, i, w)  == [k EXCEPT !.rdy_mask[i] = w]

QueueSet(k, Q, s, r) ==
  /\ r \in KState /\ SameResources(k, r) /\ SameThreads(k, r)
  /\ r.rdy_mask = k.rdy_mask
  /\ r.q = [k.q EXCEPT ![Q] = s]

MaskSet(k, i, w, r) ==
  /\ r \in KState /\ SameResources(k, r) /\ SameThreads(k, r)
  /\ r.q = k.q
  /\ r.rdy_mask = [k.rdy_mask EXCEPT ![i] = w]

LEMMA WithQueueSet ==
  ASSUME NEW k \in KState, NEW Q \in Queue, NEW s \in Seq(Desc)
  PROVE  QueueSet(k, Q, s, WithQueue(k, Q, s))
BY DEF KState, SameResources, SameThreads, WithQueue, QueueSet

LEMMA WithMaskSet ==
  ASSUME NEW k \in KState, NEW i \in MaskWord, NEW w \in SUBSET MaskBit
  PROVE  MaskSet(k, i, w, WithMask(k, i, w))
BY DEF KState, SameResources, SameThreads, WithMask, MaskSet

LEMMA SetNotEmptyFields ==
  ASSUME NEW k \in KState, NEW p \in Prio
  PROVE  MaskSet(k, p \div WORD, k.rdy_mask[p \div WORD] \cup {p % WORD},
                 kthread_ready_list_set_not_empty(k, p))
<1> DEFINE i == p \div WORD
           w == k.rdy_mask[i] \cup {p % WORD}
<1>1. i \in MaskWord /\ (p % WORD) \in MaskBit
  BY MaskIndex
<1>2. kthread_ready_list_set_not_empty(k, p) = WithMask(k, i, w)
  BY DEF kthread_ready_list_set_not_empty, WithMask
<1>3. w \in SUBSET MaskBit
  <2> HIDE DEF i
  <2> QED BY <1>1 DEF KState
<1> HIDE DEF i, w
<1>4. MaskSet(k, i, w, WithMask(k, i, w))
  BY <1>1, <1>3, WithMaskSet
<1> QED BY <1>2, <1>4 DEF i, w

LEMMA SetEmptyFields ==
  ASSUME NEW k \in KState, NEW p \in Prio
  PROVE  MaskSet(k, p \div WORD, k.rdy_mask[p \div WORD] \ {p % WORD},
                 kthread_ready_list_set_empty(k, p))
<1> DEFINE i == p \div WORD
           w == k.rdy_mask[i] \ {p % WORD}
<1>1. i \in MaskWord /\ (p % WORD) \in MaskBit
  BY MaskIndex
<1>2. kthread_ready_list_set_empty(k, p) = WithMask(k, i, w)
  BY DEF kthread_ready_list_set_empty, WithMask
<1>3. w \in SUBSET MaskBit
  <2> HIDE DEF i
  <2> QED BY <1>1 DEF KState
<1> HIDE DEF i, w
<1>4. MaskSet(k, i, w, WithMask(k, i, w))
  BY <1>1, <1>3, WithMaskSet
<1> QED BY <1>2, <1>4 DEF i, w

\* t has been put at the end of the ready queue of its priority.
MovedToReady(k, t, r) ==
  /\ r \in KState /\ SameResources(k, r)
  /\ r.assert = k.assert /\ r.active_thread = k.active_thread
  /\ r.state = [k.state EXCEPT ![t] = READY]
  /\ r.queue = [k.queue EXCEPT ![t] = ready_q(k.prio[t])]
  /\ r.q = [k.q EXCEPT ![ready_q(k.prio[t])] = Append(@, t)]
  /\ r.rdy_mask = [k.rdy_mask EXCEPT ![k.prio[t] \div WORD] = @ \cup {k.prio[t] % WORD}]

LEMMA MoveToReadyFields ==
  ASSUME NEW k \in KState, NEW t \in Desc
  PROVE  MovedToReady(k, t, kthread_move_to_ready(k, t))
<1> DEFINE p  == k.prio[t]
           Q  == ready_q(p)
           k1 == [k EXCEPT !.state[t] = READY, !.queue[t] = Q]
           s  == Append(k.q[Q], t)
           k2 == WithQueue(k1, Q, s)
           r  == kthread_ready_list_set_not_empty(k2, p)
<1>1. p \in Prio /\ Q \in Queue
  BY QueueNames DEF KState
<1>2. s \in Seq(Desc)
  <2>1. k.q[Q] \in Seq(Desc)
    BY <1>1 DEF KState
  <2> QED BY <2>1, AppendList
<1>3. k1.q[Q] = k.q[Q]
  BY DEF KState
<1>4. kthread_move_to_ready(k, t) = r
  BY <1>3 DEF kthread_move_to_ready, kthreadq_append, WithQueue
<1> HIDE DEF p, Q
<1>5. /\ k1 \in KState /\ SameResources(k, k1)
      /\ k1.assert = k.assert /\ k1.active_thread = k.active_thread
      /\ k1.state = [k.state EXCEPT ![t] = READY]
      /\ k1.queue = [k.queue EXCEPT ![t] = Q]
      /\ k1.q = k.q /\ k1.rdy_mask = k.rdy_mask
  BY <1>1 DEF KState, SameResources, ThreadState
<1> HIDE DEF k1, s
<1>6. QueueSet(k1, Q, s, k2)
  BY <1>1, <1>2, <1>5, WithQueueSet
<1> HIDE DEF k2
<1>7. MaskSet(k2, p \div WORD, k2.rdy_mask[p \div WORD] \cup {p % WORD}, r)
  BY <1>1, <1>6, SetNotEmptyFields DEF QueueSet
<1> HIDE DEF r
<1>8. /\ r \in KState /\ SameResources(k, r)
      /\ r.assert = k.assert /\ r.active_thread = k.active_thread
      /\ r.state = [k.state EXCEPT ![t] = READY]
      /\ r.queue = [k.queue EXCEPT ![t] = Q]
      /\ r.q = [k.q EXCEPT ![Q] = s]
      /\ r.rdy_mask = [k.rdy_mask EXCEPT ![p \div WORD] = k.rdy_mask[p \div WORD] \cup {p % WORD}]
  BY <1>5, <1>6, <1>7 DEF SameResources, SameThreads, QueueSet, MaskSet
<1>9. MovedToReady(k, t, r)
  BY <1>8 DEF MovedToReady, p, Q, s
<1> QED BY <1>4, <1>9

-----------------------------------------------------------------------------
(***************************************************************************)
(* The bit mask.                                                           *)
(***************************************************************************)
BitOK(k, i, b) ==
  b \in k.rdy_mask[i] <=> \E p \in Prio : p = i * WORD + b /\ k.q[ready_q(p)] # <<>>

\* The mask is right but perhaps for level p.
MaskOKBut(k, p) == \A i \in MaskWord, b \in MaskBit : i * WORD + b # p => BitOK(k, i, b)

\* The mask follows when level p gets a thread, or loses its last one, and the other
\* levels do not change.
OtherLevelsSame(k, r, p) == \A x \in Prio : x # p => r.q[ready_q(x)] = k.q[ready_q(x)]

LEMMA MaskGrows ==
  ASSUME NEW k \in KState, NEW r, NEW p \in Prio, MaskOKBut(k, p),
         r.rdy_mask = [k.rdy_mask EXCEPT ![p \div WORD] = @ \cup {p % WORD}],
         r.q[ready_q(p)] # <<>>, OtherLevelsSame(k, r, p)
  PROVE  MaskOK(r)
<1>1. p \div WORD \in MaskWord /\ k.rdy_mask \in [MaskWord -> SUBSET MaskBit]
  BY MaskIndex DEF KState
<1>2. ASSUME NEW i \in MaskWord, NEW b \in MaskBit PROVE BitOK(r, i, b)
  <2>1. i * WORD + b = p <=> i = p \div WORD /\ b = p % WORD
    BY MaskPosition
  <2>2. b \in r.rdy_mask[i] <=> b \in k.rdy_mask[i] \/ i * WORD + b = p
    BY <1>1, <2>1
  <2>3. CASE i * WORD + b = p
    BY <2>2, <2>3 DEF BitOK
  <2>4. CASE i * WORD + b # p
    BY <2>2, <2>4 DEF BitOK, MaskOKBut, OtherLevelsSame
  <2> QED BY <2>3, <2>4
<1> QED BY <1>2 DEF MaskOK, BitOK

LEMMA MaskShrinks ==
  ASSUME NEW k \in KState, NEW r, NEW p \in Prio, MaskOKBut(k, p),
         r.rdy_mask = [k.rdy_mask EXCEPT ![p \div WORD] = @ \ {p % WORD}],
         r.q[ready_q(p)] = <<>>, OtherLevelsSame(k, r, p)
  PROVE  MaskOK(r)
<1>1. p \div WORD \in MaskWord /\ k.rdy_mask \in [MaskWord -> SUBSET MaskBit]
  BY MaskIndex DEF KState
<1>2. ASSUME NEW i \in MaskWord, NEW b \in MaskBit PROVE BitOK(r, i, b)
  <2>1. i * WORD + b = p <=> i = p \div WORD /\ b = p % WORD
    BY MaskPosition
  <2>2. b \in r.rdy_mask[i] <=> b \in k.rdy_mask[i] /\ i * WORD + b # p
    BY <1>1, <2>1
  <2>3. CASE i * WORD + b = p
    BY <2>2, <2>3 DEF BitOK
  <2>4. CASE i * WORD + b # p
    BY <2>2, <2>4 DEF BitOK, MaskOKBut, OtherLevelsSame
  <2> QED BY <2>3, <2>4
<1> QED BY <1>2 DEF MaskOK, BitOK

\* Taking a thread out of ready_q[p], then clearing the bit if that emptied it.
MaskCleared(k, r) ==
  r \in KState /\ SameResources(k, r) /\ SameThreads(k, r) /\ r.q = k.q /\ MaskOK(r)

LEMMA ClearMask ==
  ASSUME NEW k \in KState, NEW p \in Prio, MaskOKBut(k, p),
         k.q[ready_q(p)] # <<>> => MaskOK(k)
  PROVE  MaskCleared(k, ClearMaskIfEmpty(k, p))
<1>1. CASE k.q[ready_q(p)] # <<>>
  BY <1>1 DEF ClearMaskIfEmpty, SameResources, SameThreads, MaskCleared
<1>2. CASE k.q[ready_q(p)] = <<>>
  <2> DEFINE r == kthread_ready_list_set_empty(k, p)
  <2>1. ClearMaskIfEmpty(k, p) = r
    BY <1>2 DEF ClearMaskIfEmpty
  <2>2. MaskSet(k, p \div WORD, k.rdy_mask[p \div WORD] \ {p % WORD}, r)
    BY SetEmptyFields
  <2> HIDE DEF r
  <2>3. OtherLevelsSame(k, r, p) /\ r.q[ready_q(p)] = <<>>
    BY <1>2, <2>2 DEF MaskSet, OtherLevelsSame
  <2>4. MaskOK(r)
    BY <2>2, <2>3, MaskShrinks DEF MaskSet
  <2> QED BY <2>1, <2>2, <2>4 DEF MaskSet, MaskCleared
<1> QED BY <1>1, <1>2

\* A non-empty set of integers below a bound has a greatest element.
LEMMA GreatestExists ==
  ASSUME NEW n \in Nat, NEW S \in SUBSET (0 .. n), S # {}
  PROVE  \E x \in S : \A y \in S : y <= x
<1> DEFINE D == {d \in 0 .. n : n - d \in S}
<1>1. D \in SUBSET Nat /\ D # {}
  <2>1. PICK x \in S : TRUE
    OBVIOUS
  <2>2. n - x \in 0 .. n /\ n - (n - x) = x
    BY <2>1
  <2>3. n - x \in D
    BY <2>2
  <2>4. D \in SUBSET Nat
    OBVIOUS
  <2> QED BY <2>3, <2>4
<1>2. PICK d \in D : \A e \in D : d <= e
  <2> HIDE DEF D
  <2> QED BY <1>1, LeastExists
<1>3. n - d \in S
  BY <1>2
<1>4. ASSUME NEW y \in S PROVE y <= n - d
  <2>1. n - y \in D
    <3>1. n - y \in 0 .. n /\ n - (n - y) = y
      OBVIOUS
    <3> QED BY <3>1
  <2>2. d \in Int /\ y \in Int
    BY <1>2
  <2>3. d <= n - y
    <3> HIDE DEF D
    <3> QED BY <1>2, <2>1
  <2> QED BY <2>2, <2>3
<1> QED BY <1>3, <1>4

LEMMA HighestLevel ==
  ASSUME NEW k \in KState, MaskOK(k)
  PROVE  LET h == kthread_ready_list_highest(k)
         IN  \/ h = -1 /\ \A p \in Prio : k.q[ready_q(p)] = <<>>
             \/ /\ h \in Prio /\ k.q[ready_q(h)] # <<>>
                /\ \A p \in Prio : k.q[ready_q(p)] # <<>> => p <= h
<1> DEFINE h == kthread_ready_list_highest(k)
<1>0. /\ k.rdy_mask \in [MaskWord -> SUBSET MaskBit]
      /\ WORD \in Nat \ {0} /\ RDY_MASKS - 1 \in Nat
  <2>1. k.rdy_mask \in [MaskWord -> SUBSET MaskBit]
    BY DEF KState
  <2>2. 0 \in Prio
    BY KThreadAssumption DEF Prio
  <2>3. 0 \div WORD \in 0 .. RDY_MASKS - 1 /\ 0 \div WORD = 0
    BY <2>2, MaskIndex, KThreadAssumption DEF MaskWord
  <2>4. RDY_MASKS \in Int
    BY KThreadAssumption DEF RDY_MASKS
  <2> QED BY <2>1, <2>3, <2>4, KThreadAssumption
<1>1. ASSUME NEW p \in Prio, k.q[ready_q(p)] # <<>>
      PROVE  p \div WORD \in MaskWord /\ (p % WORD) \in k.rdy_mask[p \div WORD]
  BY <1>1, MaskIndex, MaskPosition DEF MaskOK
<1>2. CASE \A i \in MaskWord : k.rdy_mask[i] = {}
  BY <1>1, <1>2 DEF kthread_ready_list_highest
<1>3. CASE ~ \A i \in MaskWord : k.rdy_mask[i] = {}
  <2> DEFINE Used == {i \in MaskWord : k.rdy_mask[i] # {}}
             top  == CHOOSE i \in MaskWord :
                       /\ k.rdy_mask[i] # {}
                       /\ \A j \in MaskWord : j > i => k.rdy_mask[j] = {}
             bit  == msb_index(k.rdy_mask[top])
  <2>1. Used \in SUBSET (0 .. RDY_MASKS - 1) /\ Used # {}
    BY <1>3 DEF MaskWord
  <2>2. PICK i \in Used : \A j \in Used : j <= i
    <3> HIDE DEF Used
    <3> QED BY <1>0, <2>1, GreatestExists
  <2>3. \A j \in MaskWord : j > i => k.rdy_mask[j] = {}
    BY <2>2 DEF MaskWord
  <2>4. /\ top \in MaskWord /\ k.rdy_mask[top] # {}
        /\ \A j \in MaskWord : j > top => k.rdy_mask[j] = {}
    BY <2>2, <2>3
  <2>5. h = top * WORD + bit
    BY <1>3 DEF kthread_ready_list_highest
  <2> HIDE DEF top, Used, h
  <2>6. bit \in k.rdy_mask[top] /\ \A c \in k.rdy_mask[top] : c <= bit
    <3> DEFINE w == k.rdy_mask[top]
    <3>1. w \in SUBSET (0 .. WORD - 1) /\ w # {} /\ WORD - 1 \in Nat
      BY <1>0, <2>4 DEF MaskBit
    <3> HIDE DEF w
    <3>2. \E b \in w : \A c \in w : c <= b
      BY <3>1, GreatestExists
    <3>3. msb_index(w) \in w /\ \A c \in w : c <= msb_index(w)
      BY <3>2 DEF msb_index
    <3> QED BY <3>3 DEF w
  <2> HIDE DEF bit
  <2>7. bit \in MaskBit
    BY <1>0, <2>4, <2>6
  <2>8. h \in Prio /\ k.q[ready_q(h)] # <<>>
    BY <2>4, <2>5, <2>6, <2>7 DEF MaskOK
  <2>9. ASSUME NEW p \in Prio, k.q[ready_q(p)] # <<>> PROVE p <= h
    <3> DEFINE i2 == p \div WORD
               b2 == p % WORD
    <3>1. i2 \in MaskWord /\ b2 \in MaskBit /\ b2 \in k.rdy_mask[i2]
      BY <1>1, <2>9, MaskIndex
    <3>2. p = i2 * WORD + b2
      BY <3>1, MaskPosition
    <3> HIDE DEF i2, b2
    <3>3. i2 <= top
      BY <1>0, <2>4, <3>1 DEF MaskWord
    <3>4. CASE i2 = top
      BY <1>0, <2>4, <2>5, <2>6, <2>7, <3>1, <3>2, <3>4 DEF MaskWord, MaskBit
    <3>5. CASE i2 < top
      <4>1. i2 + 1 <= top /\ i2 \in Int /\ top \in Int /\ b2 \in Int /\ bit \in Int
            /\ b2 < WORD /\ bit >= 0 /\ WORD \in Int /\ WORD > 0
        BY <1>0, <2>4, <2>7, <3>1, <3>5 DEF MaskWord, MaskBit
      <4>2. (i2 + 1) * WORD <= top * WORD
        BY <4>1, SMTT(30)
      <4>3. (i2 + 1) * WORD = i2 * WORD + WORD
        BY <4>1
      <4> QED BY <2>5, <3>2, <4>1, <4>2, <4>3
    <3> QED BY <2>4, <3>1, <3>3, <3>4, <3>5 DEF MaskWord
  <2> QED BY <2>8, <2>9 DEF h
<1> QED BY <1>2, <1>3

-----------------------------------------------------------------------------
(***************************************************************************)
(* kthread_move_to_ready, of a thread that is in no queue.                 *)
(***************************************************************************)
Queued(k, t) == \E Q \in Queue : t \in ToSet(k.q[Q])

\* r has t in queue Q in addition, at the end, and state st; nothing else is moved.
PutLast(k, t, Q, st, r) ==
  /\ \A v \in Desc : r.state[v] = IF v = t THEN st ELSE k.state[v]
  /\ \A v \in Desc : r.queue[v] = IF v = t THEN Q ELSE k.queue[v]
  /\ \A R \in Queue : r.q[R] = IF R = Q THEN Append(k.q[R], t) ELSE k.q[R]
  /\ \A R \in Queue : ToSet(r.q[R]) = IF R = Q THEN ToSet(k.q[R]) \cup {t} ELSE ToSet(k.q[R])

LEMMA MoveToReadyLast ==
  ASSUME NEW k \in KState, NEW t \in Desc
  PROVE  PutLast(k, t, ready_q(k.prio[t]), READY, kthread_move_to_ready(k, t))
<1> DEFINE r == kthread_move_to_ready(k, t)
           Q == ready_q(k.prio[t])
<1>1. /\ k.state \in [Desc -> ThreadState] /\ k.queue \in [Desc -> Queue \cup {NULL}]
      /\ k.q \in [Queue -> Seq(Desc)]
  BY DEF KState
<1>2. MovedToReady(k, t, r)
  BY MoveToReadyFields
<1> HIDE DEF r
<1>3. /\ r.state = [k.state EXCEPT ![t] = READY]
      /\ r.queue = [k.queue EXCEPT ![t] = Q]
      /\ r.q = [k.q EXCEPT ![Q] = Append(@, t)]
  BY <1>2 DEF MovedToReady
<1> HIDE DEF Q
<1>4. \A R \in Queue : r.q[R] = IF R = Q THEN Append(k.q[R], t) ELSE k.q[R]
  BY <1>1, <1>3
<1>5. ASSUME NEW R \in Queue PROVE ToSet(Append(k.q[R], t)) = ToSet(k.q[R]) \cup {t}
  <2>1. k.q[R] \in Seq(Desc)
    BY <1>1
  <2> QED BY <2>1, AppendList
<1>6. PutLast(k, t, Q, READY, r)
  BY <1>1, <1>3, <1>4, <1>5 DEF PutLast
<1> QED BY <1>6 DEF Q, r

\* A queue keeps its properties when a thread that is in none enters it.
LEMMA EnterQueuesOK ==
  ASSUME NEW k \in KState, NEW t \in Desc, NEW Q \in Queue, NEW st, NEW r,
         t \in k.all_threads, ~Queued(k, t), QueuesOK(k),
         PutLast(k, t, Q, st, r), SameResources(k, r),
         st = (IF Q \in ReadyQueue THEN READY ELSE WAIT),
         Q \in ReadyQueue => Q = ready_q(k.prio[t])
  PROVE  QueuesOK(r)
<1>1. ASSUME NEW R \in Queue PROVE NoDup(r.q[R])
  <2>1. NoDup(k.q[R]) /\ k.q[R] \in Seq(Desc) /\ t \notin ToSet(k.q[R])
    BY DEF QueuesOK, Queued, KState
  <2>2. NoDup(Append(k.q[R], t))
    BY <2>1, AppendList
  <2> QED BY <2>1, <2>2 DEF PutLast
<1>2. ASSUME NEW R \in Queue, NEW v \in ToSet(r.q[R]) PROVE Belongs(r, v, R)
  <2>1. CASE v = t
    <3>1. R = Q
      BY <2>1 DEF PutLast, Queued
    <3> QED BY <2>1, <3>1 DEF Belongs, SameResources, PutLast
  <2>2. CASE v # t
    <3>1. v \in ToSet(k.q[R])
      BY <2>2 DEF PutLast
    <3>2. v \in Desc
      <4>1. k.q[R] \in Seq(Desc)
        BY DEF KState
      <4> QED BY <3>1, <4>1, ToSetType
    <3>3. Belongs(k, v, R)
      BY <3>1 DEF QueuesOK
    <3> QED BY <2>2, <3>2, <3>3 DEF Belongs, SameResources, PutLast
  <2> QED BY <2>1, <2>2
<1> QED BY <1>1, <1>2 DEF QueuesOK

LEMMA MoveToReadyOK ==
  ASSUME NEW k \in KState, NEW t \in Desc, t \in k.all_threads, ~Queued(k, t),
         QueuesOK(k), MaskOK(k)
  PROVE  QueuesOK(kthread_move_to_ready(k, t)) /\ MaskOK(kthread_move_to_ready(k, t))
<1> DEFINE r == kthread_move_to_ready(k, t)
           p == k.prio[t]
<1>1. PutLast(k, t, ready_q(p), READY, r)
  BY MoveToReadyLast
<1>2. MovedToReady(k, t, r)
  BY MoveToReadyFields
<1> HIDE DEF r
<1>3. p \in Prio /\ ready_q(p) \in ReadyQueue /\ ready_q(p) \in Queue
  BY QueueNames DEF KState
<1>4. SameResources(k, r)
  BY <1>2 DEF MovedToReady
<1>5. QueuesOK(r)
  BY <1>1, <1>3, <1>4, EnterQueuesOK
<1>6. r.rdy_mask = [k.rdy_mask EXCEPT ![p \div WORD] = @ \cup {p % WORD}]
  BY <1>2 DEF MovedToReady
<1> HIDE DEF p
<1>7. MaskOK(r)
  <2>1. k.q[ready_q(p)] \in Seq(Desc)
    BY <1>3 DEF KState
  <2>2. Append(k.q[ready_q(p)], t) # <<>>
    BY <2>1
  <2>3. r.q[ready_q(p)] # <<>>
    BY <1>1, <1>3, <2>2 DEF PutLast
  <2>4. OtherLevelsSame(k, r, p)
    BY <1>1, <1>3, QueueNames DEF PutLast, OtherLevelsSame
  <2>5. MaskOKBut(k, p)
    BY DEF MaskOK, MaskOKBut, BitOK
  <2> QED BY <1>3, <1>6, <2>3, <2>4, <2>5, MaskGrows
<1> QED BY <1>5, <1>7 DEF r

-----------------------------------------------------------------------------
(***************************************************************************)
(* kthreads_schedule and the operators that block and release threads keep *)
(* the thread subsystem consistent, and after kthreads_schedule a ready    *)
(* thread of the highest priority is active.                               *)
(***************************************************************************)

\* t is the new active thread, taken from the head of ready_q[p].
Activated(k, p, t, r) ==
  /\ r \in KState /\ SameResources(k, r)
  /\ r.assert = k.assert /\ r.active_thread = t
  /\ r.state = [k.state EXCEPT ![t] = ACTIVE]
  /\ r.queue = [k.queue EXCEPT ![t] = NULL]
  /\ r.q = [k.q EXCEPT ![ready_q(p)] = Tail(k.q[ready_q(p)])]
  /\ MaskOK(r)

LEMMA ActivateFields ==
  ASSUME NEW k \in KState, NEW p \in Prio, k.q[ready_q(p)] # <<>>, MaskOK(k)
  PROVE  Activated(k, p, Head(k.q[ready_q(p)]), ActivateFirst(k, p))
<1> DEFINE Q  == ready_q(p)
           t  == Head(k.q[Q])
           s  == Tail(k.q[Q])
           k0 == WithQueue(k, Q, s)
           k1 == ClearMaskIfEmpty(k0, p)
           r  == [k1 EXCEPT !.active_thread = t, !.state[t] = ACTIVE, !.queue[t] = NULL]
<1>1. Q \in Queue /\ k.q[Q] \in Seq(Desc)
  BY QueueNames DEF KState
<1>2. s \in Seq(Desc) /\ t \in Desc
  BY <1>1, TailList
<1>3. ActivateFirst(k, p) = r
  BY DEF ActivateFirst, kthreadq_remove_first, WithQueue
<1> HIDE DEF t, s
<1>4. QueueSet(k, Q, s, k0)
  BY <1>1, <1>2, WithQueueSet
<1> HIDE DEF k0
<1>5. MaskOKBut(k0, p)
  <2>1. OtherLevelsSame(k, k0, p)
    BY <1>1, <1>4, QueueNames DEF QueueSet, OtherLevelsSame
  <2>2. k0.rdy_mask = k.rdy_mask
    BY <1>4 DEF QueueSet
  <2> QED BY <2>1, <2>2 DEF MaskOK, MaskOKBut, BitOK, OtherLevelsSame
<1>6. k0.q[Q] # <<>> => MaskOK(k0)
  <2>1. k0.rdy_mask = k.rdy_mask
    BY <1>4 DEF QueueSet
  <2>2. OtherLevelsSame(k, k0, p)
    BY <1>1, <1>4, QueueNames DEF QueueSet, OtherLevelsSame
  <2> QED BY <2>1, <2>2 DEF MaskOK, OtherLevelsSame
<1>7. MaskCleared(k0, k1)
  BY <1>4, <1>5, <1>6, ClearMask DEF QueueSet
<1> HIDE DEF k1, Q
<1>8. /\ k1 \in KState /\ SameResources(k, k1) /\ SameThreads(k, k1)
      /\ k1.q = [k.q EXCEPT ![Q] = s] /\ MaskOK(k1)
  BY <1>4, <1>7 DEF QueueSet, MaskCleared, SameResources, SameThreads
<1>9. /\ r \in KState /\ SameResources(k1, r) /\ r.assert = k1.assert
      /\ r.active_thread = t
      /\ r.state = [k1.state EXCEPT ![t] = ACTIVE]
      /\ r.queue = [k1.queue EXCEPT ![t] = NULL]
      /\ r.q = k1.q /\ r.rdy_mask = k1.rdy_mask
  BY <1>2, <1>8 DEF KState, SameResources, ThreadState
<1> HIDE DEF r
<1>10. MaskOK(r)
  BY <1>8, <1>9 DEF MaskOK
<1>11. Activated(k, p, t, r)
  BY <1>8, <1>9, <1>10 DEF Activated, SameResources, SameThreads, Q, s
<1> QED BY <1>3, <1>11 DEF t, Q

-----------------------------------------------------------------------------
(***************************************************************************)
(* What kthreads_schedule promises: the subsystem is consistent, the       *)
(* active thread is active and no ready one has a higher priority, nothing *)
(* blocked has moved.                                                      *)
(***************************************************************************)
Top(r) ==
  /\ r.active_thread \in Desc /\ r.active_thread \in r.all_threads
  /\ r.state[r.active_thread] = ACTIVE
  /\ \A p \in Prio : r.q[ready_q(p)] # <<>> => p <= r.prio[r.active_thread]

BlockedSame(k, r) ==
  /\ \A Q \in BlockedQueue : r.q[Q] = k.q[Q]
  /\ \A v \in Desc : r.state[v] # k.state[v] =>
                      k.state[v] \in {ACTIVE, READY} /\ r.state[v] \in {ACTIVE, READY}

Scheduled(k, r) ==
  /\ Consistent(r) /\ SameResources(k, r) /\ r.assert = k.assert
  /\ Top(r) /\ BlockedSame(k, r)

NobodyActive(k) == \A v \in Desc : k.state[v] # ACTIVE

LEMMA ActivatedScheduled ==
  ASSUME NEW k \in KState, NEW p \in Prio, NEW t, NEW r, Activated(k, p, t, r),
         k.q[ready_q(p)] # <<>>, t = Head(k.q[ready_q(p)]),
         QueuesOK(k), IdleOK(k), NobodyActive(k),
         \A x \in Prio : k.q[ready_q(x)] # <<>> => x <= p
  PROVE  Scheduled(k, r)
<1> DEFINE Q == ready_q(p)
<1>1. /\ Q \in Queue /\ Q \in ReadyQueue /\ k.q[Q] \in Seq(Desc)
  BY QueueNames DEF KState
<1>2. /\ t \in Desc /\ t \in ToSet(k.q[Q]) /\ Tail(k.q[Q]) \in Seq(Desc)
      /\ NoDup(Tail(k.q[Q])) /\ ToSet(Tail(k.q[Q])) = ToSet(k.q[Q]) \ {t}
  BY <1>1, TailList DEF QueuesOK
<1>3. Belongs(k, t, Q)
  BY <1>1, <1>2 DEF QueuesOK
<1>4. k.prio[t] = p
  <2>1. k.prio[t] \in Prio
    BY <1>2 DEF KState
  <2> QED BY <1>1, <1>3, <2>1, QueueNames DEF Belongs
<1>5. /\ r \in KState /\ SameResources(k, r) /\ r.assert = k.assert
      /\ r.active_thread = t /\ MaskOK(r)
  BY DEF Activated
<1>6. \A v \in Desc : /\ r.state[v] = IF v = t THEN ACTIVE ELSE k.state[v]
                      /\ r.queue[v] = IF v = t THEN NULL ELSE k.queue[v]
  BY <1>2 DEF Activated, KState
<1>7. \A R \in Queue : r.q[R] = IF R = Q THEN Tail(k.q[Q]) ELSE k.q[R]
  BY <1>1 DEF Activated, KState
<1>8. ASSUME NEW R \in Queue PROVE ToSet(r.q[R]) = ToSet(k.q[R]) \ {t}
  <2>1. CASE R = Q
    BY <1>2, <1>7, <2>1
  <2>2. CASE R # Q
    <3>1. t \notin ToSet(k.q[R])
      BY <1>3, <2>2 DEF QueuesOK, Belongs
    <3> QED BY <1>7, <2>2, <3>1
  <2> QED BY <2>1, <2>2
<1> HIDE DEF Q
<1>9. QueuesOK(r)
  <2>1. ASSUME NEW R \in Queue PROVE NoDup(r.q[R])
    BY <1>2, <1>7 DEF QueuesOK
  <2>2. ASSUME NEW R \in Queue, NEW v \in ToSet(r.q[R]) PROVE Belongs(r, v, R)
    <3>1. v \in ToSet(k.q[R]) /\ v # t
      BY <1>8
    <3>2. k.q[R] \in Seq(Desc)
      BY DEF KState
    <3>3. v \in Desc
      BY <3>1, <3>2, ToSetType
    <3>4. Belongs(k, v, R)
      BY <3>1 DEF QueuesOK
    <3> QED BY <1>5, <1>6, <3>1, <3>3, <3>4 DEF Belongs, SameResources
  <2> QED BY <2>1, <2>2 DEF QueuesOK
<1>10. ActiveOK(r)
  <2>1. r.active_thread = t /\ t \in r.all_threads
    BY <1>3, <1>5 DEF Belongs, SameResources
  <2>2. ASSUME NEW v \in Desc, r.state[v] = ACTIVE PROVE v = t
    BY <1>6, <2>2 DEF NobodyActive
  <2> QED BY <2>1, <2>2 DEF ActiveOK
<1>11. IdleOK(r)
  <2>1. Idle \in Desc /\ Idle \in k.all_threads
    BY KThreadAssumption DEF IdleOK
  <2>2. \E R \in ReadyQueue : Idle \in ToSet(k.q[R])
    BY <2>1 DEF IdleOK, NobodyActive
  <2>3. r.state[Idle] = ACTIVE \/ \E R \in ReadyQueue : Idle \in ToSet(r.q[R])
    BY <1>6, <1>8, <2>1, <2>2 DEF Queue
  <2> QED BY <1>5, <2>1, <2>3 DEF IdleOK, SameResources
<1>12. Top(r)
  <2>1. ASSUME NEW x \in Prio, r.q[ready_q(x)] # <<>> PROVE k.q[ready_q(x)] # <<>>
    <3>1. CASE x = p
      BY <3>1
    <3>2. CASE x # p
      BY <1>7, <2>1, <3>2, QueueNames DEF Q
    <3> QED BY <3>1, <3>2
  <2> QED BY <1>2, <1>3, <1>4, <1>5, <1>6, <2>1 DEF Top, Belongs, SameResources
<1>13. BlockedSame(k, r)
  <2>1. \A R \in BlockedQueue : r.q[R] = k.q[R]
    BY <1>1, <1>7, QueueNames DEF Queue
  <2>2. k.state[t] = READY
    BY <1>1, <1>3 DEF Belongs
  <2>3. ASSUME NEW v \in Desc, r.state[v] # k.state[v]
        PROVE  k.state[v] \in {ACTIVE, READY} /\ r.state[v] \in {ACTIVE, READY}
    <3>1. v = t /\ r.state[v] = ACTIVE
      BY <1>6, <2>3
    <3> QED BY <2>2, <3>1
  <2> QED BY <2>1, <2>3 DEF BlockedSame
<1> QED BY <1>5, <1>9, <1>10, <1>11, <1>12, <1>13 DEF Scheduled, Consistent

LEMMA ActivateScheduled ==
  ASSUME NEW k \in KState, QueuesOK(k), MaskOK(k), IdleOK(k), NobodyActive(k)
  PROVE  /\ kthread_ready_list_highest(k) >= 0
         /\ Scheduled(k, ActivateFirst(k, kthread_ready_list_highest(k)))
<1> DEFINE h == kthread_ready_list_highest(k)
<1>1. \E p \in Prio : k.q[ready_q(p)] # <<>>
  <2>1. PICK R \in ReadyQueue : Idle \in ToSet(k.q[R])
    BY KThreadAssumption DEF IdleOK, NobodyActive
  <2>2. PICK p \in Prio : R = ready_q(p)
    BY QueueNames
  <2> QED BY <2>1, <2>2, NoDupEmpty
<1>2. /\ h \in Prio /\ k.q[ready_q(h)] # <<>>
      /\ \A p \in Prio : k.q[ready_q(p)] # <<>> => p <= h
  BY <1>1, HighestLevel
<1> HIDE DEF h
<1>3. h >= 0
  BY <1>2, KThreadAssumption DEF Prio
<1>4. Activated(k, h, Head(k.q[ready_q(h)]), ActivateFirst(k, h))
  BY <1>2, ActivateFields
<1>5. Scheduled(k, ActivateFirst(k, h))
  BY <1>2, <1>4, ActivatedScheduled
<1> QED BY <1>3, <1>5 DEF h

\* The active thread, put behind the ready ones of its priority, can be dispatched like them.
LEMMA PreemptReady ==
  ASSUME NEW k, Consistent(k), CurrIsActive(k)
  PROVE  LET r == kthread_move_to_ready(k, k.active_thread)
         IN  /\ r \in KState /\ QueuesOK(r) /\ MaskOK(r) /\ IdleOK(r) /\ NobodyActive(r)
             /\ SameResources(k, r) /\ r.assert = k.assert /\ BlockedSame(k, r)
<1> DEFINE t == k.active_thread
           r == kthread_move_to_ready(k, t)
           Q == ready_q(k.prio[t])
<1>1. /\ k \in KState /\ QueuesOK(k) /\ MaskOK(k) /\ ActiveOK(k) /\ IdleOK(k)
      /\ t \in Desc /\ k.state[t] = ACTIVE /\ t \in k.all_threads
  BY DEF Consistent, CurrIsActive, KState, ActiveOK
<1>2. Q \in Queue /\ Q \in ReadyQueue
  BY <1>1, QueueNames DEF KState
<1>3. ~Queued(k, t)
  BY <1>1 DEF Queued, QueuesOK, Belongs, ACTIVE, READY, WAIT
<1>4. \A v \in Desc : k.state[v] = ACTIVE => v = t
  BY <1>1 DEF ActiveOK
<1> HIDE DEF t
<1>5. PutLast(k, t, Q, READY, r) /\ MovedToReady(k, t, r)
  BY <1>1, MoveToReadyLast, MoveToReadyFields
<1>6. QueuesOK(r) /\ MaskOK(r)
  BY <1>1, <1>3, MoveToReadyOK
<1> HIDE DEF r, Q
<1>7. r \in KState /\ SameResources(k, r) /\ r.assert = k.assert
  BY <1>5 DEF MovedToReady
<1>8. \A v \in Desc : r.state[v] = IF v = t THEN READY ELSE k.state[v]
  BY <1>5 DEF PutLast
<1>9. \A R \in Queue : /\ r.q[R] = IF R = Q THEN Append(k.q[R], t) ELSE k.q[R]
                       /\ ToSet(r.q[R]) = IF R = Q THEN ToSet(k.q[R]) \cup {t} ELSE ToSet(k.q[R])
  BY <1>5 DEF PutLast
<1>10. NobodyActive(r)
  BY <1>4, <1>8 DEF NobodyActive, ACTIVE, READY
<1>11. IdleOK(r)
  <2>1. Idle \in Desc /\ Idle \in r.all_threads
    BY <1>1, <1>7, KThreadAssumption DEF IdleOK, SameResources
  <2>2. CASE Idle = t
    BY <1>2, <1>9, <2>1, <2>2 DEF IdleOK
  <2>3. CASE Idle # t
    <3>1. PICK R \in ReadyQueue : Idle \in ToSet(k.q[R])
      BY <1>1, <1>4, <2>1, <2>3 DEF IdleOK
    <3>2. Idle \in ToSet(r.q[R])
      BY <1>9, <3>1 DEF Queue
    <3> QED BY <2>1, <3>2 DEF IdleOK
  <2> QED BY <2>2, <2>3
<1>12. BlockedSame(k, r)
  <2>1. ASSUME NEW R \in BlockedQueue PROVE r.q[R] = k.q[R]
    BY <1>2, <1>9, QueueNames DEF Queue
  <2> QED BY <1>1, <1>8, <2>1 DEF BlockedSame
<1> QED BY <1>6, <1>7, <1>10, <1>11, <1>12 DEF r, t

LEMMA ScheduleOK ==
  ASSUME NEW k, Consistent(k)
  PROVE  Scheduled(k, kthreads_schedule(k))
<1> DEFINE h == kthread_ready_list_highest(k)
<1>1. k \in KState /\ QueuesOK(k) /\ MaskOK(k) /\ ActiveOK(k) /\ IdleOK(k)
  BY DEF Consistent
<1>2. h \in Int /\ \A p \in Prio : k.q[ready_q(p)] # <<>> => p <= h
  BY <1>1, HighestLevel DEF Prio
<1>3. CASE ~CurrIsActive(k)
  <2>1. NobodyActive(k)
    BY <1>1, <1>3, KThreadAssumption DEF NobodyActive, ActiveOK, CurrIsActive
  <2>2. h >= 0 /\ Scheduled(k, ActivateFirst(k, h))
    BY <1>1, <2>1, ActivateScheduled
  <2>3. kthreads_schedule(k) = ActivateFirst(k, h)
    <3> HIDE DEF h
    <3>1. ~(h < 0)
      BY <1>2, <2>2
    <3> QED BY <1>3, <3>1 DEF kthreads_schedule, MustSwitch, h
  <2> QED BY <2>2, <2>3
<1>4. CASE CurrIsActive(k) /\ MustSwitch(k)
  <2> DEFINE k1 == kthread_move_to_ready(k, k.active_thread)
             r  == ActivateFirst(k1, kthread_ready_list_highest(k1))
  <2>1. kthreads_schedule(k) = r
    BY <1>4 DEF kthreads_schedule
  <2>2. /\ k1 \in KState /\ QueuesOK(k1) /\ MaskOK(k1) /\ IdleOK(k1) /\ NobodyActive(k1)
        /\ SameResources(k, k1) /\ k1.assert = k.assert /\ BlockedSame(k, k1)
    BY <1>4, PreemptReady
  <2> HIDE DEF k1
  <2>3. Scheduled(k1, r)
    BY <2>2, ActivateScheduled
  <2> HIDE DEF r
  <2>4. BlockedSame(k, r)
    BY <2>2, <2>3 DEF Scheduled, BlockedSame
  <2>5. SameResources(k, r) /\ r.assert = k.assert
    BY <2>2, <2>3 DEF Scheduled, SameResources
  <2> QED BY <2>1, <2>3, <2>4, <2>5 DEF Scheduled
<1>5. CASE CurrIsActive(k) /\ ~MustSwitch(k)
  <2>1. kthreads_schedule(k) = k
    BY <1>5 DEF kthreads_schedule
  <2>2. /\ k.active_thread \in Desc /\ k.state[k.active_thread] = ACTIVE
        /\ k.active_thread \in k.all_threads
    BY <1>1, <1>5 DEF CurrIsActive, KState, ActiveOK
  <2>3. ~(h > k.prio[k.active_thread]) /\ k.prio[k.active_thread] \in Int
    BY <1>1, <1>5, <2>2 DEF MustSwitch, KState, Prio
  <2> HIDE DEF h
  <2>4. Top(k)
    BY <1>2, <2>2, <2>3 DEF Top, Prio
  <2> QED BY <2>1, <2>4 DEF Scheduled, SameResources, BlockedSame
<1> QED BY <1>3, <1>4, <1>5

-----------------------------------------------------------------------------
(***************************************************************************)
(* Blocking a thread, releasing all the threads of a queue, and taking a   *)
(* thread off its queue or off the processor.                              *)
(***************************************************************************)
OtherQueuesSame(k, r, Q) == \A R \in Queue \ {Q} : r.q[R] = k.q[R]

Enqueued(k, t, Q, r) ==
  /\ Consistent(r) /\ SameResources(k, r)
  /\ r.assert = k.assert /\ r.active_thread = k.active_thread
  /\ \A v \in Desc : r.state[v] = IF v = t THEN WAIT ELSE k.state[v]
  /\ r.q[Q] = Append(k.q[Q], t) /\ OtherQueuesSame(k, r, Q)

LEMMA EnqueueOK ==
  ASSUME NEW k, Consistent(k), NEW t \in Desc \ {Idle}, t \in k.all_threads, ~Queued(k, t),
         NEW Q \in BlockedQueue
  PROVE  Enqueued(k, t, Q, kthread_enqueue(k, t, Q))
<1> DEFINE k1 == [k EXCEPT !.state[t] = WAIT, !.queue[t] = Q]
           s  == Append(k.q[Q], t)
           r  == WithQueue(k1, Q, s)
<1>1. /\ k \in KState /\ QueuesOK(k) /\ MaskOK(k) /\ ActiveOK(k) /\ IdleOK(k)
      /\ Q \in Queue /\ Q \notin ReadyQueue /\ k.q[Q] \in Seq(Desc)
  BY QueueNames DEF Consistent, Queue, KState
<1>2. s \in Seq(Desc) /\ ToSet(s) = ToSet(k.q[Q]) \cup {t}
  BY <1>1, AppendList
<1>3. /\ k1 \in KState /\ SameResources(k, k1)
      /\ k1.assert = k.assert /\ k1.active_thread = k.active_thread
      /\ k1.state = [k.state EXCEPT ![t] = WAIT]
      /\ k1.queue = [k.queue EXCEPT ![t] = Q]
      /\ k1.q = k.q /\ k1.rdy_mask = k.rdy_mask
  BY <1>1 DEF KState, SameResources, ThreadState
<1>4. kthread_enqueue(k, t, Q) = r
  BY <1>3 DEF kthread_enqueue, kthreadq_append, WithQueue
<1> HIDE DEF k1
<1>5. QueueSet(k1, Q, s, r)
  <2> HIDE DEF s
  <2> QED BY <1>1, <1>2, <1>3, WithQueueSet
<1> HIDE DEF r
<1>6. /\ r \in KState /\ SameResources(k, r)
      /\ r.assert = k.assert /\ r.active_thread = k.active_thread
      /\ r.rdy_mask = k.rdy_mask
      /\ r.state = [k.state EXCEPT ![t] = WAIT]
      /\ r.queue = [k.queue EXCEPT ![t] = Q]
      /\ r.q = [k.q EXCEPT ![Q] = s]
  BY <1>3, <1>5 DEF QueueSet, SameResources, SameThreads
<1>7. \A v \in Desc : r.state[v] = IF v = t THEN WAIT ELSE k.state[v]
  BY <1>1, <1>6 DEF KState
<1>8. r.q[Q] = s /\ OtherQueuesSame(k, r, Q)
  BY <1>1, <1>6 DEF KState, OtherQueuesSame
<1>9. PutLast(k, t, Q, WAIT, r)
  <2>1. \A v \in Desc : r.queue[v] = IF v = t THEN Q ELSE k.queue[v]
    BY <1>1, <1>6 DEF KState
  <2> HIDE DEF s
  <2>2. \A R \in Queue : r.q[R] = IF R = Q THEN s ELSE k.q[R]
    BY <1>8 DEF OtherQueuesSame
  <2> QED BY <1>2, <1>7, <2>1, <2>2 DEF PutLast, s
<1>10. QueuesOK(r)
  BY <1>1, <1>6, <1>9, EnterQueuesOK
<1>11. MaskOK(r)
  BY <1>1, <1>6, <1>8, QueueNames DEF MaskOK, OtherQueuesSame
<1>12. ActiveOK(r)
  BY <1>1, <1>6, <1>7 DEF ActiveOK, SameResources, WAIT, ACTIVE
<1>13. IdleOK(r)
  <2>1. Idle \in Desc /\ Idle \in r.all_threads /\ r.state[Idle] = k.state[Idle]
    BY <1>1, <1>6, <1>7, KThreadAssumption DEF IdleOK, SameResources
  <2>2. \A R \in ReadyQueue : r.q[R] = k.q[R]
    BY <1>1, <1>8 DEF OtherQueuesSame, Queue
  <2> QED BY <1>1, <2>1, <2>2 DEF IdleOK
<1> QED
  BY <1>4, <1>6, <1>7, <1>8, <1>10, <1>11, <1>12, <1>13 DEF Enqueued, Consistent

ReleasedAll(k, Q, r) ==
  /\ Consistent(r) /\ SameResources(k, r)
  /\ r.assert = k.assert /\ r.active_thread = k.active_thread
  /\ \A v \in Desc : r.state[v] = IF v \in ToSet(k.q[Q]) THEN READY ELSE k.state[v]
  /\ \A v \in ToSet(k.q[Q]) : v \in Desc /\ k.state[v] = WAIT
  /\ r.q[Q] = <<>>
  /\ \A R \in BlockedQueue \ {Q} : r.q[R] = k.q[R]

LEMMA ReleaseAllOK ==
  ASSUME NEW k, Consistent(k), NEW Q \in BlockedQueue
  PROVE  ReleasedAll(k, Q, kthreadq_release_all(k, Q))
<1> DEFINE rel    == ToSet(k.q[Q])
           Of(p)  == {t \in rel : k.prio[t] = p}
           st     == [t \in Desc |-> IF t \in rel THEN READY ELSE k.state[t]]
           qu     == [t \in Desc |-> IF t \in rel THEN ready_q(k.prio[t]) ELSE k.queue[t]]
           qs     == [R \in Queue |->
                        IF R = Q THEN <<>>
                        ELSE IF R \in ReadyQueue THEN k.q[R] \o Chosen(k.q[Q], Of(R[2]))
                        ELSE k.q[R]]
           mask   == [i \in MaskWord |->
                        k.rdy_mask[i] \cup {b \in MaskBit : \E t \in rel : k.prio[t] = i * WORD + b}]
           r      == [k EXCEPT !.state = st, !.queue = qu, !.q = qs, !.rdy_mask = mask]
<1>1. /\ k \in KState /\ QueuesOK(k) /\ MaskOK(k) /\ ActiveOK(k) /\ IdleOK(k)
      /\ Q \in Queue /\ Q \notin ReadyQueue /\ k.q[Q] \in Seq(Desc)
      /\ k.q \in [Queue -> Seq(Desc)] /\ k.prio \in [Desc -> Prio]
      /\ k.state \in [Desc -> ThreadState] /\ k.queue \in [Desc -> Queue \cup {NULL}]
      /\ k.rdy_mask \in [MaskWord -> SUBSET MaskBit]
  BY QueueNames DEF Consistent, Queue, KState
<1>2. kthreadq_release_all(k, Q) = r
  BY DEF kthreadq_release_all
<1>3. rel \subseteq Desc
  BY <1>1, ToSetType
<1>4. ASSUME NEW t \in rel
      PROVE  t \in k.all_threads /\ k.queue[t] = Q /\ k.state[t] = WAIT
  BY <1>1 DEF QueuesOK, Belongs
<1> HIDE DEF rel
<1>5. ASSUME NEW p \in Prio
      PROVE  /\ qs[ready_q(p)] \in Seq(Desc) /\ NoDup(qs[ready_q(p)])
             /\ ToSet(qs[ready_q(p)]) = ToSet(k.q[ready_q(p)]) \cup Of(p)
  <2> DEFINE R  == ready_q(p)
             ch == Chosen(k.q[Q], Of(p))
  <2>1. R \in Queue /\ R \in ReadyQueue /\ R # Q /\ R[2] = p /\ k.q[R] \in Seq(Desc)
    BY <1>1, QueueNames
  <2>2. qs[R] = k.q[R] \o ch
    BY <2>1
  <2>3. ch \in Seq(Desc) /\ ToSet(ch) = Of(p) /\ NoDup(ch)
    <3>1. ToSet(k.q[Q]) \cap Of(p) = Of(p)
      BY DEF rel
    <3>2. NoDup(k.q[Q])
      BY <1>1 DEF QueuesOK
    <3> HIDE DEF Of
    <3> QED BY <1>1, <3>1, <3>2, ChosenList
  <2> HIDE DEF ch
  <2>4. ToSet(k.q[R]) \cap ToSet(ch) = {}
    BY <1>1, <1>4, <2>1, <2>3 DEF QueuesOK, Belongs
  <2>5. NoDup(k.q[R])
    BY <1>1, <2>1 DEF QueuesOK
  <2> HIDE DEF R, qs, Of
  <2> QED BY <2>1, <2>2, <2>3, <2>4, <2>5, ConcatList DEF R
<1>6. qs \in [Queue -> Seq(Desc)]
  <2>1. ASSUME NEW R \in Queue PROVE qs[R] \in Seq(Desc)
    <3>1. CASE R \in ReadyQueue
      BY <1>5, <3>1, QueueNames
    <3>2. CASE R \notin ReadyQueue
      BY <1>1, <3>2
    <3> QED BY <3>1, <3>2
  <2> QED BY <2>1
<1>7. st \in [Desc -> ThreadState]
  BY <1>1 DEF ThreadState
<1>8. qu \in [Desc -> Queue \cup {NULL}]
  BY <1>1, QueueNames
<1>9. mask \in [MaskWord -> SUBSET MaskBit]
  BY <1>1
<1>10. qs[Q] = <<>> /\ \A R \in BlockedQueue \ {Q} : qs[R] = k.q[R]
  BY <1>1, QueueNames DEF Queue
<1>11. \A v \in Desc : /\ st[v] = IF v \in rel THEN READY ELSE k.state[v]
                       /\ qu[v] = IF v \in rel THEN ready_q(k.prio[v]) ELSE k.queue[v]
  OBVIOUS
<1>12. \A i \in MaskWord, b \in MaskBit :
         b \in mask[i] <=> b \in k.rdy_mask[i] \/ \E t \in rel : k.prio[t] = i * WORD + b
  BY <1>1
<1> HIDE DEF st, qu, qs, mask, Of
<1>13. /\ r \in KState /\ SameResources(k, r)
       /\ r.assert = k.assert /\ r.active_thread = k.active_thread
       /\ r.state = st /\ r.queue = qu /\ r.q = qs /\ r.rdy_mask = mask
  BY <1>1, <1>6, <1>7, <1>8, <1>9 DEF KState, SameResources
<1> HIDE DEF r
<1>14. QueuesOK(r)
  <2>1. ASSUME NEW R \in Queue, NEW v \in ToSet(r.q[R])
        PROVE  NoDup(r.q[R]) /\ Belongs(r, v, R)
    <3>1. CASE R \in ReadyQueue
      <4>1. PICK p \in Prio : R = ready_q(p)
        BY <3>1, QueueNames
      <4>2. NoDup(r.q[R]) /\ (v \in ToSet(k.q[R]) \/ v \in Of(p))
        BY <1>5, <1>13, <2>1, <4>1
      <4>3. CASE v \in Of(p)
        BY <1>3, <1>4, <1>11, <1>13, <3>1, <4>1, <4>2, <4>3 DEF Of, Belongs, SameResources
      <4>4. CASE v \in ToSet(k.q[R])
        <5>1. Belongs(k, v, R) /\ v \in Desc
          <6>1. k.q[R] \in Seq(Desc)
            BY <1>1
          <6> QED BY <1>1, <4>4, <6>1, ToSetType DEF QueuesOK
        <5>2. v \notin rel
          BY <1>1, <1>4, <3>1, <5>1 DEF Belongs
        <5> QED BY <1>11, <1>13, <4>2, <5>1, <5>2 DEF Belongs, SameResources
      <4> QED BY <4>2, <4>3, <4>4
    <3>2. CASE R \notin ReadyQueue
      <4>1. R # Q /\ r.q[R] = k.q[R]
        BY <1>10, <1>13, <2>1, <3>2, NoDupEmpty DEF Queue
      <4>2. k.q[R] \in Seq(Desc) /\ v \in ToSet(k.q[R])
        BY <1>1, <2>1, <4>1
      <4>3. Belongs(k, v, R) /\ v \in Desc /\ NoDup(k.q[R])
        BY <1>1, <4>2, ToSetType DEF QueuesOK
      <4>4. v \notin rel
        BY <1>4, <4>1, <4>3 DEF Belongs
      <4> QED BY <1>11, <1>13, <4>1, <4>3, <4>4 DEF Belongs, SameResources
    <3> QED BY <3>1, <3>2
  <2>2. ASSUME NEW R \in Queue PROVE NoDup(r.q[R])
    <3>1. r.q[R] \in Seq(Desc)
      BY <1>6, <1>13
    <3>2. CASE r.q[R] = <<>>
      BY <3>2, NoDupEmpty
    <3>3. CASE r.q[R] # <<>>
      BY <2>1, <3>1, <3>3, EmptyToSet
    <3> QED BY <3>2, <3>3
  <2> QED BY <2>1, <2>2 DEF QueuesOK
<1>15. MaskOK(r)
  <2>1. ASSUME NEW p \in Prio
        PROVE  r.q[ready_q(p)] # <<>> <=> k.q[ready_q(p)] # <<>> \/ \E t \in rel : k.prio[t] = p
    <3>1. ready_q(p) \in Queue
      BY QueueNames
    <3>2. r.q[ready_q(p)] \in Seq(Desc) /\ k.q[ready_q(p)] \in Seq(Desc)
      BY <1>1, <1>6, <1>13, <3>1
    <3>3. ToSet(r.q[ready_q(p)]) = ToSet(k.q[ready_q(p)]) \cup Of(p)
      BY <1>5, <1>13
    <3>4. r.q[ready_q(p)] = <<>> <=> ToSet(r.q[ready_q(p)]) = {}
      BY <3>2, EmptyToSet
    <3>5. k.q[ready_q(p)] = <<>> <=> ToSet(k.q[ready_q(p)]) = {}
      BY <3>2, EmptyToSet
    <3> QED BY <3>3, <3>4, <3>5 DEF Of
  <2>2. \A t \in rel : k.prio[t] \in Prio
    BY <1>1, <1>3
  <2> QED BY <1>1, <1>12, <1>13, <2>1, <2>2 DEF MaskOK
<1>16. ActiveOK(r)
  BY <1>1, <1>11, <1>13 DEF ActiveOK, SameResources, ACTIVE, READY
<1>17. IdleOK(r)
  <2>1. Idle \in Desc /\ Idle \in r.all_threads
    BY <1>1, <1>13, KThreadAssumption DEF IdleOK, SameResources
  <2>2. CASE k.state[Idle] = ACTIVE
    <3>1. Idle \notin rel
      BY <1>4, <2>2 DEF ACTIVE, WAIT
    <3> QED BY <1>11, <1>13, <2>1, <2>2, <3>1 DEF IdleOK
  <2>3. CASE k.state[Idle] # ACTIVE
    <3>1. PICK R \in ReadyQueue : Idle \in ToSet(k.q[R])
      BY <1>1, <2>3 DEF IdleOK
    <3>2. PICK p \in Prio : R = ready_q(p)
      BY QueueNames
    <3>3. Idle \in ToSet(r.q[R])
      BY <1>5, <1>13, <3>1, <3>2
    <3> QED BY <2>1, <3>3 DEF IdleOK
  <2> QED BY <2>2, <2>3
<1>18. /\ \A v \in Desc : r.state[v] = IF v \in rel THEN READY ELSE k.state[v]
       /\ \A v \in rel : v \in Desc /\ k.state[v] = WAIT
  BY <1>3, <1>4, <1>11, <1>13
<1> QED BY <1>2, <1>10, <1>13, <1>14, <1>15, <1>16, <1>17, <1>18 DEF ReleasedAll, Consistent, rel

\* kthreadq_remove ( Q, NULL ): the first thread of Q is in no queue.
FirstRemoved(k, Q, r) ==
  LET t == Head(k.q[Q])
  IN  /\ Consistent(r) /\ SameResources(k, r) /\ SameThreads(k, r)
      /\ t \in Desc \ {Idle} /\ t \in k.all_threads /\ k.state[t] = WAIT /\ ~Queued(r, t)
      /\ r.q[Q] = Tail(k.q[Q]) /\ OtherQueuesSame(k, r, Q)

LEMMA RemoveFirstOK ==
  ASSUME NEW k, Consistent(k), NEW Q \in BlockedQueue, k.q[Q] # <<>>
  PROVE  FirstRemoved(k, Q, kthreadq_remove_first(k, Q))
<1> DEFINE t == Head(k.q[Q])
           s == Tail(k.q[Q])
           r == WithQueue(k, Q, s)
<1>1. /\ k \in KState /\ QueuesOK(k) /\ MaskOK(k) /\ ActiveOK(k) /\ IdleOK(k)
      /\ Q \in Queue /\ Q \notin ReadyQueue /\ k.q[Q] \in Seq(Desc)
      /\ k.q \in [Queue -> Seq(Desc)]
  BY QueueNames DEF Consistent, Queue, KState
<1>2. /\ s \in Seq(Desc) /\ t \in Desc /\ t \in ToSet(k.q[Q])
      /\ ToSet(s) = ToSet(k.q[Q]) \ {t} /\ NoDup(s)
  BY <1>1, TailList DEF QueuesOK
<1>3. kthreadq_remove_first(k, Q) = r
  BY DEF kthreadq_remove_first, WithQueue
<1> HIDE DEF s
<1>4. QueueSet(k, Q, s, r)
  BY <1>1, <1>2, WithQueueSet
<1> HIDE DEF r, t
<1>5. Belongs(k, t, Q)
  BY <1>1, <1>2 DEF QueuesOK
<1>6. /\ r \in KState /\ SameResources(k, r) /\ SameThreads(k, r)
      /\ r.rdy_mask = k.rdy_mask
      /\ \A R \in Queue : r.q[R] = IF R = Q THEN s ELSE k.q[R]
  BY <1>1, <1>4 DEF QueueSet
<1>7. QueuesOK(r) /\ ~Queued(r, t)
  <2>1. ASSUME NEW R \in Queue
        PROVE  /\ NoDup(r.q[R]) /\ ToSet(r.q[R]) \subseteq ToSet(k.q[R])
               /\ t \notin ToSet(r.q[R])
    <3>1. CASE R = Q
      BY <1>2, <1>6, <3>1
    <3>2. CASE R # Q
      <4>1. r.q[R] = k.q[R] /\ NoDup(k.q[R])
        BY <1>1, <1>6, <3>2 DEF QueuesOK
      <4>2. t \in ToSet(k.q[R]) => Belongs(k, t, R)
        BY <1>1 DEF QueuesOK
      <4> QED BY <1>5, <3>2, <4>1, <4>2 DEF Belongs
    <3> QED BY <3>1, <3>2
  <2>2. ASSUME NEW R \in Queue, NEW v \in ToSet(r.q[R]) PROVE Belongs(r, v, R)
    <3>1. Belongs(k, v, R)
      BY <1>1, <2>1 DEF QueuesOK
    <3> QED BY <1>6, <3>1 DEF Belongs, SameResources, SameThreads
  <2> QED BY <2>1, <2>2 DEF QueuesOK, Queued
<1>8. MaskOK(r)
  <2>1. \A p \in Prio : r.q[ready_q(p)] = k.q[ready_q(p)]
    BY <1>1, <1>6, QueueNames
  <2> QED BY <1>1, <1>6, <2>1 DEF MaskOK
<1>9. ActiveOK(r) /\ IdleOK(r)
  <2>1. \A R \in ReadyQueue : r.q[R] = k.q[R]
    BY <1>1, <1>6 DEF Queue
  <2> QED BY <1>1, <1>6, <2>1 DEF ActiveOK, IdleOK, SameResources, SameThreads
<1>10. k.state[t] = WAIT /\ t \in k.all_threads
  BY <1>1, <1>5 DEF Belongs
<1>11. t # Idle
  <2>1. ASSUME NEW R \in ReadyQueue PROVE t \notin ToSet(k.q[R])
    <3>1. R \in Queue /\ R # Q
      BY <1>1 DEF Queue
    <3> QED BY <1>1, <1>5, <3>1 DEF QueuesOK, Belongs
  <2> QED BY <1>1, <1>10, <2>1 DEF IdleOK, WAIT, ACTIVE
<1>12. r.q[Q] = s /\ OtherQueuesSame(k, r, Q)
  BY <1>1, <1>6 DEF OtherQueuesSame
<1>13. FirstRemoved(k, Q, r)
  BY <1>2, <1>6, <1>7, <1>8, <1>9, <1>10, <1>11, <1>12 DEF FirstRemoved, Consistent, t, s
<1> QED BY <1>3, <1>13

\* The first thread of Q is ready, and nobody else has moved.
ReleasedFirst(k, Q, r) ==
  /\ Consistent(r) /\ SameResources(k, r) /\ r.assert = k.assert
  /\ Head(k.q[Q]) \in Desc /\ k.state[Head(k.q[Q])] = WAIT
  /\ \A v \in Desc : r.state[v] = IF v = Head(k.q[Q]) THEN READY ELSE k.state[v]
  /\ r.q[Q] = Tail(k.q[Q])
  /\ \A R \in BlockedQueue \ {Q} : r.q[R] = k.q[R]
  /\ r.active_thread = k.active_thread

LEMMA ReleaseOK ==
  ASSUME NEW k, Consistent(k), NEW Q \in BlockedQueue, k.q[Q] # <<>>
  PROVE  ReleasedFirst(k, Q, kthreadq_release(k, Q))
<1> DEFINE t  == Head(k.q[Q])
           k1 == kthreadq_remove_first(k, Q)
           P  == ready_q(k.prio[t])
           r  == kthread_move_to_ready(k1, t)
<1>1. Q \in Queue /\ Q \notin ReadyQueue /\ IdleOK(k) /\ k \in KState
  BY QueueNames DEF Consistent, Queue
<1>2. kthreadq_release(k, Q) = r
  BY DEF kthreadq_release
<1>3. FirstRemoved(k, Q, k1)
  BY RemoveFirstOK
<1> HIDE DEF k1
<1>4. /\ Consistent(k1) /\ SameResources(k, k1) /\ SameThreads(k, k1)
      /\ t \in Desc \ {Idle} /\ t \in k.all_threads /\ k.state[t] = WAIT /\ ~Queued(k1, t)
      /\ k1.q[Q] = Tail(k.q[Q]) /\ OtherQueuesSame(k, k1, Q)
  BY <1>3 DEF FirstRemoved
<1> HIDE DEF t
<1>5. /\ k1 \in KState /\ QueuesOK(k1) /\ MaskOK(k1) /\ ActiveOK(k1) /\ IdleOK(k1)
      /\ t \in k1.all_threads /\ k1.prio = k.prio
  BY <1>4 DEF Consistent, SameResources
<1>6. QueuesOK(r) /\ MaskOK(r)
  BY <1>4, <1>5, MoveToReadyOK
<1>7. MovedToReady(k1, t, r) /\ PutLast(k1, t, P, READY, r)
  BY <1>4, <1>5, MoveToReadyFields, MoveToReadyLast
<1>8. P \in Queue /\ P \in ReadyQueue
  BY <1>1, <1>4, QueueNames DEF KState
<1> HIDE DEF r, P
<1>9. /\ r \in KState /\ SameResources(k, r) /\ r.assert = k.assert
      /\ r.active_thread = k.active_thread
  BY <1>4, <1>7 DEF MovedToReady, SameResources, SameThreads
<1>10. \A v \in Desc : r.state[v] = IF v = t THEN READY ELSE k.state[v]
  BY <1>4, <1>7 DEF PutLast, SameThreads
<1>11. /\ \A R \in BlockedQueue \ {Q} : r.q[R] = k.q[R]
       /\ r.q[Q] = Tail(k.q[Q])
  BY <1>1, <1>4, <1>7, <1>8, QueueNames DEF PutLast, Queue, OtherQueuesSame
<1>12. ActiveOK(r)
  BY <1>5, <1>9, <1>10, <1>4 DEF ActiveOK, SameResources, SameThreads, ACTIVE, READY
<1>13. IdleOK(r)
  <2>1. Idle \in Desc /\ Idle \in r.all_threads /\ r.state[Idle] = k1.state[Idle]
    BY <1>4, <1>5, <1>9, <1>10, KThreadAssumption DEF IdleOK, SameResources, SameThreads
  <2>2. \A R \in ReadyQueue : Idle \in ToSet(k1.q[R]) => Idle \in ToSet(r.q[R])
    BY <1>7 DEF PutLast, Queue
  <2> QED BY <1>5, <2>1, <2>2 DEF IdleOK
<1>14. ReleasedFirst(k, Q, r)
  BY <1>4, <1>6, <1>9, <1>10, <1>11, <1>12, <1>13 DEF ReleasedFirst, Consistent, t
<1> QED BY <1>2, <1>14

\* t has been taken out of the queue it may be in.
TakenOff(k, t, r) ==
  /\ r \in KState /\ SameResources(k, r) /\ SameThreads(k, r) /\ r.rdy_mask = k.rdy_mask
  /\ QueuesOK(r)
  /\ \A R \in Queue : t \notin ToSet(k.q[R]) => r.q[R] = k.q[R]
  /\ \A R \in Queue : r.q[R] = list_find_and_remove(k.q[R], t)
  /\ \A R \in Queue : ToSet(r.q[R]) = ToSet(k.q[R]) \ {t} /\ Len(r.q[R]) <= Len(k.q[R])

LEMMA RemoveOK ==
  ASSUME NEW k \in KState, QueuesOK(k), NEW t \in Desc
  PROVE  TakenOff(k, t, kthreadq_remove(k, k.queue[t], t))
<1> DEFINE Q == k.queue[t]
           s == list_find_and_remove(k.q[Q], t)
           r == WithQueue(k, Q, s)
<1>1. kthreadq_remove(k, Q, t) = r
  BY DEF kthreadq_remove, WithQueue
<1>2. ASSUME NEW R \in Queue, R # Q PROVE t \notin ToSet(k.q[R])
  BY <1>2 DEF QueuesOK, Belongs
<1>3. k.q \in [Queue -> Seq(Desc)]
  BY DEF KState
<1>4. /\ r \in KState /\ SameResources(k, r) /\ SameThreads(k, r) /\ r.rdy_mask = k.rdy_mask
      /\ OtherQueuesSame(k, r, Q)
      /\ Q \in Queue => r.q[Q] = s
  <2> HIDE DEF Q
  <2>1. CASE Q \in Queue
    <3>1. s \in Seq(Desc)
      BY <1>3, <2>1, RemoveList
    <3> HIDE DEF s
    <3>2. QueueSet(k, Q, s, r)
      BY <2>1, <3>1, WithQueueSet
    <3> HIDE DEF r
    <3> QED BY <1>3, <2>1, <3>2 DEF QueueSet, OtherQueuesSame
  <2>2. CASE Q \notin Queue
    <3> HIDE DEF s
    <3>1. r = [k EXCEPT !.q = [k.q EXCEPT ![Q] = s]]
      BY DEF WithQueue
    <3>2. [k.q EXCEPT ![Q] = s] = k.q
      BY <1>3, <2>2
    <3>3. r = k
      BY <3>1, <3>2 DEF KState
    <3> QED BY <2>2, <3>3 DEF SameResources, SameThreads, OtherQueuesSame
  <2> QED BY <2>1, <2>2
<1>5. \A R \in Queue : t \notin ToSet(k.q[R]) => r.q[R] = k.q[R]
  <2>1. t \notin ToSet(k.q[Q]) => s = k.q[Q]
    BY DEF list_find_and_remove
  <2> HIDE DEF Q, s, r
  <2> QED BY <1>4, <2>1 DEF OtherQueuesSame
<1>9. ASSUME NEW R \in Queue PROVE r.q[R] = list_find_and_remove(k.q[R], t)
  <2> HIDE DEF r
  <2>1. CASE R = Q
    BY <1>4, <2>1
  <2>2. CASE R # Q
    BY <1>2, <1>5, <2>2 DEF list_find_and_remove
  <2> QED BY <2>1, <2>2
<1> HIDE DEF r, Q
<1>6. ASSUME NEW R \in Queue
      PROVE  /\ ToSet(r.q[R]) = ToSet(k.q[R]) \ {t} /\ Len(r.q[R]) <= Len(k.q[R])
             /\ NoDup(r.q[R])
  <2>1. k.q[R] \in Seq(Desc) /\ NoDup(k.q[R]) /\ Len(k.q[R]) \in Nat
    BY <1>3 DEF QueuesOK
  <2>2. CASE R = Q
    BY <1>4, <2>1, <2>2, RemoveList
  <2>3. CASE R # Q
    <3>1. r.q[R] = k.q[R]
      BY <1>4, <2>3 DEF OtherQueuesSame
    <3> QED BY <1>2, <2>1, <2>3, <3>1
  <2> QED BY <2>2, <2>3
<1>7. QueuesOK(r)
  <2>1. ASSUME NEW R \in Queue, NEW v \in ToSet(r.q[R]) PROVE Belongs(r, v, R)
    <3>1. v \in ToSet(k.q[R])
      BY <1>6
    <3>2. Belongs(k, v, R)
      BY <3>1 DEF QueuesOK
    <3> QED BY <1>4, <3>2 DEF Belongs, SameResources, SameThreads
  <2> QED BY <1>6, <2>1 DEF QueuesOK
<1>8. TakenOff(k, t, r)
  BY <1>4, <1>5, <1>6, <1>7, <1>9 DEF TakenOff
<1> QED BY <1>1, <1>8 DEF Q

\* t is neither in a queue nor on the processor; nothing else is moved.
Detached(k, t, r) ==
  /\ Consistent(r) /\ SameResources(k, r)
  /\ r.assert = k.assert /\ r.active_thread = k.active_thread
  /\ ~Queued(r, t) /\ r.state[t] # ACTIVE
  /\ \A v \in Desc \ {t} : r.state[v] = k.state[v]
  /\ r.state[t] = IF k.state[t] = ACTIVE THEN PASSIVE ELSE k.state[t]
  /\ \A Q \in Queue : r.q[Q] = list_find_and_remove(k.q[Q], t)
  /\ \A Q \in BlockedQueue : Len(r.q[Q]) <= Len(k.q[Q])

\* A thread other than the idle one that is taken out of the queues.
LEMMA TakenOffDetached ==
  ASSUME NEW k, Consistent(k), NEW t \in Desc \ {Idle}, k.state[t] # ACTIVE,
         NEW r1, TakenOff(k, t, r1),
         NEW r, r \in KState, SameResources(r1, r), SameThreads(r1, r), r.q = r1.q, MaskOK(r)
  PROVE  Detached(k, t, r)
<1>1. /\ SameResources(k, r) /\ SameThreads(k, r)
      /\ \A R \in Queue : ToSet(r.q[R]) = ToSet(k.q[R]) \ {t} /\ Len(r.q[R]) <= Len(k.q[R])
  BY DEF TakenOff, SameResources, SameThreads
<1>2. QueuesOK(r)
  BY DEF TakenOff, QueuesOK, Belongs, SameResources, SameThreads
<1>3. ActiveOK(r)
  BY <1>1 DEF Consistent, ActiveOK, SameResources, SameThreads
<1>4. IdleOK(r)
  <2>1. Idle # t /\ ReadyQueue \subseteq Queue
    BY DEF Queue
  <2> QED BY <1>1, <2>1 DEF Consistent, IdleOK, SameResources, SameThreads
<1>5. ~Queued(r, t)
  BY <1>1 DEF Queued
<1>6. \A R \in BlockedQueue : Len(r.q[R]) <= Len(k.q[R])
  BY <1>1 DEF Queue
<1>7. \A R \in Queue : r.q[R] = list_find_and_remove(k.q[R], t)
  BY DEF TakenOff
<1> QED BY <1>1, <1>2, <1>3, <1>4, <1>5, <1>6, <1>7 DEF Detached, Consistent, SameThreads

LEMMA DetachOK ==
  ASSUME NEW k, Consistent(k), NEW t \in Desc \ {Idle}, k.state[t] # PASSIVE
  PROVE  Detached(k, t, Detach(k, t))
<1> DEFINE Q  == k.queue[t]
           r1 == kthreadq_remove(k, Q, t)
<1>1. /\ k \in KState /\ QueuesOK(k) /\ MaskOK(k) /\ ActiveOK(k) /\ IdleOK(k)
      /\ k.state[t] \in {ACTIVE, READY, WAIT}
  BY DEF Consistent, KState, ThreadState
<1>2. TakenOff(k, t, r1)
  BY <1>1, RemoveOK
<1> HIDE DEF r1
<1>3. CASE k.state[t] = WAIT
  <2>1. Detach(k, t) = r1
    BY <1>3 DEF Detach, r1, WAIT, READY, ACTIVE
  <2>2. ASSUME NEW p \in Prio PROVE r1.q[ready_q(p)] = k.q[ready_q(p)]
    <3>1. ready_q(p) \in Queue /\ ready_q(p) \in ReadyQueue
      BY QueueNames
    <3>2. t \notin ToSet(k.q[ready_q(p)])
      BY <1>1, <1>3, <3>1 DEF QueuesOK, Belongs, WAIT, READY
    <3> QED BY <1>2, <3>1, <3>2 DEF TakenOff
  <2>3. MaskOK(r1)
    BY <1>1, <1>2, <2>2 DEF MaskOK, TakenOff
  <2>4. r1 \in KState /\ SameResources(r1, r1) /\ SameThreads(r1, r1)
    BY <1>2 DEF TakenOff, SameResources, SameThreads
  <2>5. k.state[t] # ACTIVE
    BY <1>3 DEF WAIT, ACTIVE
  <2>6. Detached(k, t, r1)
    BY <1>2, <2>3, <2>4, <2>5, TakenOffDetached
  <2> QED BY <2>1, <2>6
<1>4. CASE k.state[t] = READY
  <2> DEFINE p == k.prio[t]
             r == ClearMaskIfEmpty(r1, p)
  <2>1. Detach(k, t) = r
    BY <1>4 DEF Detach, r1, WAIT, READY, ACTIVE
  <2>2. p \in Prio /\ ready_q(p) \in Queue /\ ready_q(p) \in ReadyQueue
    BY <1>1, QueueNames DEF KState
  <2>3. ASSUME NEW x \in Prio, x # p PROVE r1.q[ready_q(x)] = k.q[ready_q(x)]
    <3>1. ready_q(x) \in Queue /\ ready_q(x) \in ReadyQueue /\ ready_q(x) # ready_q(p)
      BY <2>2, <2>3, QueueNames
    <3>2. t \notin ToSet(k.q[ready_q(x)])
      BY <1>1, <3>1 DEF QueuesOK, Belongs
    <3> QED BY <1>2, <3>1, <3>2 DEF TakenOff
  <2>4. r1 \in KState /\ r1.rdy_mask = k.rdy_mask
    BY <1>2 DEF TakenOff
  <2> HIDE DEF p
  <2>5. MaskOKBut(r1, p)
    <3>1. OtherLevelsSame(k, r1, p)
      BY <2>3 DEF OtherLevelsSame
    <3> QED BY <1>1, <2>4, <3>1 DEF MaskOK, MaskOKBut, BitOK, OtherLevelsSame
  <2>6. ASSUME r1.q[ready_q(p)] # <<>> PROVE MaskOK(r1)
    <3>1. k.q[ready_q(p)] # <<>>
      <4>1. k.q[ready_q(p)] \in Seq(Desc) /\ r1.q[ready_q(p)] \in Seq(Desc)
        BY <1>1, <2>2, <2>4 DEF KState
      <4>2. ToSet(r1.q[ready_q(p)]) # {}
        BY <2>6, <4>1, EmptyToSet
      <4>3. ToSet(k.q[ready_q(p)]) # {}
        BY <1>2, <2>2, <4>2 DEF TakenOff
      <4> QED BY <4>1, <4>3, EmptyToSet
    <3> QED BY <1>1, <2>3, <2>4, <2>6, <3>1 DEF MaskOK
  <2>7. MaskCleared(r1, r)
    BY <2>2, <2>4, <2>5, <2>6, ClearMask
  <2> HIDE DEF r
  <2>8. k.state[t] # ACTIVE
    BY <1>4 DEF READY, ACTIVE
  <2>9. Detached(k, t, r)
    BY <1>2, <2>7, <2>8, TakenOffDetached DEF MaskCleared
  <2> QED BY <2>1, <2>9
<1>5. CASE k.state[t] = ACTIVE
  <2> DEFINE r == [k EXCEPT !.state[t] = PASSIVE]
  <2>1. Detach(k, t) = r
    BY <1>5 DEF Detach, WAIT, READY, ACTIVE
  <2>2. /\ r \in KState /\ SameResources(k, r)
        /\ r.assert = k.assert /\ r.active_thread = k.active_thread
        /\ r.queue = k.queue /\ r.q = k.q /\ r.rdy_mask = k.rdy_mask
        /\ r.state = [k.state EXCEPT ![t] = PASSIVE]
    BY <1>1 DEF KState, SameResources, ThreadState
  <2>3. \A v \in Desc : r.state[v] = IF v = t THEN PASSIVE ELSE k.state[v]
    BY <1>1, <2>2 DEF KState
  <2> HIDE DEF r
  <2>4. ~Queued(k, t)
    BY <1>1, <1>5 DEF Queued, QueuesOK, Belongs, ACTIVE, READY, WAIT
  <2>5. QueuesOK(r)
    <3>1. ASSUME NEW R \in Queue, NEW v \in ToSet(r.q[R]) PROVE Belongs(r, v, R)
      <4>1. v \in Desc /\ v # t
        <5>1. k.q[R] \in Seq(Desc)
          BY <1>1 DEF KState
        <5> QED BY <2>2, <2>4, <5>1, ToSetType DEF Queued
      <4> QED BY <1>1, <2>2, <2>3, <4>1 DEF QueuesOK, Belongs, SameResources
    <3> QED BY <1>1, <2>2, <3>1 DEF QueuesOK
  <2>6. MaskOK(r)
    BY <1>1, <2>2 DEF MaskOK
  <2>7. ActiveOK(r)
    BY <1>1, <2>2, <2>3 DEF ActiveOK, SameResources, ACTIVE, PASSIVE
  <2>8. IdleOK(r)
    BY <1>1, <2>2, <2>3, KThreadAssumption DEF IdleOK, SameResources
  <2>9. ~Queued(r, t) /\ r.state[t] # ACTIVE
    BY <2>2, <2>3, <2>4 DEF Queued, ACTIVE, PASSIVE
  <2>10. \A R \in BlockedQueue : Len(r.q[R]) <= Len(k.q[R])
    BY <1>1, <2>2 DEF KState, Queue
  <2>11. \A R \in Queue : r.q[R] = list_find_and_remove(k.q[R], t)
    BY <2>2, <2>4 DEF Queued, list_find_and_remove
  <2> QED BY <1>5, <2>1, <2>2, <2>3, <2>5, <2>6, <2>7, <2>8, <2>9, <2>10, <2>11
          DEF Detached, Consistent
<1> QED BY <1>1, <1>3, <1>4, <1>5

-----------------------------------------------------------------------------
(***************************************************************************)
(* The operators that create, end and collect threads keep the invariant   *)
(* of the thread subsystem: besides the queues, the references that keep   *)
(* descriptors allocated, the ids and the list of processes.               *)
(***************************************************************************)

\* A waiter holds a reference to the thread it waits for; a descriptor is allocated
\* exactly as long as there is a reference.
RefsOK(k) ==
  \A t \in Desc :
    IF t \in k.all_threads /\ k.state[t] # PASSIVE
    THEN k.ref_cnt[t] >= 1 + Len(k.q[join_queue(t)])
    ELSE /\ k.q[join_queue(t)] = <<>>
         /\ t \in k.all_threads <=> k.ref_cnt[t] >= 1

\* The ids of the allocated descriptors are in use (other resources may have ids too)
\* and different, and a freed descriptor has id 0.
IdsOK(k) ==
  /\ k.ids.halted = "no"
  /\ k.ids.idmask \subseteq 1 .. k.ids.last_id
  /\ \A t \in k.all_threads : k.id[t] \in k.ids.idmask
  /\ \A t, u \in k.all_threads : k.id[t] = k.id[u] => t = u
  /\ \A t \in Desc \ k.all_threads : k.id[t] = 0

\* The ids in use that are no thread's.
OtherIds(k) == k.ids.idmask \ {k.id[t] : t \in k.all_threads}

\* A process that is not in procs has no thread left to count.
ProcsOK(k) ==
  /\ KernelProc \in k.procs
  /\ \A pr \in Proc \ k.procs : k.thr_count[pr] <= 0

\* Good holds between any two calls; Sound as long as no thread is put in a process
\* that is gone; Top from each kthreads_schedule on; Runs after the first one.
Good(k)    == Consistent(k) /\ RefsOK(k) /\ IdsOK(k)
Sound(k)   == ProcsOK(k) /\ k.assert = "ok"
Runs(k)    == /\ k.active_thread \in Desc /\ k.active_thread \in k.all_threads
              /\ k.state[k.active_thread] = ACTIVE
Settled(k) == Good(k) /\ Top(k)

\* Only fields that the queues do not depend on differ.
SameLists(k, r) ==
  /\ r.state = k.state /\ r.queue = k.queue /\ r.prio = k.prio
  /\ r.q = k.q /\ r.rdy_mask = k.rdy_mask /\ r.active_thread = k.active_thread

\* v may run again: it is ready or active, or somebody can still release it.
Awake(k, v)   == k.state[v] \in {ACTIVE, READY}
Waiting(k, v) == \E Q \in BlockedQueue : v \in ToSet(k.q[Q])
Live(k, v)    == Awake(k, v) \/ Waiting(k, v)

RefDropped(k, r, v) == r.ref_cnt[v] < k.ref_cnt[v]

(***************************************************************************)
(* What a thread call leaves alone, for the modules whose queues threads   *)
(* wait in.  Only t, the thread that the call ends if it ends one, leaves  *)
(* such a queue, and nobody enters one; no thread comes back to life but   *)
(* in a new descriptor; a thread stops being ready only by ending or by    *)
(* blocking itself; and the ids of other resources stay in use.            *)
(***************************************************************************)
Frame(k, r, t) ==
  /\ \A w \in WaitQueue : r.q[wait_q(w)] = list_find_and_remove(k.q[wait_q(w)], t)
  /\ \A v \in Desc : Live(r, v) => Live(k, v) \/ v \in r.all_threads \ k.all_threads
  /\ t \in Desc /\ Waiting(k, t) => ~Live(r, t)
  /\ \A v \in Desc : Awake(k, v) => Awake(r, v) \/ v = k.active_thread \/ RefDropped(k, r, v)
  /\ \A v \in Desc : RefDropped(k, r, v) => ~Waiting(r, v)
  /\ \A v \in k.all_threads \ r.all_threads : RefDropped(k, r, v)
  /\ OtherIds(r) = OtherIds(k)

\* The queues of semaphores, monitors and message queues are as they were.
LEMMA NobodyLeaves ==
  ASSUME NEW k \in KState, NEW r, \A w \in WaitQueue : r.q[wait_q(w)] = k.q[wait_q(w)]
  PROVE  \A w \in WaitQueue : r.q[wait_q(w)] = list_find_and_remove(k.q[wait_q(w)], NULL)
<1> SUFFICES ASSUME NEW w \in WaitQueue
             PROVE  k.q[wait_q(w)] = list_find_and_remove(k.q[wait_q(w)], NULL)
  OBVIOUS
<1>1. k.q[wait_q(w)] \in Seq(Desc)
  BY QueueNames DEF KState
<1>2. NULL \notin ToSet(k.q[wait_q(w)])
  BY <1>1, ToSetType, KThreadAssumption
<1> QED BY <1>2 DEF list_find_and_remove

LEMMA SameListsConsistent ==
  ASSUME NEW k, Consistent(k), NEW r \in KState, SameLists(k, r), r.all_threads = k.all_threads
  PROVE  Consistent(r)
<1>1. QueuesOK(r)
  BY DEF Consistent, QueuesOK, Belongs, SameLists
<1>2. MaskOK(r)
  BY DEF Consistent, MaskOK, SameLists
<1>3. ActiveOK(r) /\ IdleOK(r)
  BY DEF Consistent, ActiveOK, IdleOK, SameLists
<1> QED BY <1>1, <1>2, <1>3 DEF Consistent

LEMMA JoinQueueType ==
  ASSUME NEW k \in KState, NEW t \in Desc
  PROVE  k.q[join_queue(t)] \in Seq(Desc) /\ Len(k.q[join_queue(t)]) \in Nat
BY QueueNames DEF KState

LEMMA TopRuns ==
  ASSUME NEW k, Top(k)
  PROVE  Runs(k)
BY DEF Top, Runs

\* Threads that are not in the ready queues are as they were, after kthreads_schedule.
Rescheduled(k, r) ==
  /\ Settled(r) /\ SameResources(k, r) /\ BlockedSame(k, r) /\ r.assert = k.assert
  /\ \A v \in Desc : Awake(r, v) <=> Awake(k, v)
  /\ \A v \in Desc : Waiting(r, v) <=> Waiting(k, v)
  /\ Sound(k) => Sound(r)

LEMMA ScheduleSettles ==
  ASSUME NEW k, Good(k)
  PROVE  Rescheduled(k, kthreads_schedule(k))
<1> DEFINE r == kthreads_schedule(k)
<1>1. Scheduled(k, r)
  BY ScheduleOK DEF Good
<1> HIDE DEF r
<1>2. RefsOK(r)
  <2>1. \A t \in Desc : r.state[t] # PASSIVE <=> k.state[t] # PASSIVE
    BY <1>1 DEF Scheduled, BlockedSame, PASSIVE, ACTIVE, READY
  <2>2. \A t \in Desc : r.q[join_queue(t)] = k.q[join_queue(t)]
    BY <1>1, QueueNames DEF Scheduled, BlockedSame
  <2> QED BY <1>1, <2>1, <2>2 DEF RefsOK, Good, Scheduled, SameResources
<1>3. IdsOK(r)
  BY <1>1 DEF IdsOK, Good, Scheduled, SameResources
<1>4. Sound(k) => Sound(r)
  BY <1>1 DEF Sound, ProcsOK, Scheduled, SameResources
<1>5. \A v \in Desc : Awake(r, v) <=> Awake(k, v)
  BY <1>1 DEF Scheduled, BlockedSame, Awake
<1>6. \A v \in Desc : Waiting(r, v) <=> Waiting(k, v)
  BY <1>1 DEF Scheduled, BlockedSame, Waiting
<1> QED BY <1>1, <1>2, <1>3, <1>4, <1>5, <1>6 DEF Settled, Good, Scheduled, Rescheduled, r

\* Moves between queues that leave the join queues alone keep what holds of the
\* descriptors, ids and processes.
LEMMA GoodMoves ==
  ASSUME NEW k, Good(k), NEW r, Consistent(r), SameResources(k, r), r.assert = k.assert,
         \A v \in Desc : r.state[v] # PASSIVE <=> k.state[v] # PASSIVE,
         \A v \in Desc : r.q[join_queue(v)] = k.q[join_queue(v)]
  PROVE  Good(r) /\ (Sound(k) => Sound(r)) /\ OtherIds(r) = OtherIds(k)
<1>1. RefsOK(r)
  BY DEF Good, RefsOK, SameResources
<1>2. IdsOK(r) /\ (Sound(k) => Sound(r)) /\ OtherIds(r) = OtherIds(k)
  BY DEF Good, IdsOK, Sound, ProcsOK, OtherIds, SameResources
<1> QED BY <1>1, <1>2 DEF Good

-----------------------------------------------------------------------------
(***************************************************************************)
(* What the modules that keep threads in queues of their own do with them: *)
(* who is in a queue afterwards, and who is live.                          *)
(***************************************************************************)
InQueue(k, v, w) == v \in ToSet(k.q[wait_q(w)])

Moved(k, r) ==
  /\ Good(r) /\ (Sound(k) => Sound(r))
  /\ SameResources(k, r) /\ OtherIds(r) = OtherIds(k)
  /\ r.assert = k.assert /\ r.active_thread = k.active_thread

LEMMA WaitQueueType ==
  ASSUME NEW k \in KState, NEW w \in WaitQueue
  PROVE  /\ wait_q(w) \in BlockedQueue /\ wait_q(w) \in Queue /\ k.q[wait_q(w)] \in Seq(Desc)
         /\ ToSet(k.q[wait_q(w)]) \subseteq Desc
         /\ k.q[wait_q(w)] = <<>> <=> \A v \in Desc : ~InQueue(k, v, w)
         /\ \A v \in Desc : wait_q(w) # join_queue(v)
         /\ \A u \in WaitQueue : wait_q(u) = wait_q(w) => u = w
<1>1. /\ wait_q(w) \in BlockedQueue /\ wait_q(w) \in Queue /\ k.q[wait_q(w)] \in Seq(Desc)
      /\ \A v \in Desc : wait_q(w) # join_queue(v)
  BY QueueNames DEF KState
<1>2. ToSet(k.q[wait_q(w)]) \subseteq Desc
  BY <1>1, ToSetType
<1>3. k.q[wait_q(w)] = <<>> <=> ToSet(k.q[wait_q(w)]) = {}
  BY <1>1, EmptyToSet
<1>4. \A u \in WaitQueue : wait_q(u) = wait_q(w) => u = w
  BY DEF wait_q
<1> QED BY <1>1, <1>2, <1>3, <1>4 DEF InQueue

\* A thread in a queue is blocked, and in no other queue.
LEMMA OneQueue ==
  ASSUME NEW k, Consistent(k), NEW w \in WaitQueue, NEW v, InQueue(k, v, w)
  PROVE  /\ v \in Desc /\ v \in k.all_threads /\ k.state[v] = WAIT /\ Waiting(k, v)
         /\ \A u \in WaitQueue : InQueue(k, v, u) => u = w
<1>1. k \in KState /\ QueuesOK(k)
  BY DEF Consistent
<1>2. v \in Desc /\ Waiting(k, v)
  BY <1>1, WaitQueueType DEF InQueue, Waiting
<1>3. Belongs(k, v, wait_q(w))
  BY <1>1, WaitQueueType DEF InQueue, QueuesOK
<1>4. \A u \in WaitQueue : InQueue(k, v, u) => Belongs(k, v, wait_q(u))
  BY <1>1, WaitQueueType DEF InQueue, QueuesOK
<1>5. wait_q(w) \notin ReadyQueue
  BY QueueNames
<1> QED BY <1>1, <1>2, <1>3, <1>4, <1>5, WaitQueueType DEF Belongs

LEMMA EnqueueMoves ==
  ASSUME NEW k, Good(k), NEW t \in Desc \ {Idle}, t \in k.all_threads, ~Queued(k, t),
         k.state[t] # PASSIVE, NEW w \in WaitQueue
  PROVE  LET r == kthread_enqueue(k, t, wait_q(w))
         IN  /\ Moved(k, r) /\ r.q[wait_q(w)] = Append(k.q[wait_q(w)], t)
             /\ \A R \in Queue \ {wait_q(w)} : r.q[R] = k.q[R]
             /\ \A v \in Desc : r.state[v] = IF v = t THEN WAIT ELSE k.state[v]
             /\ \A u \in WaitQueue : \A v \in Desc :
                  InQueue(r, v, u) <=> InQueue(k, v, u) \/ (v = t /\ u = w)
             /\ \A v \in Desc \ {t} : Live(r, v) => Live(k, v)
<1> DEFINE r == kthread_enqueue(k, t, wait_q(w))
<1>1. Consistent(k) /\ k \in KState
  BY DEF Good, Consistent
<1>2. Enqueued(k, t, wait_q(w), r)
  BY <1>1, WaitQueueType, EnqueueOK
<1> HIDE DEF r
<1>3. Good(r) /\ (Sound(k) => Sound(r)) /\ OtherIds(r) = OtherIds(k)
  <2>1. \A v \in Desc : r.state[v] # PASSIVE <=> k.state[v] # PASSIVE
    BY <1>2 DEF Enqueued, PASSIVE, WAIT
  <2>2. \A v \in Desc : r.q[join_queue(v)] = k.q[join_queue(v)]
    BY <1>1, <1>2, WaitQueueType, QueueNames DEF Enqueued, OtherQueuesSame
  <2> QED BY <1>2, <2>1, <2>2, GoodMoves DEF Enqueued
<1>4. /\ r.q[wait_q(w)] = Append(k.q[wait_q(w)], t)
      /\ \A R \in Queue \ {wait_q(w)} : r.q[R] = k.q[R]
  BY <1>2 DEF Enqueued, OtherQueuesSame
<1>5. \A u \in WaitQueue : \A v \in Desc :
        InQueue(r, v, u) <=> InQueue(k, v, u) \/ (v = t /\ u = w)
  <2> TAKE u \in WaitQueue
  <2>1. CASE u = w
    <3>1. ToSet(r.q[wait_q(w)]) = ToSet(k.q[wait_q(w)]) \cup {t}
      BY <1>1, <1>4, WaitQueueType, AppendList
    <3> QED BY <2>1, <3>1 DEF InQueue
  <2>2. CASE u # w
    BY <1>1, <1>4, <2>2, WaitQueueType DEF InQueue
  <2> QED BY <2>1, <2>2
<1>6. \A v \in Desc \ {t} : Live(r, v) => Live(k, v)
  <2>1. ToSet(r.q[wait_q(w)]) = ToSet(k.q[wait_q(w)]) \cup {t}
    BY <1>1, <1>4, WaitQueueType, AppendList
  <2>2. \A v \in Desc \ {t} : Waiting(r, v) => Waiting(k, v)
    BY <1>4, <2>1 DEF Waiting, Queue
  <2>3. \A v \in Desc \ {t} : Awake(r, v) => Awake(k, v)
    BY <1>2 DEF Enqueued, Awake
  <2> QED BY <2>2, <2>3 DEF Live
<1>7. Moved(k, r)
  BY <1>2, <1>3 DEF Enqueued, Moved
<1>8. \A v \in Desc : r.state[v] = IF v = t THEN WAIT ELSE k.state[v]
  BY <1>2 DEF Enqueued
<1> QED BY <1>4, <1>5, <1>6, <1>7, <1>8 DEF r

LEMMA ReleaseMoves ==
  ASSUME NEW k, Good(k), NEW w \in WaitQueue, k.q[wait_q(w)] # <<>>
  PROVE  LET r == kthreadq_release(k, wait_q(w))
             t == Head(k.q[wait_q(w)])
         IN  /\ Moved(k, r) /\ InQueue(k, t, w) /\ t \in Desc
             /\ r.q[wait_q(w)] = Tail(k.q[wait_q(w)])
             /\ \A R \in BlockedQueue \ {wait_q(w)} : r.q[R] = k.q[R]
             /\ \A v \in Desc : r.state[v] = IF v = t THEN READY ELSE k.state[v]
             /\ \A u \in WaitQueue : \A v \in Desc :
                  InQueue(r, v, u) <=> InQueue(k, v, u) /\ v # t
             /\ \A v \in Desc : Live(r, v) => Live(k, v)
<1> DEFINE r == kthreadq_release(k, wait_q(w))
           t == Head(k.q[wait_q(w)])
<1>1. Consistent(k) /\ k \in KState /\ QueuesOK(k)
  BY DEF Good, Consistent
<1>2. ReleasedFirst(k, wait_q(w), r)
  BY <1>1, WaitQueueType, ReleaseOK
<1> HIDE DEF r
<1>3. Good(r) /\ (Sound(k) => Sound(r)) /\ OtherIds(r) = OtherIds(k)
  <2>1. \A v \in Desc : r.state[v] # PASSIVE <=> k.state[v] # PASSIVE
    BY <1>2 DEF ReleasedFirst, PASSIVE, WAIT, READY
  <2>2. \A v \in Desc : r.q[join_queue(v)] = k.q[join_queue(v)]
    BY <1>1, <1>2, WaitQueueType, QueueNames DEF ReleasedFirst
  <2> QED BY <1>2, <2>1, <2>2, GoodMoves DEF ReleasedFirst
<1>4. /\ t \in ToSet(k.q[wait_q(w)]) /\ t \in Desc
      /\ ToSet(Tail(k.q[wait_q(w)])) = ToSet(k.q[wait_q(w)]) \ {t}
  <2>1. k.q[wait_q(w)] \in Seq(Desc) /\ NoDup(k.q[wait_q(w)])
    BY <1>1, WaitQueueType DEF QueuesOK
  <2> QED BY <2>1, TailList
<1> HIDE DEF t
<1>5. /\ r.q[wait_q(w)] = Tail(k.q[wait_q(w)])
      /\ \A R \in BlockedQueue \ {wait_q(w)} : r.q[R] = k.q[R]
  BY <1>2 DEF ReleasedFirst
<1>6. InQueue(k, t, w) /\ \A u \in WaitQueue : InQueue(k, t, u) => u = w
  BY <1>1, <1>4, OneQueue DEF InQueue
<1>7. \A u \in WaitQueue : \A v \in Desc : InQueue(r, v, u) <=> InQueue(k, v, u) /\ v # t
  <2> TAKE u \in WaitQueue
  <2>1. CASE u = w
    BY <1>4, <1>5, <2>1 DEF InQueue
  <2>2. CASE u # w
    BY <1>1, <1>5, <1>6, <2>2, WaitQueueType DEF InQueue
  <2> QED BY <2>1, <2>2
<1>8. \A v \in Desc : Live(r, v) => Live(k, v)
  <2>1. \A v \in Desc : Waiting(r, v) => Waiting(k, v)
    BY <1>4, <1>5 DEF Waiting
  <2>2. \A v \in Desc \ {t} : Awake(r, v) => Awake(k, v)
    BY <1>2 DEF ReleasedFirst, Awake, t
  <2>3. Waiting(k, t)
    BY <1>1, <1>4, WaitQueueType DEF Waiting
  <2> QED BY <2>1, <2>2, <2>3 DEF Live
<1>9. Moved(k, r)
  BY <1>2, <1>3 DEF ReleasedFirst, Moved
<1>10. \A v \in Desc : r.state[v] = IF v = t THEN READY ELSE k.state[v]
  BY <1>2 DEF ReleasedFirst, t
<1> QED BY <1>4, <1>5, <1>6, <1>7, <1>8, <1>9, <1>10 DEF r, t

\* kthreadq_remove ( Q, NULL ), for a thread that is then put in another queue.
LEMMA RemoveMoves ==
  ASSUME NEW k, Good(k), NEW w \in WaitQueue, k.q[wait_q(w)] # <<>>
  PROVE  LET r == kthreadq_remove_first(k, wait_q(w))
             t == Head(k.q[wait_q(w)])
         IN  /\ Moved(k, r) /\ InQueue(k, t, w) /\ t \in Desc \ {Idle} /\ t \in k.all_threads
             /\ k.state[t] = WAIT /\ ~Queued(r, t)
             /\ r.q[wait_q(w)] = Tail(k.q[wait_q(w)])
             /\ \A R \in Queue \ {wait_q(w)} : r.q[R] = k.q[R]
             /\ r.state = k.state
             /\ \A u \in WaitQueue : \A v \in Desc :
                  InQueue(r, v, u) <=> InQueue(k, v, u) /\ v # t
             /\ \A v \in Desc : Live(r, v) => Live(k, v)
<1> DEFINE r == kthreadq_remove_first(k, wait_q(w))
           t == Head(k.q[wait_q(w)])
<1>1. Consistent(k) /\ k \in KState /\ QueuesOK(k)
  BY DEF Good, Consistent
<1>2. FirstRemoved(k, wait_q(w), r)
  BY <1>1, WaitQueueType, RemoveFirstOK
<1> HIDE DEF r
<1>3. /\ Consistent(r) /\ SameResources(k, r) /\ SameThreads(k, r)
      /\ t \in Desc \ {Idle} /\ t \in k.all_threads /\ k.state[t] = WAIT /\ ~Queued(r, t)
      /\ r.q[wait_q(w)] = Tail(k.q[wait_q(w)])
      /\ \A R \in Queue \ {wait_q(w)} : r.q[R] = k.q[R]
  BY <1>2 DEF FirstRemoved, OtherQueuesSame
<1>4. /\ t \in ToSet(k.q[wait_q(w)])
      /\ ToSet(Tail(k.q[wait_q(w)])) = ToSet(k.q[wait_q(w)]) \ {t}
  <2>1. k.q[wait_q(w)] \in Seq(Desc) /\ NoDup(k.q[wait_q(w)])
    BY <1>1, WaitQueueType DEF QueuesOK
  <2> QED BY <2>1, TailList
<1> HIDE DEF t
<1>5. Good(r) /\ (Sound(k) => Sound(r)) /\ OtherIds(r) = OtherIds(k)
  <2>1. \A v \in Desc : r.q[join_queue(v)] = k.q[join_queue(v)]
    BY <1>1, <1>3, WaitQueueType, QueueNames
  <2> QED BY <1>3, <2>1, GoodMoves DEF SameThreads
<1>6. \A u \in WaitQueue : \A v \in Desc : InQueue(r, v, u) <=> InQueue(k, v, u) /\ v # t
  <2> TAKE u \in WaitQueue
  <2>1. CASE u = w
    BY <1>3, <1>4, <2>1 DEF InQueue
  <2>2. CASE u # w
    BY <1>1, <1>3, <1>4, <2>2, WaitQueueType, OneQueue DEF InQueue
  <2> QED BY <2>1, <2>2
<1>7. \A v \in Desc : Live(r, v) => Live(k, v)
  <2>1. \A Q \in BlockedQueue : ToSet(r.q[Q]) \subseteq ToSet(k.q[Q])
    BY <1>3, <1>4 DEF Queue
  <2> QED BY <1>3, <2>1 DEF Live, Awake, Waiting, SameThreads
<1>8. Moved(k, r)
  BY <1>3, <1>5 DEF Moved, SameThreads
<1>9. InQueue(k, t, w) /\ r.state = k.state
  BY <1>3, <1>4 DEF InQueue, SameThreads
<1> QED BY <1>3, <1>6, <1>7, <1>8, <1>9 DEF r, t

LEMMA ReleaseAllMoves ==
  ASSUME NEW k, Good(k), NEW w \in WaitQueue
  PROVE  LET r == kthreadq_release_all(k, wait_q(w))
         IN  /\ Moved(k, r) /\ r.q[wait_q(w)] = <<>>
             /\ \A R \in BlockedQueue \ {wait_q(w)} : r.q[R] = k.q[R]
             /\ \A v \in Desc : r.state[v] = IF InQueue(k, v, w) THEN READY ELSE k.state[v]
             /\ \A u \in WaitQueue : \A v \in Desc :
                  InQueue(r, v, u) <=> InQueue(k, v, u) /\ u # w
             /\ \A v \in Desc : Live(r, v) => Live(k, v)
<1> DEFINE r == kthreadq_release_all(k, wait_q(w))
<1>1. Consistent(k) /\ k \in KState
  BY DEF Good, Consistent
<1>2. ReleasedAll(k, wait_q(w), r)
  BY <1>1, WaitQueueType, ReleaseAllOK
<1> HIDE DEF r
<1>3. Good(r) /\ (Sound(k) => Sound(r)) /\ OtherIds(r) = OtherIds(k)
  <2>1. \A v \in Desc : r.state[v] # PASSIVE <=> k.state[v] # PASSIVE
    BY <1>2 DEF ReleasedAll, PASSIVE, WAIT, READY
  <2>2. \A v \in Desc : r.q[join_queue(v)] = k.q[join_queue(v)]
    BY <1>1, <1>2, WaitQueueType, QueueNames DEF ReleasedAll
  <2> QED BY <1>2, <2>1, <2>2, GoodMoves DEF ReleasedAll
<1>4. r.q[wait_q(w)] = <<>> /\ \A R \in BlockedQueue \ {wait_q(w)} : r.q[R] = k.q[R]
  BY <1>2 DEF ReleasedAll
<1>5. \A u \in WaitQueue : \A v \in Desc : InQueue(r, v, u) <=> InQueue(k, v, u) /\ u # w
  <2> TAKE u \in WaitQueue
  <2>1. CASE u = w
    BY <1>4, <2>1, NoDupEmpty DEF InQueue
  <2>2. CASE u # w
    BY <1>1, <1>4, <2>2, WaitQueueType DEF InQueue
  <2> QED BY <2>1, <2>2
<1>6. \A v \in Desc : Live(r, v) => Live(k, v)
  <2>1. \A v \in Desc : Waiting(r, v) => Waiting(k, v)
    BY <1>4, NoDupEmpty DEF Waiting
  <2>2. \A v \in Desc : Awake(r, v) => Awake(k, v) \/ v \in ToSet(k.q[wait_q(w)])
    BY <1>2 DEF ReleasedAll, Awake
  <2>3. \A v \in ToSet(k.q[wait_q(w)]) : Waiting(k, v)
    BY <1>1, WaitQueueType DEF Waiting
  <2> QED BY <2>1, <2>2, <2>3 DEF Live
<1>7. Moved(k, r)
  BY <1>2, <1>3 DEF ReleasedAll, Moved
<1>8. \A v \in Desc : r.state[v] = IF InQueue(k, v, w) THEN READY ELSE k.state[v]
  BY <1>2 DEF ReleasedAll, InQueue
<1> QED BY <1>4, <1>5, <1>6, <1>7, <1>8 DEF r

\* kthreads_schedule moves nobody in or out of these queues.
LEMMA RescheduledIn ==
  ASSUME NEW k \in KState, NEW r, Rescheduled(k, r)
  PROVE  /\ \A w \in WaitQueue : r.q[wait_q(w)] = k.q[wait_q(w)]
         /\ \A w \in WaitQueue : \A v \in Desc : InQueue(r, v, w) <=> InQueue(k, v, w)
         /\ \A v \in Desc : Live(r, v) <=> Live(k, v)
<1>1. \A w \in WaitQueue : r.q[wait_q(w)] = k.q[wait_q(w)]
  BY WaitQueueType DEF Rescheduled, BlockedSame
<1>2. \A v \in Desc : Live(r, v) <=> Live(k, v)
  BY DEF Rescheduled, Live
<1> QED BY <1>1, <1>2 DEF InQueue

\* Nor does a thread call, but for the thread t it ends.
LEMMA FrameIn ==
  ASSUME NEW k, Good(k), NEW r, NEW t, Frame(k, r, t)
  PROVE  /\ \A w \in WaitQueue : \A v \in Desc : InQueue(r, v, w) <=> InQueue(k, v, w) /\ v # t
         /\ \A w \in WaitQueue : k.q[wait_q(w)] = <<>> => r.q[wait_q(w)] = <<>>
<1> SUFFICES ASSUME NEW w \in WaitQueue
             PROVE  /\ \A v \in Desc : InQueue(r, v, w) <=> InQueue(k, v, w) /\ v # t
                    /\ k.q[wait_q(w)] = <<>> => r.q[wait_q(w)] = <<>>
  OBVIOUS
<1>1. k.q[wait_q(w)] \in Seq(Desc) /\ NoDup(k.q[wait_q(w)])
  BY WaitQueueType DEF Good, Consistent, QueuesOK
<1>2. r.q[wait_q(w)] = list_find_and_remove(k.q[wait_q(w)], t)
  BY DEF Frame
<1>3. ToSet(r.q[wait_q(w)]) = ToSet(k.q[wait_q(w)]) \ {t}
  BY <1>1, <1>2, RemoveList
<1>4. k.q[wait_q(w)] = <<>> => r.q[wait_q(w)] = <<>>
  BY <1>2, NoDupEmpty DEF list_find_and_remove
<1> QED BY <1>3, <1>4 DEF InQueue

-----------------------------------------------------------------------------
(***************************************************************************)
(* The end of a thread.                                                    *)
(***************************************************************************)
Removed(k, t, r) ==
  /\ Consistent(r) /\ IdsOK(r) /\ r.assert = k.assert
  /\ SameLists(k, r) /\ r.all_threads = k.all_threads \ {t}
  /\ r.ref_cnt = k.ref_cnt /\ r.thr_count = k.thr_count /\ r.procs = k.procs
  /\ r.ids.last_id = k.ids.last_id /\ OtherIds(r) = OtherIds(k)
  /\ r.proc = k.proc /\ \A v \in r.all_threads : r.id[v] = k.id[v]

LEMMA RemoveDescriptorOK ==
  ASSUME NEW k, Consistent(k), IdsOK(k), NEW t \in Desc \ {Idle}, t \in k.all_threads,
         ~Queued(k, t), k.state[t] # ACTIVE
  PROVE  Removed(k, t, kthread_remove_descriptor(k, t))
<1> DEFINE u == k_free_unique_id(k.ids, k.id[t])
           r == [k EXCEPT !.ids = u, !.id[t] = 0, !.all_threads = @ \ {t}]
<1>1. /\ k \in KState /\ QueuesOK(k) /\ MaskOK(k) /\ ActiveOK(k) /\ IdleOK(k)
      /\ k.ids \in UniqueIdState /\ k.id \in [Desc -> Id]
      /\ k.all_threads \subseteq Desc
  BY DEF Consistent, KState
<1>2. /\ k.id[t] > 0 /\ k.id[t] < MAX_RESOURCES /\ k.id[t] < MASK_BITS
      /\ k.id[t] \in k.ids.idmask
  <2>1. k.id[t] \in 1 .. k.ids.last_id /\ k.id[t] \in 0 .. MASK_BITS - 1
    BY <1>1 DEF IdsOK, UniqueIdState
  <2>2. k.id[t] \in k.ids.idmask
    BY DEF IdsOK
  <2> QED BY <2>1, <2>2, MaskBitsFact, MaxResourcesAssumption
<1>3. /\ u \in UniqueIdState /\ u.last_id = k.ids.last_id
      /\ u.idmask = k.ids.idmask \ {k.id[t]} /\ u.halted = k.ids.halted
  <2>1. u \in UniqueIdState
    BY <1>1, FreeIdType
  <2>2. u = [k.ids EXCEPT !.idmask = @ \ {k.id[t]}]
    BY <1>2 DEF k_free_unique_id, IdBit, ClearIdBit
  <2> QED BY <1>1, <2>1, <2>2 DEF UniqueIdState
<1>4. kthread_remove_descriptor(k, t) = r
  BY <1>1 DEF kthread_remove_descriptor, KState
<1> HIDE DEF u
<1>5. /\ r \in KState /\ SameLists(k, r) /\ r.assert = k.assert
      /\ r.all_threads = k.all_threads \ {t} /\ r.ids = u
      /\ r.id = [k.id EXCEPT ![t] = 0]
      /\ r.ref_cnt = k.ref_cnt /\ r.thr_count = k.thr_count /\ r.procs = k.procs
      /\ r.proc = k.proc
  <2>1. 0 \in Id
    BY DEF Id
  <2> QED BY <1>1, <1>3, <2>1 DEF KState, SameLists
<1>6. \A v \in Desc : r.id[v] = IF v = t THEN 0 ELSE k.id[v]
  BY <1>1, <1>5
<1> HIDE DEF r
<1>7. QueuesOK(r)
  <2>1. ASSUME NEW Q \in Queue, NEW v \in ToSet(r.q[Q]) PROVE Belongs(r, v, Q)
    <3>1. v \in ToSet(k.q[Q]) /\ v # t
      BY <1>5 DEF SameLists, Queued
    <3>2. Belongs(k, v, Q)
      BY <1>1, <3>1 DEF QueuesOK
    <3> QED BY <1>5, <3>1, <3>2 DEF Belongs, SameLists
  <2> QED BY <1>1, <1>5, <2>1 DEF QueuesOK, SameLists
<1>8. MaskOK(r)
  BY <1>1, <1>5 DEF MaskOK, SameLists
<1>9. ActiveOK(r) /\ IdleOK(r)
  BY <1>1, <1>5 DEF ActiveOK, IdleOK, SameLists
<1>10. IdsOK(r) /\ OtherIds(r) = OtherIds(k)
  <2>1. /\ r.ids.idmask = k.ids.idmask \ {k.id[t]} /\ r.ids.halted = "no"
        /\ r.ids.last_id = k.ids.last_id
    BY <1>3, <1>5 DEF IdsOK
  <2>2. \A v \in r.all_threads : v # t /\ r.id[v] = k.id[v] /\ v \in k.all_threads
    BY <1>1, <1>5, <1>6
  <2>3. \A v \in r.all_threads : k.id[v] # k.id[t]
    BY <2>2 DEF IdsOK
  <2>4. IdsOK(r)
    BY <1>1, <1>5, <1>6, <2>1, <2>2, <2>3 DEF IdsOK
  <2>5. {r.id[v] : v \in r.all_threads} = {k.id[v] : v \in k.all_threads \ {t}}
    BY <1>5, <2>2
  <2>6. {k.id[v] : v \in k.all_threads} = {k.id[v] : v \in k.all_threads \ {t}} \cup {k.id[t]}
    OBVIOUS
  <2> QED BY <2>1, <2>4, <2>5, <2>6 DEF OtherIds
<1>11. \A v \in r.all_threads : r.id[v] = k.id[v]
  BY <1>1, <1>5, <1>6
<1> QED BY <1>3, <1>4, <1>5, <1>7, <1>8, <1>9, <1>10, <1>11 DEF Removed, Consistent

\* One thread fewer in t's process, which is removed with its last one.
LeftProcess(k, t, r) ==
  LET n == k.thr_count[k.proc[t]] - 1
  IN  /\ r.proc = k.proc
      /\ r.thr_count = [k.thr_count EXCEPT ![k.proc[t]] = n]
      /\ r.procs = IF n = 0 /\ k.proc[t] # KernelProc THEN k.procs \ {k.proc[t]} ELSE k.procs

\* t's own reference and its place in its process are gone.
Discounted(k, t, r) ==
  /\ Consistent(r) /\ (Sound(k) => Sound(r))
  /\ SameLists(k, r) /\ r.all_threads = k.all_threads
  /\ r.id = k.id /\ r.ids = k.ids
  /\ \A v \in Desc : r.ref_cnt[v] = IF v = t THEN k.ref_cnt[t] - 1 ELSE k.ref_cnt[v]
  /\ LeftProcess(k, t, r)

LEMMA DiscountOK ==
  ASSUME NEW k, Consistent(k), NEW t \in Desc, NEW s \in Int
  PROVE  Discounted(k, t, Discount(k, t, s))
<1> DEFINE pr == k.proc[t]
           k1 == [k EXCEPT !.ref_cnt[t] = @ - 1, !.exit_status[t] = s, !.thr_count[pr] = @ - 1]
           r  == RemoveProcessIfEmpty(k1, pr)
<1>1. /\ k \in KState /\ pr \in Proc /\ k.ref_cnt \in [Desc -> Int]
      /\ k.thr_count \in [Proc -> Int] /\ k.procs \subseteq Proc
  BY DEF Consistent, KState
<1>2. Discount(k, t, s) = r
  BY DEF Discount
<1> HIDE DEF pr
<1>3. /\ k1 \in KState /\ SameLists(k, k1) /\ k1.all_threads = k.all_threads
      /\ k1.id = k.id /\ k1.ids = k.ids /\ k1.assert = k.assert /\ k1.procs = k.procs
      /\ k1.proc = k.proc
      /\ k1.ref_cnt = [k.ref_cnt EXCEPT ![t] = @ - 1]
      /\ k1.thr_count = [k.thr_count EXCEPT ![pr] = @ - 1]
  <2> DEFINE rc == [k.ref_cnt EXCEPT ![t] = @ - 1]
             es == [k.exit_status EXCEPT ![t] = s]
             tc == [k.thr_count EXCEPT ![pr] = @ - 1]
  <2>1. rc \in [Desc -> Int] /\ tc \in [Proc -> Int]
    BY <1>1
  <2>2. es \in [Desc -> Int]
    BY <1>1 DEF KState
  <2>3. k1 = [k EXCEPT !.ref_cnt = rc, !.exit_status = es, !.thr_count = tc]
    BY <1>1 DEF KState
  <2> HIDE DEF rc, es, tc, k1
  <2>4. /\ k1 \in KState /\ SameLists(k, k1) /\ k1.all_threads = k.all_threads
        /\ k1.id = k.id /\ k1.ids = k.ids /\ k1.assert = k.assert /\ k1.procs = k.procs
        /\ k1.ref_cnt = rc /\ k1.thr_count = tc /\ k1.proc = k.proc
    BY <1>1, <2>1, <2>2, <2>3 DEF KState, SameLists
  <2> QED BY <2>4 DEF rc, tc
<1>4. \A v \in Desc : k1.ref_cnt[v] = IF v = t THEN k.ref_cnt[t] - 1 ELSE k.ref_cnt[v]
  BY <1>1, <1>3
<1>5. \A p \in Proc : k1.thr_count[p] = IF p = pr THEN k.thr_count[p] - 1 ELSE k.thr_count[p]
  BY <1>1, <1>3
<1>6. Sound(k) => Sound(k1)
  BY <1>1, <1>3, <1>5 DEF Sound, ProcsOK
<1> HIDE DEF k1
<1>7. CASE k1.thr_count[pr] = 0 /\ pr # KernelProc
  <2> DEFINE a == IF pr \in k1.procs THEN k1.assert ELSE "not_in_list"
  <2>1. Sound(k) => pr \in k.procs
    BY <1>1, <1>5, <1>7 DEF Sound, ProcsOK
  <2>2. r = [k1 EXCEPT !.procs = @ \ {pr}, !.assert = a]
    BY <1>7 DEF RemoveProcessIfEmpty
  <2>3. a \in AssertOutcome /\ (Sound(k) => a = "ok")
    BY <1>3, <1>6, <2>1 DEF KState, AssertOutcome, Sound
  <2> HIDE DEF a
  <2>4. /\ r \in KState /\ SameLists(k, r) /\ r.all_threads = k.all_threads
        /\ r.id = k.id /\ r.ids = k.ids /\ r.assert = a /\ r.procs = k.procs \ {pr}
        /\ r.ref_cnt = k1.ref_cnt /\ r.thr_count = k1.thr_count /\ r.proc = k.proc
    BY <1>3, <2>2, <2>3 DEF KState, SameLists
  <2>5. Sound(k) => Sound(r)
    BY <1>3, <1>6, <1>7, <2>3, <2>4 DEF Sound, ProcsOK
  <2>6. Consistent(r)
    BY <2>4, SameListsConsistent
  <2>7. LeftProcess(k, t, r)
    BY <1>1, <1>3, <1>5, <1>7, <2>4 DEF LeftProcess, pr
  <2> QED BY <1>2, <1>4, <2>4, <2>5, <2>6, <2>7 DEF Discounted
<1>8. CASE ~(k1.thr_count[pr] = 0 /\ pr # KernelProc)
  <2>1. r = k1
    BY <1>8 DEF RemoveProcessIfEmpty
  <2>2. Consistent(k1)
    BY <1>3, SameListsConsistent
  <2>3. LeftProcess(k, t, r)
    BY <1>1, <1>3, <1>5, <1>8, <2>1 DEF LeftProcess, pr
  <2> QED BY <1>2, <1>3, <1>4, <1>6, <2>1, <2>2, <2>3 DEF Discounted
<1> QED BY <1>7, <1>8

(***************************************************************************)
(* FreeOrRelease restores what Detach and Discount left open about t: as   *)
(* long as t waits to be freed its count is at least that of its waiters.  *)
(***************************************************************************)
RefsBut(k, t) ==
  \A v \in Desc \ {t} :
    IF v \in k.all_threads /\ k.state[v] # PASSIVE
    THEN k.ref_cnt[v] >= 1 + Len(k.q[join_queue(v)])
    ELSE /\ k.q[join_queue(v)] = <<>>
         /\ v \in k.all_threads <=> k.ref_cnt[v] >= 1

Ending(k, t) ==
  /\ RefsBut(k, t) /\ ~Queued(k, t) /\ k.state[t] # ACTIVE
  /\ IF t \in k.all_threads THEN k.ref_cnt[t] >= Len(k.q[join_queue(t)])
                            ELSE k.ref_cnt[t] < 0 /\ k.q[join_queue(t)] = <<>>

\* FreeOrRelease leaves the queues of other modules alone; t's waiters stay live.
Freed(k, t, r) ==
  /\ Good(r) /\ (Sound(k) => Sound(r))
  /\ r.ids.last_id = k.ids.last_id /\ OtherIds(r) = OtherIds(k)
  /\ r.all_threads \subseteq k.all_threads /\ k.all_threads \subseteq r.all_threads \cup {t}
  /\ r.ref_cnt = k.ref_cnt
  /\ \A w \in WaitQueue : r.q[wait_q(w)] = k.q[wait_q(w)]
  /\ \A v \in Desc : Live(r, v) => Live(k, v)
  /\ \A v \in Desc : Awake(k, v) => Awake(r, v)
  /\ \A v \in Desc : Waiting(r, v) => Waiting(k, v)
  /\ r.proc = k.proc /\ r.procs = k.procs /\ r.thr_count = k.thr_count
  /\ \A v \in r.all_threads : r.id[v] = k.id[v]
  /\ \A v \in Desc : r.state[v] # PASSIVE <=> k.state[v] # PASSIVE
  /\ \A v \in Desc \ {t} : r.q[join_queue(v)] = k.q[join_queue(v)]

LEMMA FreeOrReleaseOK ==
  ASSUME NEW k, Consistent(k), IdsOK(k), NEW t \in Desc \ {Idle}, Ending(k, t)
  PROVE  Freed(k, t, FreeOrRelease(k, t))
<1> DEFINE r == FreeOrRelease(k, t)
           J == join_queue(t)
<1>1. /\ k \in KState /\ k.ref_cnt[t] \in Int /\ k.q[J] \in Seq(Desc) /\ Len(k.q[J]) \in Nat
      /\ J \in BlockedQueue
  BY JoinQueueType, QueueNames DEF Consistent, KState
<1>2. CASE k.ref_cnt[t] = 0
  <2>1. r = kthread_remove_descriptor(k, t)
    BY <1>2 DEF FreeOrRelease
  <2>2. t \in k.all_threads /\ k.q[J] = <<>>
    BY <1>1, <1>2 DEF Ending
  <2>3. Removed(k, t, r)
    BY <2>1, <2>2, RemoveDescriptorOK DEF Ending
  <2> HIDE DEF r
  <2>4. RefsOK(r)
    BY <1>2, <2>2, <2>3 DEF Removed, SameLists, Ending, RefsBut, RefsOK
  <2>5. Sound(k) => Sound(r)
    BY <2>3 DEF Removed, Sound, ProcsOK
  <2>6. \A v \in Desc : /\ Awake(r, v) <=> Awake(k, v)
                        /\ Waiting(r, v) <=> Waiting(k, v)
    BY <2>3 DEF Removed, SameLists, Awake, Waiting
  <2>7. Freed(k, t, r)
    BY <2>3, <2>4, <2>5, <2>6 DEF Removed, Good, SameLists, Freed, Live
  <2> QED BY <2>7 DEF r
<1>3. CASE k.ref_cnt[t] # 0
  <2>1. r = kthreadq_release_all(k, J)
    BY <1>3 DEF FreeOrRelease
  <2>2. ReleasedAll(k, J, r)
    BY <1>1, <2>1, ReleaseAllOK
  <2> HIDE DEF r
  <2>3. \A v \in Desc : r.state[v] # PASSIVE <=> k.state[v] # PASSIVE
    BY <2>2 DEF ReleasedAll, PASSIVE, WAIT, READY
  <2>4. /\ r.q[J] = <<>> /\ Len(r.q[J]) = 0
        /\ \A v \in Desc \ {t} : r.q[join_queue(v)] = k.q[join_queue(v)]
    BY <2>2, QueueNames DEF ReleasedAll
  <2>5. ASSUME NEW v \in Desc
        PROVE  IF v \in r.all_threads /\ r.state[v] # PASSIVE
               THEN r.ref_cnt[v] >= 1 + Len(r.q[join_queue(v)])
               ELSE /\ r.q[join_queue(v)] = <<>>
                    /\ v \in r.all_threads <=> r.ref_cnt[v] >= 1
    <3>1. r.ref_cnt = k.ref_cnt /\ r.all_threads = k.all_threads
      BY <2>2 DEF ReleasedAll, SameResources
    <3>2. CASE v # t
      BY <2>3, <2>4, <3>1, <3>2 DEF Ending, RefsBut
    <3>3. CASE v = t
      <4>1. IF t \in k.all_threads THEN k.ref_cnt[t] >= 1 ELSE k.ref_cnt[t] < 0
        BY <1>1, <1>3 DEF Ending
      <4> QED BY <1>1, <2>4, <3>1, <3>3, <4>1
    <3> QED BY <3>2, <3>3
  <2>6. RefsOK(r)
    BY <2>5 DEF RefsOK
  <2>7. IdsOK(r) /\ (Sound(k) => Sound(r))
    BY <2>2 DEF ReleasedAll, SameResources, IdsOK, Sound, ProcsOK
  <2>8. \A w \in WaitQueue : r.q[wait_q(w)] = k.q[wait_q(w)]
    BY <2>2, QueueNames DEF ReleasedAll
  <2>9. \A v \in Desc : Waiting(r, v) => Waiting(k, v)
    BY <2>2, NoDupEmpty DEF ReleasedAll, Waiting
  <2>10. \A v \in Desc : Awake(r, v) => Live(k, v)
    BY <1>1, <2>2 DEF ReleasedAll, Awake, Waiting, Live
  <2>11. \A v \in Desc : Awake(k, v) => Awake(r, v)
    BY <2>2 DEF ReleasedAll, Awake
  <2>12. Freed(k, t, r)
    BY <2>2, <2>3, <2>4, <2>6, <2>7, <2>8, <2>9, <2>10, <2>11
       DEF ReleasedAll, SameResources, Good, Freed, OtherIds, Live
  <2> QED BY <2>12 DEF r
<1> QED BY <1>2, <1>3

(***************************************************************************)
(* The first half of kthread_cancel, up to the release of the waiters: t   *)
(* is out of the queues and its own reference is gone.                     *)
(***************************************************************************)
Withdrawn(k, t, r) ==
  /\ Consistent(r) /\ IdsOK(r) /\ (Sound(k) => Sound(r)) /\ Ending(r, t)
  /\ r.ids = k.ids /\ r.all_threads = k.all_threads /\ OtherIds(r) = OtherIds(k)
  /\ r.active_thread = k.active_thread /\ r.prio = k.prio
  /\ r.id = k.id /\ LeftProcess(k, t, r)
  /\ \A v \in Desc :
       /\ r.ref_cnt[v] = IF v = t THEN k.ref_cnt[t] - 1 ELSE k.ref_cnt[v]
       /\ r.state[v] = IF v = t /\ k.state[v] = ACTIVE THEN PASSIVE ELSE k.state[v]
  /\ \A Q \in Queue : r.q[Q] = list_find_and_remove(k.q[Q], t)

LEMMA StopOK ==
  ASSUME NEW k, Good(k), NEW t \in Desc \ {Idle}, NEW s \in Int, k.state[t] # PASSIVE
  PROVE  Withdrawn(k, t, Discount(Detach(k, t), t, s))
<1> DEFINE k1 == Detach(k, t)
           r  == Discount(k1, t, s)
<1>1. /\ Consistent(k) /\ RefsOK(k) /\ IdsOK(k) /\ k \in KState
      /\ k.q \in [Queue -> Seq(Desc)] /\ k.ref_cnt \in [Desc -> Int]
  BY DEF Good, Consistent, KState
<1>2. Detached(k, t, k1)
  BY <1>1, DetachOK
<1> HIDE DEF k1
<1>3. Consistent(k1) /\ k1 \in KState
  BY <1>2 DEF Detached, Consistent
<1>4. Discounted(k1, t, r)
  BY <1>3, DiscountOK
<1> HIDE DEF r
<1>5. /\ Consistent(r) /\ r.ids = k.ids /\ r.id = k.id /\ r \in KState
      /\ r.active_thread = k.active_thread /\ r.prio = k.prio
  BY <1>2, <1>4 DEF Discounted, Detached, SameResources, SameLists, Consistent
<1>6. IdsOK(r) /\ OtherIds(r) = OtherIds(k)
  BY <1>1, <1>2, <1>4 DEF Discounted, Detached, SameResources, IdsOK, OtherIds
<1>7. \A v \in Desc :
        /\ r.ref_cnt[v] = IF v = t THEN k.ref_cnt[t] - 1 ELSE k.ref_cnt[v]
        /\ r.state[v] = IF v = t /\ k.state[v] = ACTIVE THEN PASSIVE ELSE k.state[v]
        /\ Len(r.q[join_queue(v)]) <= Len(k.q[join_queue(v)])
  BY <1>2, <1>4, QueueNames DEF Discounted, Detached, SameResources, SameLists
<1>8. r.all_threads = k.all_threads /\ ~Queued(r, t) /\ r.state[t] # ACTIVE
  BY <1>2, <1>4 DEF Discounted, Detached, SameResources, SameLists, Queued
<1>9. ASSUME NEW v \in Desc
      PROVE  /\ r.q[join_queue(v)] \in Seq(Desc) /\ Len(r.q[join_queue(v)]) \in Nat
             /\ Len(k.q[join_queue(v)]) \in Nat /\ k.ref_cnt[v] \in Int
             /\ k.q[join_queue(v)] = <<>> => r.q[join_queue(v)] = <<>>
  <2>1. /\ r.q[join_queue(v)] \in Seq(Desc) /\ Len(r.q[join_queue(v)]) \in Nat
        /\ Len(k.q[join_queue(v)]) \in Nat /\ k.ref_cnt[v] \in Int
    BY <1>1, <1>5, JoinQueueType
  <2>2. ASSUME k.q[join_queue(v)] = <<>> PROVE r.q[join_queue(v)] = <<>>
    <3>1. Len(r.q[join_queue(v)]) = 0
      BY <1>7, <2>1, <2>2
    <3> QED BY <2>1, <3>1
  <2> QED BY <2>1, <2>2
<1>10. RefsBut(r, t)
  <2> SUFFICES ASSUME NEW v \in Desc \ {t}
               PROVE  IF v \in r.all_threads /\ r.state[v] # PASSIVE
                      THEN r.ref_cnt[v] >= 1 + Len(r.q[join_queue(v)])
                      ELSE /\ r.q[join_queue(v)] = <<>>
                           /\ v \in r.all_threads <=> r.ref_cnt[v] >= 1
    BY DEF RefsBut
  <2>1. IF v \in k.all_threads /\ k.state[v] # PASSIVE
        THEN k.ref_cnt[v] >= 1 + Len(k.q[join_queue(v)])
        ELSE /\ k.q[join_queue(v)] = <<>>
             /\ v \in k.all_threads <=> k.ref_cnt[v] >= 1
    BY <1>1 DEF RefsOK
  <2> QED BY <1>7, <1>8, <1>9, <2>1
<1>11. IF t \in r.all_threads THEN r.ref_cnt[t] >= Len(r.q[join_queue(t)])
                              ELSE r.ref_cnt[t] < 0 /\ r.q[join_queue(t)] = <<>>
  <2>1. IF t \in k.all_threads
        THEN k.ref_cnt[t] >= 1 + Len(k.q[join_queue(t)])
        ELSE k.q[join_queue(t)] = <<>> /\ ~(k.ref_cnt[t] >= 1)
    BY <1>1 DEF RefsOK
  <2> QED BY <1>7, <1>8, <1>9, <2>1
<1>12. Ending(r, t)
  BY <1>8, <1>10, <1>11 DEF Ending
<1>13. Sound(k) => Sound(r)
  <2>1. Sound(k) => Sound(k1)
    BY <1>2 DEF Detached, SameResources, Sound, ProcsOK
  <2> QED BY <1>4, <2>1 DEF Discounted
<1>14. \A Q \in Queue : r.q[Q] = list_find_and_remove(k.q[Q], t)
  BY <1>2, <1>4 DEF Discounted, Detached, SameLists
<1>15. LeftProcess(k, t, r)
  BY <1>2, <1>4 DEF Discounted, Detached, SameResources, LeftProcess
<1>16. Withdrawn(k, t, r)
  BY <1>5, <1>6, <1>7, <1>8, <1>12, <1>13, <1>14, <1>15 DEF Withdrawn
<1> QED BY <1>16 DEF r, k1

(***************************************************************************)
(* kthread_cancel, of any thread but the idle one, at any time.            *)
(***************************************************************************)
Cancelled(k, t, r) ==
  /\ Good(r) /\ (Sound(k) => Sound(r)) /\ (Runs(k) => Runs(r)) /\ (Top(k) => Top(r))
  /\ Frame(k, r, t)
  /\ r.ids.last_id = k.ids.last_id
  /\ r.all_threads \subseteq k.all_threads
  /\ \A v \in Desc \ {t} : (Awake(k, v) => Awake(r, v)) /\ ~RefDropped(k, r, v)
  /\ \A v \in Desc : Waiting(r, v) => Waiting(k, v)
  /\ k.state[t] \in {READY, WAIT} => RefDropped(k, r, t)
  /\ r.ref_cnt[t] <= k.ref_cnt[t]

LEMMA CancelOK ==
  ASSUME NEW k, Good(k), NEW t \in Desc \ {Idle}, NEW s \in Int
  PROVE  Cancelled(k, t, kthread_cancel(k, t, s))
<1> DEFINE k2 == Discount(Detach(k, t), t, s)
           k3 == FreeOrRelease(k2, t)
           r  == kthreads_schedule(k3)
<1>0. /\ Consistent(k) /\ RefsOK(k) /\ IdsOK(k) /\ k \in KState /\ QueuesOK(k) /\ ActiveOK(k)
      /\ k.q \in [Queue -> Seq(Desc)] /\ k.ref_cnt \in [Desc -> Int]
  BY DEF Good, Consistent, KState
<1>1. CASE k.state[t] = PASSIVE \/ (k.state[t] = ACTIVE /\ t # k.active_thread)
  <2>1. kthread_cancel(k, t, s) = k
    BY <1>1 DEF kthread_cancel
  <2>2. k.state[t] \notin {READY, WAIT}
    BY <1>1 DEF PASSIVE, ACTIVE, READY, WAIT
  <2>3. \A Q \in Queue : t \notin ToSet(k.q[Q])
    BY <1>0, <2>2 DEF QueuesOK, Belongs
  <2>4. \A w \in WaitQueue : k.q[wait_q(w)] = list_find_and_remove(k.q[wait_q(w)], t)
    BY <2>3, QueueNames DEF list_find_and_remove
  <2>5. ~Waiting(k, t)
    BY <2>3 DEF Waiting, Queue
  <2>6. \A v \in Desc : ~RefDropped(k, k, v)
    BY <1>0 DEF RefDropped
  <2>7. Frame(k, k, t)
    BY <2>4, <2>5, <2>6 DEF Frame
  <2> QED BY <1>0, <2>1, <2>2, <2>6, <2>7 DEF Cancelled
<1>2. CASE ~(k.state[t] = PASSIVE \/ (k.state[t] = ACTIVE /\ t # k.active_thread))
  <2>1. kthread_cancel(k, t, s) = r
    BY <1>2 DEF kthread_cancel
  <2>2. Withdrawn(k, t, k2)
    BY <1>2, StopOK
  <2> HIDE DEF k2
  <2>3. Freed(k2, t, k3)
    BY <2>2, FreeOrReleaseOK DEF Withdrawn
  <2> HIDE DEF k3
  <2>4. Rescheduled(k3, r)
    BY <2>3, ScheduleSettles DEF Freed
  <2> HIDE DEF r
  <2>5. Good(r) /\ Top(r) /\ Runs(r)
    BY <2>4, TopRuns DEF Rescheduled, Settled
  <2>6. Sound(k) => Sound(r)
    BY <2>2, <2>3, <2>4 DEF Withdrawn, Freed, Rescheduled
  \* What happened to the queues and to who is live, up to the release of the waiters.
  <2>7. /\ \A v \in Desc : Waiting(k2, v) => Waiting(k, v)
        /\ \A v \in Desc : Awake(k2, v) => Awake(k, v)
        /\ \A v \in Desc \ {t} : Awake(k, v) => Awake(k2, v)
        /\ ~Waiting(k2, t)
    <3>1. ASSUME NEW v \in Desc, NEW Q \in BlockedQueue, v \in ToSet(k2.q[Q])
          PROVE  v \in ToSet(k.q[Q])
      <4>1. Q \in Queue /\ NoDup(k.q[Q]) /\ k.q[Q] \in Seq(Desc)
        BY <1>0 DEF Queue, QueuesOK
      <4>2. k2.q[Q] = list_find_and_remove(k.q[Q], t)
        BY <2>2, <4>1 DEF Withdrawn
      <4> QED BY <3>1, <4>1, <4>2, RemoveList
    <3>2. ~Waiting(k2, t)
      BY <2>2 DEF Withdrawn, Ending, Queued, Waiting, Queue
    <3>3. \A v \in Desc : k2.state[v] = IF v = t /\ k.state[v] = ACTIVE THEN PASSIVE ELSE k.state[v]
      BY <2>2 DEF Withdrawn
    <3> QED BY <3>1, <3>2, <3>3 DEF Waiting, Awake, ACTIVE, PASSIVE, READY
  <2>8. /\ \A v \in Desc : Live(r, v) => Live(k, v)
        /\ \A v \in Desc \ {t} : Awake(k, v) => Awake(r, v)
        /\ \A v \in Desc : Waiting(r, v) => Waiting(k, v)
        /\ ~Waiting(r, t)
    <3>1. \A v \in Desc : Live(r, v) => Live(k2, v)
      BY <2>3, <2>4 DEF Freed, Rescheduled, Live
    <3>2. \A v \in Desc \ {t} : Awake(k, v) => Awake(r, v)
      BY <2>3, <2>4, <2>7 DEF Freed, Rescheduled
    <3>3. ~Waiting(r, t) /\ \A v \in Desc : Waiting(r, v) => Waiting(k, v)
      BY <2>3, <2>4, <2>7 DEF Freed, Rescheduled
    <3> QED BY <2>7, <3>1, <3>2, <3>3 DEF Live
  <2>9. Waiting(k, t) => ~Live(r, t)
    <3>1. Waiting(k, t) => k.state[t] = WAIT
      BY <1>0, QueueNames DEF Waiting, QueuesOK, Belongs, Queue
    <3>2. k.state[t] = WAIT => k2.state[t] = WAIT
      BY <2>2 DEF Withdrawn, WAIT, ACTIVE
    <3>3. k2.state[t] = WAIT => ~Live(k2, t)
      BY <2>7 DEF Live, Awake, WAIT, ACTIVE, READY
    <3>4. Live(r, t) => Live(k2, t)
      BY <2>3, <2>4 DEF Freed, Rescheduled, Live
    <3> QED BY <3>1, <3>2, <3>3, <3>4
  <2>10. \A v \in Desc : r.ref_cnt[v] = IF v = t THEN k.ref_cnt[t] - 1 ELSE k.ref_cnt[v]
    BY <2>2, <2>3, <2>4 DEF Withdrawn, Freed, Rescheduled, SameResources
  <2>11. r.ref_cnt[t] <= k.ref_cnt[t] /\ \A v \in Desc : RefDropped(k, r, v) <=> v = t
    BY <1>0, <2>10 DEF RefDropped
  <2>12. \A w \in WaitQueue : r.q[wait_q(w)] = list_find_and_remove(k.q[wait_q(w)], t)
    BY <2>2, <2>3, <2>4, QueueNames DEF Withdrawn, Freed, Rescheduled, BlockedSame
  <2>13. /\ r.ids.last_id = k.ids.last_id /\ OtherIds(r) = OtherIds(k)
         /\ r.all_threads \subseteq k.all_threads /\ k.all_threads \subseteq r.all_threads \cup {t}
    BY <2>2, <2>3, <2>4 DEF Withdrawn, Freed, Rescheduled, SameResources, OtherIds
  <2>14. Frame(k, r, t)
    <3>1. k.all_threads \subseteq Desc
      BY <1>0 DEF KState
    <3>2. ASSUME NEW v \in Desc, Awake(k, v)
          PROVE  Awake(r, v) \/ v = k.active_thread \/ RefDropped(k, r, v)
      BY <2>8, <2>11, <3>2
    <3>3. \A v \in k.all_threads \ r.all_threads : RefDropped(k, r, v)
      BY <2>11, <2>13, <3>1
    <3> QED BY <2>8, <2>9, <2>11, <2>12, <2>13, <3>2, <3>3 DEF Frame
  <2>15. Cancelled(k, t, r)
    BY <2>5, <2>6, <2>8, <2>11, <2>13, <2>14 DEF Cancelled
  <2> QED BY <2>1, <2>15
<1> QED BY <1>1, <1>2

-----------------------------------------------------------------------------
(***************************************************************************)
(* The creation of a thread.                                               *)
(***************************************************************************)
\* As long as last_id has not wrapped, the next id is the one after it.
LEMMA NextId ==
  ASSUME NEW u \in UniqueIdState, u.idmask \subseteq 1 .. u.last_id,
         u.last_id + 1 < MASK_BITS
  PROVE  /\ k_new_unique_id(u) \in UniqueIdState
         /\ k_new_unique_id(u).last_id = u.last_id + 1
         /\ k_new_unique_id(u).idmask = u.idmask \cup {u.last_id + 1}
         /\ k_new_unique_id(u).halted = u.halted
<1> DEFINE n == CHOOSE n \in FreeDistances(u) : \A m \in FreeDistances(u) : n <= m
           id == u.last_id + 1
<1>1. /\ u.last_id \in Nat /\ MASK_BITS \in Nat /\ MASK_BITS <= MAX_RESOURCES
      /\ MAX_RESOURCES \in Nat /\ MAX_RESOURCES > 1
  BY MaskBitsFact, MaxResourcesAssumption DEF UniqueIdState, Id
<1>2. (u.last_id + 1) % MAX_RESOURCES = u.last_id + 1
  BY <1>1
<1>3. Advance(u, 1) = [u EXCEPT !.last_id = id]
  BY <1>2 DEF Advance
<1>4. 1 \in FreeDistances(u)
  <2> DEFINE v == Advance(u, 1)
  <2>1. v.last_id = id /\ v.idmask = u.idmask
    BY <1>3 DEF UniqueIdState
  <2>2. id \notin u.idmask /\ id < MASK_BITS /\ id # u.last_id
    BY <1>1
  <2>3. ~IdBit(v, v.last_id)
    BY <2>1, <2>2 DEF IdBit
  <2>4. v.last_id # u.last_id
    BY <2>1, <2>2
  <2> HIDE DEF v
  <2>5. 1 \in 1 .. MAX_RESOURCES
    BY <1>1
  <2> QED BY <2>3, <2>4, <2>5 DEF FreeDistances, LastBit, v
<1>5. \A m \in FreeDistances(u) : m \in Int /\ 1 <= m
  BY <1>1 DEF FreeDistances
<1>6. n = 1
  <2>1. n \in FreeDistances(u) /\ n <= 1
    BY <1>4, <1>5
  <2> HIDE DEF n
  <2> QED BY <1>5, <2>1
<1>7. k_new_unique_id(u) = SetIdBit(Advance(u, 1), id)
  <2>1. k_new_unique_id(u) = SetIdBit(Advance(u, n), Advance(u, n).last_id)
    BY <1>4 DEF k_new_unique_id, Least, SetLastBit
  <2>2. Advance(u, 1).last_id = id
    BY <1>3 DEF UniqueIdState
  <2> HIDE DEF n
  <2> QED BY <1>6, <2>1, <2>2
<1>8. k_new_unique_id(u) = [u EXCEPT !.last_id = id, !.idmask = @ \cup {id}]
  BY <1>3, <1>7 DEF SetIdBit, UniqueIdState
<1>9. id \in Id /\ id \in 0 .. MASK_BITS - 1
  BY <1>1 DEF Id
<1> QED BY <1>8, <1>9 DEF UniqueIdState

LEMMA ClampPrioType ==
  ASSUME NEW prio \in Int
  PROVE  ClampPrio(prio) \in Prio
BY KThreadAssumption DEF ClampPrio, Prio

\* The descriptor at t is initialised; it is in no queue yet.
NewDescriptor(k, t, prio, proc) ==
  LET ids == k_new_unique_id(k.ids)
  IN  [k EXCEPT
        !.ids         = ids,
        !.id          = [k.id EXCEPT ![t] = ids.last_id],
        !.state       = [k.state EXCEPT ![t] = PASSIVE],
        !.prio        = [k.prio EXCEPT ![t] = ClampPrio(prio)],
        !.queue       = [k.queue EXCEPT ![t] = NULL],
        !.exit_status = [k.exit_status EXCEPT ![t] = 0],
        !.q           = [k.q EXCEPT ![join_queue(t)] = <<>>],
        !.ref_cnt     = [k.ref_cnt EXCEPT ![t] = 1],
        !.proc        = [k.proc EXCEPT ![t] = proc],
        !.thr_count   = [k.thr_count EXCEPT ![proc] = @ + 1],
        !.all_threads = k.all_threads \cup {t}]

Initialised(k, t, proc, r) ==
  /\ r \in KState /\ r.assert = k.assert /\ r.procs = k.procs
  /\ r.active_thread = k.active_thread /\ r.q = k.q /\ r.rdy_mask = k.rdy_mask
  /\ r.all_threads = k.all_threads \cup {t}
  /\ r.ids.last_id = k.ids.last_id + 1 /\ r.ids.halted = k.ids.halted
  /\ r.ids.idmask = k.ids.idmask \cup {k.ids.last_id + 1}
  /\ r.id[t] = k.ids.last_id + 1 /\ r.state[t] = PASSIVE /\ r.ref_cnt[t] = 1
  /\ \A v \in Desc \ {t} :
       /\ r.id[v] = k.id[v] /\ r.state[v] = k.state[v] /\ r.prio[v] = k.prio[v]
       /\ r.queue[v] = k.queue[v] /\ r.ref_cnt[v] = k.ref_cnt[v]
  /\ r.thr_count = [k.thr_count EXCEPT ![proc] = @ + 1]
  /\ r.proc = [k.proc EXCEPT ![t] = proc]

LEMMA NewDescriptorFields ==
  ASSUME NEW k \in KState, IdsOK(k), k.ids.last_id + 1 < MASK_BITS,
         NEW t \in Desc, k.q[join_queue(t)] = <<>>, NEW prio \in Int, NEW proc \in Proc
  PROVE  Initialised(k, t, proc, NewDescriptor(k, t, prio, proc))
<1> DEFINE u  == k_new_unique_id(k.ids)
           n  == u.last_id
           p  == ClampPrio(prio)
           f1 == [k.id EXCEPT ![t] = n]
           f2 == [k.state EXCEPT ![t] = PASSIVE]
           f3 == [k.prio EXCEPT ![t] = p]
           f4 == [k.queue EXCEPT ![t] = NULL]
           f5 == [k.exit_status EXCEPT ![t] = 0]
           f6 == [k.q EXCEPT ![join_queue(t)] = <<>>]
           f7 == [k.ref_cnt EXCEPT ![t] = 1]
           f8 == [k.proc EXCEPT ![t] = proc]
           f9 == [k.thr_count EXCEPT ![proc] = @ + 1]
           a  == k.all_threads \cup {t}
           r  == NewDescriptor(k, t, prio, proc)
<1>1. /\ u \in UniqueIdState /\ u.last_id = k.ids.last_id + 1
      /\ u.idmask = k.ids.idmask \cup {k.ids.last_id + 1} /\ u.halted = k.ids.halted
  <2>1. k.ids \in UniqueIdState
    BY DEF KState
  <2>2. k.ids.idmask \subseteq 1 .. k.ids.last_id
    BY DEF IdsOK
  <2> QED BY <2>1, <2>2, NextId
<1>2. p \in Prio
  BY ClampPrioType
<1>3. r = [k EXCEPT !.ids = u, !.id = f1, !.state = f2, !.prio = f3, !.queue = f4,
                    !.exit_status = f5, !.q = f6, !.ref_cnt = f7, !.proc = f8,
                    !.thr_count = f9, !.all_threads = a]
  BY DEF NewDescriptor, KState
<1> HIDE DEF u, p, r
<1>4. n \in Id
  BY <1>1 DEF UniqueIdState
<1> HIDE DEF n
<1>5. /\ f1 \in [Desc -> Id] /\ f1[t] = n /\ \A v \in Desc \ {t} : f1[v] = k.id[v]
  BY <1>4 DEF KState
<1>6. /\ f2 \in [Desc -> ThreadState] /\ f2[t] = PASSIVE
      /\ \A v \in Desc \ {t} : f2[v] = k.state[v]
  BY DEF KState, ThreadState
<1>7. /\ f3 \in [Desc -> Prio] /\ \A v \in Desc \ {t} : f3[v] = k.prio[v]
  BY <1>2 DEF KState
<1>8. /\ f4 \in [Desc -> Queue \cup {NULL}] /\ \A v \in Desc \ {t} : f4[v] = k.queue[v]
  BY DEF KState
<1>9. f5 \in [Desc -> Int]
  BY DEF KState
<1>10. f6 = k.q
  BY DEF KState
<1>11. /\ f7 \in [Desc -> Int] /\ f7[t] = 1 /\ \A v \in Desc \ {t} : f7[v] = k.ref_cnt[v]
  BY DEF KState
<1>12. f8 \in [Desc -> Proc]
  BY DEF KState
<1>13. f9 \in [Proc -> Int]
  BY DEF KState
<1>14. a \subseteq Desc
  BY DEF KState
<1> HIDE DEF f1, f2, f3, f4, f5, f6, f7, f8, f9, a
<1>15. /\ r \in KState /\ r.assert = k.assert /\ r.procs = k.procs
       /\ r.active_thread = k.active_thread /\ r.q = k.q /\ r.rdy_mask = k.rdy_mask
  BY <1>1, <1>3, <1>5, <1>6, <1>7, <1>8, <1>9, <1>10, <1>11, <1>12, <1>13, <1>14 DEF KState
<1>16. /\ r.ids = u /\ r.id = f1 /\ r.state = f2 /\ r.prio = f3 /\ r.queue = f4
       /\ r.ref_cnt = f7 /\ r.thr_count = f9 /\ r.all_threads = a /\ r.proc = f8
  BY <1>3 DEF KState
<1>17. /\ r.ids.last_id = k.ids.last_id + 1 /\ r.ids.halted = k.ids.halted
       /\ r.ids.idmask = k.ids.idmask \cup {k.ids.last_id + 1}
       /\ r.id[t] = k.ids.last_id + 1
  BY <1>1, <1>5, <1>16 DEF n
<1>18. /\ r.all_threads = k.all_threads \cup {t}
       /\ r.thr_count = [k.thr_count EXCEPT ![proc] = @ + 1]
       /\ r.proc = [k.proc EXCEPT ![t] = proc]
  BY <1>16 DEF a, f8, f9
<1>19. /\ r.state[t] = PASSIVE /\ r.ref_cnt[t] = 1
       /\ \A v \in Desc \ {t} :
            /\ r.id[v] = k.id[v] /\ r.state[v] = k.state[v] /\ r.prio[v] = k.prio[v]
            /\ r.queue[v] = k.queue[v] /\ r.ref_cnt[v] = k.ref_cnt[v]
  BY <1>5, <1>6, <1>7, <1>8, <1>11, <1>16
<1> QED BY <1>15, <1>17, <1>18, <1>19 DEF Initialised, r

\* A thread is created at t, which was free, and is ready.
Added(k, t, r) ==
  /\ Good(r)
  /\ r.all_threads = k.all_threads \cup {t}
  /\ r.ids.last_id = k.ids.last_id + 1 /\ r.id[t] = k.ids.last_id + 1
  /\ OtherIds(r) = OtherIds(k)
  /\ \A Q \in BlockedQueue : r.q[Q] = k.q[Q]
  /\ r.state[t] = READY /\ r.ref_cnt[t] = 1
  /\ \A v \in Desc \ {t} :
       r.state[v] = k.state[v] /\ r.ref_cnt[v] = k.ref_cnt[v] /\ r.id[v] = k.id[v]

Created(k, t, proc, r) ==
  /\ Added(k, t, r)
  /\ r.assert = k.assert /\ r.procs = k.procs /\ r.active_thread = k.active_thread
  /\ r.thr_count = [k.thr_count EXCEPT ![proc] = @ + 1]
  /\ r.proc = [k.proc EXCEPT ![t] = proc]

LEMMA CreateOK ==
  ASSUME NEW k \in KState, QueuesOK(k), MaskOK(k), ActiveOK(k), RefsOK(k), IdsOK(k),
         k.ids.last_id + 1 < MASK_BITS,
         NEW t \in Desc \ k.all_threads, IdleOK(k) \/ t = Idle,
         NEW prio \in Int, NEW proc \in Proc
  PROVE  Created(k, t, proc, kthread_create(k, t, prio, proc))
<1> DEFINE k1 == NewDescriptor(k, t, prio, proc)
           r  == kthread_move_to_ready(k1, t)
           Q  == ready_q(k1.prio[t])
<1>1. kthread_create(k, t, prio, proc) = r
  BY DEF kthread_create, NewDescriptor
<1>2. k.q[join_queue(t)] = <<>>
  BY DEF RefsOK
<1>3. Initialised(k, t, proc, k1)
  BY <1>2, NewDescriptorFields
<1> HIDE DEF k1
<1>4. k1 \in KState /\ t \in k1.all_threads /\ k1.q = k.q
  BY <1>3 DEF Initialised
<1>5. ASSUME NEW R \in Queue, NEW v \in ToSet(k1.q[R])
      PROVE  v \in Desc \ {t} /\ Belongs(k1, v, R)
  <2>1. v \in ToSet(k.q[R]) /\ k.q[R] \in Seq(Desc)
    BY <1>4 DEF KState
  <2>2. Belongs(k, v, R) /\ v \in Desc
    BY <2>1, ToSetType DEF QueuesOK
  <2>3. v # t
    BY <2>2 DEF Belongs
  <2> QED BY <1>3, <2>2, <2>3 DEF Initialised, Belongs
<1>6. QueuesOK(k1) /\ ~Queued(k1, t)
  BY <1>4, <1>5 DEF QueuesOK, Queued
<1>7. MaskOK(k1)
  BY <1>3 DEF Initialised, MaskOK
<1>8. QueuesOK(r) /\ MaskOK(r)
  BY <1>4, <1>6, <1>7, MoveToReadyOK
<1>9. MovedToReady(k1, t, r) /\ PutLast(k1, t, Q, READY, r)
  BY <1>4, MoveToReadyFields, MoveToReadyLast
<1>10. Q \in Queue /\ Q \in ReadyQueue
  BY <1>4, QueueNames DEF KState
<1> HIDE DEF r, Q
<1>11. /\ r \in KState /\ r.assert = k.assert /\ r.procs = k.procs
       /\ r.thr_count = [k.thr_count EXCEPT ![proc] = @ + 1]
       /\ r.proc = [k.proc EXCEPT ![t] = proc]
       /\ r.all_threads = k.all_threads \cup {t}
       /\ r.ids = k1.ids /\ r.id = k1.id /\ r.ref_cnt = k1.ref_cnt
       /\ r.active_thread = k.active_thread
  BY <1>3, <1>9 DEF Initialised, MovedToReady, SameResources
<1>12. r.state[t] = READY /\ \A v \in Desc \ {t} : r.state[v] = k.state[v]
  BY <1>3, <1>9 DEF Initialised, PutLast
<1>13. ActiveOK(r)
  <2>1. READY # ACTIVE
    BY DEF READY, ACTIVE
  <2> QED BY <1>11, <1>12, <2>1 DEF ActiveOK
<1>14. IdleOK(r)
  <2>1. CASE t = Idle
    <3>1. Idle \in ToSet(r.q[Q])
      BY <1>9, <1>10, <2>1 DEF PutLast
    <3> QED BY <1>10, <1>11, <2>1, <3>1 DEF IdleOK
  <2>2. CASE t # Idle
    <3>1. IdleOK(k) /\ Idle \in Desc \ {t}
      BY <2>2, KThreadAssumption
    <3>2. \A R \in ReadyQueue : Idle \in ToSet(k.q[R]) => Idle \in ToSet(r.q[R])
      BY <1>4, <1>9 DEF PutLast, Queue
    <3> QED BY <1>11, <1>12, <3>1, <3>2 DEF IdleOK
  <2> QED BY <2>1, <2>2
<1>15. RefsOK(r)
  <2>1. ASSUME NEW v \in Desc PROVE r.q[join_queue(v)] = k.q[join_queue(v)]
    <3>1. join_queue(v) \in Queue /\ join_queue(v) # Q
      BY <1>10, QueueNames
    <3> QED BY <1>4, <1>9, <3>1 DEF PutLast
  <2>2. r.ref_cnt[t] = 1 /\ \A v \in Desc \ {t} : r.ref_cnt[v] = k.ref_cnt[v]
    BY <1>3, <1>11 DEF Initialised
  <2>3. READY # PASSIVE /\ Len(r.q[join_queue(t)]) = 0
    BY <1>2, <2>1 DEF READY, PASSIVE
  <2> QED BY <1>11, <1>12, <2>1, <2>2, <2>3 DEF RefsOK
<1>16. IdsOK(r) /\ OtherIds(r) = OtherIds(k)
  <2> DEFINE n == k.ids.last_id + 1
  <2>1. /\ r.ids.last_id = n /\ r.ids.halted = "no" /\ r.ids.idmask = k.ids.idmask \cup {n}
        /\ r.id[t] = n /\ \A v \in Desc \ {t} : r.id[v] = k.id[v]
    BY <1>3, <1>11 DEF Initialised, IdsOK
  <2>2. k.ids.last_id \in Nat /\ k.all_threads \subseteq Desc /\ t \notin k.all_threads
    BY DEF KState, UniqueIdState, Id
  <2>3. n \notin k.ids.idmask /\ r.ids.idmask \subseteq 1 .. n
    BY <2>1, <2>2 DEF IdsOK
  <2> HIDE DEF n
  <2>4. \A v \in k.all_threads : r.id[v] = k.id[v] /\ k.id[v] \in k.ids.idmask /\ k.id[v] # n
    BY <2>1, <2>2, <2>3 DEF IdsOK
  <2>5. ASSUME NEW v \in r.all_threads, NEW w \in r.all_threads, r.id[v] = r.id[w]
        PROVE  v = w
    <3>1. CASE v = t \/ w = t
      BY <1>11, <2>1, <2>4, <2>5, <3>1
    <3>2. CASE v # t /\ w # t
      BY <1>11, <2>4, <2>5, <3>2 DEF IdsOK
    <3> QED BY <3>1, <3>2
  <2>6. IdsOK(r)
    BY <1>11, <2>1, <2>3, <2>4, <2>5 DEF IdsOK
  <2>7. {r.id[v] : v \in r.all_threads} = {k.id[v] : v \in k.all_threads} \cup {n}
    <3>1. {r.id[v] : v \in k.all_threads} = {k.id[v] : v \in k.all_threads}
      BY <2>4
    <3>2. {r.id[v] : v \in k.all_threads \cup {t}} = {r.id[v] : v \in k.all_threads} \cup {r.id[t]}
      OBVIOUS
    <3> QED BY <1>11, <2>1, <3>1, <3>2
  <2> QED BY <2>1, <2>3, <2>6, <2>7 DEF OtherIds
<1>17. r.ids.last_id = k.ids.last_id + 1 /\ r.id[t] = k.ids.last_id + 1
  BY <1>3, <1>11 DEF Initialised
<1>18. \A R \in BlockedQueue : r.q[R] = k.q[R]
  BY <1>4, <1>9, <1>10, QueueNames DEF PutLast, Queue
<1>19. /\ r.ref_cnt[t] = 1
       /\ \A v \in Desc \ {t} : r.ref_cnt[v] = k.ref_cnt[v] /\ r.id[v] = k.id[v]
  BY <1>3, <1>11 DEF Initialised
<1>20. Created(k, t, proc, r)
  BY <1>8, <1>11, <1>12, <1>13, <1>14, <1>15, <1>16, <1>17, <1>18, <1>19
     DEF Created, Added, Good, Consistent
<1> QED BY <1>1, <1>20

\* ... and then kthreads_schedule chooses who runs.
Started(k, t, r) ==
  /\ Settled(r) /\ Frame(k, r, NULL)
  /\ r.ids.last_id = k.ids.last_id + 1 /\ r.id[t] = k.ids.last_id + 1
  /\ r.all_threads = k.all_threads \cup {t} /\ Awake(r, t) /\ r.ref_cnt[t] = 1
  /\ \A Q \in BlockedQueue : r.q[Q] = k.q[Q]
  /\ \A v \in Desc : (Awake(k, v) => Awake(r, v)) /\ ~RefDropped(k, r, v)
  /\ \A v \in Desc \ {t} : /\ r.id[v] = k.id[v] /\ r.ref_cnt[v] = k.ref_cnt[v]
                           /\ r.state[v] # PASSIVE <=> k.state[v] # PASSIVE

LEMMA AddedStarted ==
  ASSUME NEW k, Good(k), NEW t \in Desc \ k.all_threads, NEW k1, Added(k, t, k1),
         NEW r, Rescheduled(k1, r)
  PROVE  Started(k, t, r)
<1>1. k \in KState /\ RefsOK(k) /\ k.all_threads \subseteq Desc /\ k.ref_cnt \in [Desc -> Int]
  BY DEF Good, Consistent, KState
<1>2. /\ Settled(r) /\ OtherIds(r) = OtherIds(k)
      /\ r.ids.last_id = k.ids.last_id + 1 /\ r.id[t] = k.ids.last_id + 1
      /\ r.all_threads = k.all_threads \cup {t} /\ r.ref_cnt = k1.ref_cnt
  BY DEF Added, Rescheduled, SameResources, OtherIds
<1>3. \A v \in Desc : /\ Awake(k, v) => Awake(r, v)
                      /\ v # t /\ Awake(r, v) => Awake(k, v)
                      /\ Waiting(r, v) <=> Waiting(k, v)
  BY DEF Added, Rescheduled, Awake, Waiting
<1>4. Awake(r, t)
  BY DEF Added, Rescheduled, Awake
<1>5. \A v \in Desc : ~RefDropped(k, r, v)
  <2>1. ~(k.ref_cnt[t] >= 1)
    BY <1>1 DEF RefsOK
  <2> QED BY <1>1, <1>2, <2>1 DEF Added, RefDropped
<1>6. \A w \in WaitQueue : r.q[wait_q(w)] = k.q[wait_q(w)]
  BY QueueNames DEF Added, Rescheduled, BlockedSame
<1>7. \A w \in WaitQueue : r.q[wait_q(w)] = list_find_and_remove(k.q[wait_q(w)], NULL)
  BY <1>1, <1>6, NobodyLeaves
<1>8. Frame(k, r, NULL)
  BY <1>2, <1>3, <1>5, <1>7, KThreadAssumption DEF Frame, Live
<1>9. /\ r.ref_cnt[t] = 1
      /\ \A Q \in BlockedQueue : r.q[Q] = k.q[Q]
      /\ \A v \in Desc \ {t} : /\ r.id[v] = k.id[v] /\ r.ref_cnt[v] = k.ref_cnt[v]
                               /\ r.state[v] # PASSIVE <=> k.state[v] # PASSIVE
  BY DEF Added, Rescheduled, SameResources, BlockedSame, PASSIVE, READY, ACTIVE
<1> QED BY <1>2, <1>3, <1>4, <1>5, <1>8, <1>9 DEF Started

\* A new thread, in a process that exists unless a signal handler's is gone.
LEMMA CreateThreadOK ==
  ASSUME NEW k, Good(k), k.ids.last_id + 1 < MASK_BITS,
         NEW t \in Desc \ k.all_threads, NEW prio \in Int, NEW proc \in Proc
  PROVE  LET r == kthreads_schedule(kthread_create(k, t, prio, proc))
         IN  /\ Started(k, t, r) /\ (Sound(k) /\ proc \in k.procs => Sound(r))
             /\ r.proc = [k.proc EXCEPT ![t] = proc] /\ r.procs = k.procs
             /\ r.thr_count = [k.thr_count EXCEPT ![proc] = @ + 1]
<1> DEFINE k1 == kthread_create(k, t, prio, proc)
           r  == kthreads_schedule(k1)
<1>1. k \in KState /\ proc \in Proc /\ k.thr_count \in [Proc -> Int]
  BY DEF Good, Consistent, KState
<1>2. Created(k, t, proc, k1)
  BY <1>1, CreateOK DEF Good, Consistent
<1> HIDE DEF k1
<1>3. Rescheduled(k1, r)
  BY <1>2, ScheduleSettles DEF Created, Added
<1> HIDE DEF r
<1>4. Started(k, t, r)
  BY <1>2, <1>3, AddedStarted DEF Created
<1>5. Sound(k) /\ proc \in k.procs => Sound(k1)
  <2>1. proc \in k.procs => \A p \in Proc \ k.procs : k1.thr_count[p] = k.thr_count[p]
    BY <1>1, <1>2 DEF Created
  <2> QED BY <1>2, <2>1 DEF Created, Sound, ProcsOK
<1>6. Sound(k1) => Sound(r)
  BY <1>3 DEF Rescheduled
<1>7. /\ r.proc = [k.proc EXCEPT ![t] = proc] /\ r.procs = k.procs
      /\ r.thr_count = [k.thr_count EXCEPT ![proc] = @ + 1]
  BY <1>2, <1>3 DEF Created, Rescheduled, SameResources
<1> QED BY <1>4, <1>5, <1>6, <1>7 DEF r, k1

\* The process that a new thread is the first of.
NewProcess(k, t, pr, r) ==
  /\ r.proc = [k.proc EXCEPT ![t] = pr] /\ r.procs = k.procs \cup {pr}
  /\ r.thr_count = [k.thr_count EXCEPT ![pr] = 1]

LEMMA StartProcessOK ==
  ASSUME NEW k, Good(k), k.ids.last_id + 1 < MASK_BITS,
         NEW t \in Desc \ k.all_threads, NEW prio \in Int, NEW pr \in Proc \ k.procs
  PROVE  LET r == kthread_start_process(k, t, pr, prio)
         IN  Started(k, t, r) /\ (Sound(k) => Sound(r)) /\ NewProcess(k, t, pr, r)
<1> DEFINE k0 == [k EXCEPT !.thr_count[pr] = 0]
           k1 == kthread_create(k0, t, prio, pr)
           k2 == [k1 EXCEPT !.procs = @ \cup {pr}]
           r  == kthreads_schedule(k2)
<1>1. kthread_start_process(k, t, pr, prio) = r
  BY DEF kthread_start_process
<1>2. /\ Consistent(k) /\ k \in KState /\ RefsOK(k) /\ IdsOK(k)
  BY DEF Good, Consistent
<1>3. /\ k0 \in KState /\ SameLists(k, k0) /\ k0.all_threads = k.all_threads
      /\ k0.id = k.id /\ k0.ids = k.ids /\ k0.assert = k.assert /\ k0.procs = k.procs
      /\ k0.proc = k.proc
      /\ k0.ref_cnt = k.ref_cnt /\ k0.thr_count = [k.thr_count EXCEPT ![pr] = 0]
  <2> DEFINE tc == [k.thr_count EXCEPT ![pr] = 0]
  <2>1. tc \in [Proc -> Int] /\ k0 = [k EXCEPT !.thr_count = tc]
    BY <1>2 DEF KState
  <2> HIDE DEF tc, k0
  <2>2. /\ k0 \in KState /\ SameLists(k, k0) /\ k0.all_threads = k.all_threads
        /\ k0.id = k.id /\ k0.ids = k.ids /\ k0.assert = k.assert /\ k0.procs = k.procs
        /\ k0.proc = k.proc
        /\ k0.ref_cnt = k.ref_cnt /\ k0.thr_count = tc
    BY <1>2, <2>1 DEF KState, SameLists
  <2> QED BY <2>2 DEF tc
<1> HIDE DEF k0
<1>4. Consistent(k0)
  BY <1>2, <1>3, SameListsConsistent
<1>5. RefsOK(k0) /\ IdsOK(k0)
  BY <1>2, <1>3 DEF RefsOK, IdsOK, SameLists
<1>6. Created(k0, t, pr, k1)
  BY <1>3, <1>4, <1>5, CreateOK DEF Consistent
<1> HIDE DEF k1
<1>7. Added(k0, t, k1) /\ Good(k1) /\ Consistent(k1) /\ k1 \in KState
  BY <1>6 DEF Created, Added, Good, Consistent
<1>8. /\ k2 \in KState /\ SameLists(k1, k2) /\ k2.all_threads = k1.all_threads
      /\ k2.id = k1.id /\ k2.ids = k1.ids /\ k2.assert = k1.assert
      /\ k2.procs = k1.procs \cup {pr}
      /\ k2.ref_cnt = k1.ref_cnt /\ k2.thr_count = k1.thr_count /\ k2.proc = k1.proc
  BY <1>7 DEF KState, SameLists
<1> HIDE DEF k2
<1>9. Good(k2)
  <2>1. Consistent(k2)
    BY <1>7, <1>8, SameListsConsistent
  <2> QED BY <1>7, <1>8, <2>1 DEF Good, RefsOK, IdsOK, SameLists
<1>10. Added(k, t, k2)
  <2>1. OtherIds(k2) = OtherIds(k)
    BY <1>3, <1>7, <1>8 DEF Added, OtherIds
  <2> QED BY <1>3, <1>7, <1>8, <1>9, <2>1 DEF Added, SameLists
<1>11. Sound(k) => Sound(k2)
  <2>1. k.thr_count \in [Proc -> Int]
    BY <1>2 DEF KState
  <2>2. \A p \in Proc \ {pr} : k2.thr_count[p] = k.thr_count[p]
    BY <1>3, <1>6, <1>8, <2>1 DEF Created
  <2>3. k2.procs = k.procs \cup {pr} /\ k2.assert = k.assert
    BY <1>3, <1>6, <1>8 DEF Created
  <2> QED BY <1>2, <2>2, <2>3 DEF Sound, ProcsOK
<1>12. Rescheduled(k2, r)
  BY <1>9, ScheduleSettles
<1> HIDE DEF r
<1>13. Started(k, t, r)
  BY <1>10, <1>12, AddedStarted
<1>14. Sound(k) => Sound(r)
  BY <1>11, <1>12 DEF Rescheduled
<1>15. /\ r.proc = [k.proc EXCEPT ![t] = pr] /\ r.procs = k.procs \cup {pr}
       /\ r.thr_count = [k.thr_count EXCEPT ![pr] = 1]
  <2>1. k0.thr_count = [k.thr_count EXCEPT ![pr] = 0] /\ k.thr_count \in [Proc -> Int]
    BY <1>2, <1>3 DEF KState
  <2>2. r.thr_count = [k0.thr_count EXCEPT ![pr] = @ + 1]
    BY <1>6, <1>8, <1>12 DEF Created, Rescheduled, SameResources
  <2>3. r.proc = [k.proc EXCEPT ![t] = pr] /\ r.procs = k.procs \cup {pr}
    BY <1>3, <1>6, <1>8, <1>12 DEF Created, Rescheduled, SameResources
  <2>4. [k0.thr_count EXCEPT ![pr] = @ + 1] = [k.thr_count EXCEPT ![pr] = 1]
    BY <2>1
  <2> QED BY <2>2, <2>3, <2>4
<1> QED BY <1>1, <1>13, <1>14, <1>15 DEF NewProcess

\* kthreads_init: the idle thread is there and is active.
LEMMA InitOK ==
  /\ Settled(kthreads_init) /\ Sound(kthreads_init)
  /\ kthreads_init.ids.last_id = 1 /\ OtherIds(kthreads_init) = {}
  /\ kthreads_init.all_threads = {Idle} /\ kthreads_init.procs = {KernelProc}
  /\ \A Q \in BlockedQueue : kthreads_init.q[Q] = <<>>
  /\ \A v \in Desc \ {Idle} : ~Awake(kthreads_init, v)
  /\ kthreads_init.proc[Idle] = KernelProc /\ kthreads_init.thr_count[KernelProc] = 1
  /\ kthreads_init.ref_cnt[Idle] = 1
<1> DEFINE k1 == kthread_create(NoThreads, Idle, 0, KernelProc)
           r  == kthreads_schedule(k1)
<1>1. kthreads_init = r
  BY DEF kthreads_init
<1>2. NoThreads \in KState
  <2>1. 0 \in Prio /\ 0 \in Id
    BY KThreadAssumption DEF Prio, Id
  <2>2. [Q \in Queue |-> <<>>] \in [Queue -> Seq(Desc)]
    OBVIOUS
  <2>3. InitialIds \in UniqueIdState
    BY InitialIdsType
  <2>4. /\ [t \in Desc |-> PASSIVE] \in [Desc -> ThreadState]
        /\ [t \in Desc |-> 0] \in [Desc -> Prio]
        /\ [t \in Desc |-> NULL] \in [Desc -> Queue \cup {NULL}]
        /\ [t \in Desc |-> 0] \in [Desc -> Id]
        /\ [t \in Desc |-> 0] \in [Desc -> Int]
        /\ [t \in Desc |-> KernelProc] \in [Desc -> Proc]
        /\ [i \in MaskWord |-> {}] \in [MaskWord -> SUBSET MaskBit]
        /\ [p \in Proc |-> 0] \in [Proc -> Int]
    BY <2>1, KThreadAssumption DEF ThreadState
  <2> QED BY <2>2, <2>3, <2>4, KThreadAssumption DEF NoThreads, KState, AssertOutcome
<1>3. /\ \A Q \in Queue : NoThreads.q[Q] = <<>>
      /\ \A v \in Desc : NoThreads.state[v] = PASSIVE /\ NoThreads.id[v] = 0
                         /\ NoThreads.ref_cnt[v] = 0
      /\ \A i \in MaskWord : NoThreads.rdy_mask[i] = {}
      /\ NoThreads.all_threads = {} /\ NoThreads.ids = InitialIds
      /\ NoThreads.procs = {KernelProc} /\ NoThreads.assert = "ok"
      /\ \A p \in Proc : NoThreads.thr_count[p] = 0
      /\ NoThreads.thr_count \in [Proc -> Int]
  BY <1>2 DEF NoThreads
<1>4. QueuesOK(NoThreads) /\ MaskOK(NoThreads)
  BY <1>3, NoDupEmpty, QueueNames DEF QueuesOK, MaskOK
<1>5. ActiveOK(NoThreads) /\ RefsOK(NoThreads)
  BY <1>3, QueueNames DEF ActiveOK, RefsOK, ACTIVE, PASSIVE
<1>6. IdsOK(NoThreads) /\ NoThreads.ids.last_id = 0 /\ OtherIds(NoThreads) = {}
  BY <1>3 DEF IdsOK, InitialIds, OtherIds
<1>7. Created(NoThreads, Idle, KernelProc, k1)
  <2>1. 0 + 1 < MASK_BITS
    BY MaskBitsFact
  <2> QED BY <1>2, <1>3, <1>4, <1>5, <1>6, <2>1, CreateOK, KThreadAssumption
<1> HIDE DEF k1
<1>8. Sound(k1)
  BY <1>3, <1>7, KThreadAssumption DEF Created, Sound, ProcsOK
<1>9. Rescheduled(k1, r)
  BY <1>7, ScheduleSettles DEF Created, Added
<1> HIDE DEF r
<1>10. \A Q \in BlockedQueue : r.q[Q] = <<>>
  BY <1>3, <1>7, <1>9 DEF Created, Added, Rescheduled, BlockedSame, Queue
<1>11. \A v \in Desc \ {Idle} : ~Awake(r, v)
  BY <1>3, <1>7, <1>9 DEF Created, Added, Rescheduled, Awake, PASSIVE, READY, ACTIVE
<1>12. /\ Settled(r) /\ Sound(r) /\ r.ids.last_id = 1 /\ OtherIds(r) = {}
       /\ r.all_threads = {Idle} /\ r.procs = {KernelProc}
  BY <1>3, <1>6, <1>7, <1>8, <1>9 DEF Created, Added, Rescheduled, SameResources, OtherIds
<1>13. /\ r.proc[Idle] = KernelProc /\ r.thr_count[KernelProc] = 1
       /\ r.ref_cnt[Idle] = 1
  <2>1. /\ NoThreads.proc \in [Desc -> Proc]
        /\ NoThreads.thr_count \in [Proc -> Int] /\ NoThreads.ref_cnt \in [Desc -> Int]
    BY <1>2 DEF KState
  <2> QED BY <2>1, <1>3, <1>7, <1>9, KThreadAssumption
          DEF Created, Added, Rescheduled, SameResources
<1> QED BY <1>1, <1>10, <1>11, <1>12, <1>13

\* w waits in t's join queue and holds a reference to t.
Blocked(k, t, w, r) ==
  /\ r.id = k.id /\ r.proc = k.proc /\ r.procs = k.procs /\ r.thr_count = k.thr_count
  /\ \A v \in Desc :
       /\ r.ref_cnt[v] = IF v = t THEN k.ref_cnt[v] + 1 ELSE k.ref_cnt[v]
       /\ r.state[v] # PASSIVE <=> k.state[v] # PASSIVE
       /\ r.q[join_queue(v)] = IF v = t THEN Append(k.q[join_queue(v)], w)
                                        ELSE k.q[join_queue(v)]

(***************************************************************************)
(* The branch of sys__wait_for_thread that blocks: the active thread takes *)
(* a reference to t and waits in its join queue.                           *)
(***************************************************************************)
LEMMA BlockOK ==
  ASSUME NEW k, Good(k), Runs(k), NEW t \in k.all_threads, k.state[t] # PASSIVE,
         k.active_thread # Idle
  PROVE  LET r == kthreads_schedule(kthread_enqueue([k EXCEPT !.ref_cnt[t] = @ + 1],
                                                    k.active_thread, join_queue(t)))
         IN  /\ Settled(r) /\ r.ids = k.ids /\ r.all_threads = k.all_threads
             /\ Frame(k, r, NULL) /\ (Sound(k) => Sound(r)) /\ Blocked(k, t, k.active_thread, r)
<1> DEFINE w  == k.active_thread
           J  == join_queue(t)
           k1 == [k EXCEPT !.ref_cnt[t] = @ + 1]
           k2 == kthread_enqueue(k1, w, J)
           r  == kthreads_schedule(k2)
<1>1. /\ Consistent(k) /\ k \in KState /\ RefsOK(k) /\ IdsOK(k) /\ t \in Desc
      /\ w \in Desc \ {Idle} /\ w \in k.all_threads /\ k.state[w] = ACTIVE
  BY DEF Good, Consistent, Runs, KState
<1>2. /\ k1 \in KState /\ SameLists(k, k1) /\ k1.all_threads = k.all_threads
      /\ k1.id = k.id /\ k1.ids = k.ids /\ k1.assert = k.assert /\ k1.procs = k.procs
      /\ k1.thr_count = k.thr_count /\ k1.proc = k.proc
      /\ k1.ref_cnt = [k.ref_cnt EXCEPT ![t] = @ + 1]
  <2> DEFINE rc == [k.ref_cnt EXCEPT ![t] = @ + 1]
  <2>1. rc \in [Desc -> Int] /\ k1 = [k EXCEPT !.ref_cnt = rc]
    BY <1>1 DEF KState
  <2> HIDE DEF rc, k1
  <2>2. /\ k1 \in KState /\ SameLists(k, k1) /\ k1.all_threads = k.all_threads
        /\ k1.id = k.id /\ k1.ids = k.ids /\ k1.assert = k.assert /\ k1.procs = k.procs
        /\ k1.thr_count = k.thr_count /\ k1.ref_cnt = rc /\ k1.proc = k.proc
    BY <1>1, <2>1 DEF KState, SameLists
  <2> QED BY <2>2 DEF rc
<1>3. \A v \in Desc : k1.ref_cnt[v] = IF v = t THEN k.ref_cnt[v] + 1 ELSE k.ref_cnt[v]
  BY <1>1, <1>2 DEF KState
<1> HIDE DEF k1, w
<1>4. Consistent(k1)
  BY <1>1, <1>2, SameListsConsistent
<1>5. ~Queued(k1, w)
  BY <1>1, <1>2, <1>4 DEF Queued, Consistent, QueuesOK, Belongs, SameLists, ACTIVE, READY, WAIT
<1>6. Enqueued(k1, w, J, k2)
  BY <1>1, <1>2, <1>4, <1>5, EnqueueOK, QueueNames
<1> HIDE DEF k2
<1>7. \A v \in Desc : k2.state[v] # PASSIVE <=> k.state[v] # PASSIVE
  BY <1>1, <1>2, <1>6 DEF Enqueued, SameLists, WAIT, ACTIVE, PASSIVE
<1>8. ASSUME NEW v \in Desc
      PROVE  k2.q[join_queue(v)] = IF v = t THEN Append(k.q[join_queue(v)], w)
                                            ELSE k.q[join_queue(v)]
  <2>1. k1.q = k.q /\ join_queue(v) \in Queue
    BY <1>2, QueueNames DEF SameLists
  <2>2. CASE v = t
    BY <1>6, <2>1, <2>2 DEF Enqueued
  <2>3. CASE v # t
    <3>1. join_queue(v) # J
      BY <1>1, <2>3, QueueNames
    <3> QED BY <1>6, <2>1, <2>3, <3>1 DEF Enqueued, OtherQueuesSame
  <2> QED BY <2>2, <2>3
<1>9. RefsOK(k2)
  <2>1. k2.ref_cnt = k1.ref_cnt /\ k2.all_threads = k.all_threads
    BY <1>2, <1>6 DEF Enqueued, SameResources
  <2>2. ASSUME NEW v \in Desc
        PROVE  /\ v # t => k2.q[join_queue(v)] = k.q[join_queue(v)]
               /\ v = t => Len(k2.q[join_queue(v)]) = Len(k.q[join_queue(v)]) + 1
    <3>1. k.q[join_queue(v)] \in Seq(Desc)
      BY <1>1, JoinQueueType
    <3>2. CASE v = t
      <4>1. k2.q[join_queue(v)] = Append(k.q[join_queue(v)], w)
        BY <1>8, <3>2
      <4> QED BY <1>1, <3>1, <3>2, <4>1, AppendList
    <3>3. CASE v # t
      BY <1>8, <3>3
    <3> QED BY <3>2, <3>3
  <2>3. ASSUME NEW v \in Desc
        PROVE  IF v \in k2.all_threads /\ k2.state[v] # PASSIVE
               THEN k2.ref_cnt[v] >= 1 + Len(k2.q[join_queue(v)])
               ELSE /\ k2.q[join_queue(v)] = <<>>
                    /\ v \in k2.all_threads <=> k2.ref_cnt[v] >= 1
    <3>1. IF v \in k.all_threads /\ k.state[v] # PASSIVE
          THEN k.ref_cnt[v] >= 1 + Len(k.q[join_queue(v)])
          ELSE /\ k.q[join_queue(v)] = <<>>
               /\ v \in k.all_threads <=> k.ref_cnt[v] >= 1
      BY <1>1 DEF RefsOK
    <3>2. Len(k.q[join_queue(v)]) \in Nat /\ k.ref_cnt[v] \in Int
      BY <1>1, JoinQueueType DEF KState
    <3> QED BY <1>3, <1>7, <2>1, <2>2, <3>1, <3>2
  <2> QED BY <2>3 DEF RefsOK
<1>10. IdsOK(k2) /\ (Sound(k) => Sound(k2))
  BY <1>1, <1>2, <1>6 DEF Enqueued, SameResources, IdsOK, Sound, ProcsOK
<1>11. Good(k2)
  BY <1>6, <1>9, <1>10 DEF Good, Enqueued
<1>12. Rescheduled(k2, r)
  BY <1>11, ScheduleSettles
<1> HIDE DEF r
<1>13. r.ids = k.ids /\ r.id = k.id /\ r.all_threads = k.all_threads /\ r.ref_cnt = k1.ref_cnt
  BY <1>2, <1>6, <1>12 DEF Enqueued, Rescheduled, SameResources
<1>14. Frame(k, r, NULL)
  <2>1. \A x \in WaitQueue : r.q[wait_q(x)] = k.q[wait_q(x)]
    BY <1>1, <1>2, <1>6, <1>12, QueueNames
       DEF Enqueued, OtherQueuesSame, SameLists, Rescheduled, BlockedSame
  <2>2. \A x \in WaitQueue : r.q[wait_q(x)] = list_find_and_remove(k.q[wait_q(x)], NULL)
    BY <1>1, <2>1, NobodyLeaves
  <2>3. \A v \in Desc \ {w} : /\ Awake(r, v) <=> Awake(k, v)
                              /\ Waiting(r, v) => Waiting(k, v)
    <3>1. \A v \in Desc \ {w} : k2.state[v] = k.state[v]
      BY <1>2, <1>6 DEF Enqueued, SameLists
    <3>2. ASSUME NEW v \in Desc \ {w}, NEW Q \in BlockedQueue, v \in ToSet(k2.q[Q])
          PROVE  v \in ToSet(k.q[Q])
      <4>1. Q \in Queue /\ k.q[Q] \in Seq(Desc) /\ k1.q = k.q
        BY <1>1, <1>2 DEF Queue, KState, SameLists
      <4>2. CASE Q = J
        <5>1. k2.q[Q] = Append(k.q[Q], w)
          BY <1>6, <4>1, <4>2 DEF Enqueued
        <5>2. ToSet(k2.q[Q]) = ToSet(k.q[Q]) \cup {w}
          BY <1>1, <4>1, <5>1, AppendList
        <5> QED BY <3>2, <5>2
      <4>3. CASE Q # J
        BY <1>6, <3>2, <4>1, <4>3 DEF Enqueued, OtherQueuesSame
      <4> QED BY <4>2, <4>3
    <3> QED BY <1>12, <3>1, <3>2 DEF Rescheduled, Awake, Waiting
  <2>4. \A v \in Desc : Live(r, v) => Live(k, v)
    BY <1>1, <2>3 DEF Live, Awake
  <2>5. \A v \in Desc : ~RefDropped(k, r, v)
    <3>1. k.ref_cnt \in [Desc -> Int]
      BY <1>1 DEF KState
    <3> QED BY <1>3, <1>13, <3>1 DEF RefDropped
  <2>6. \A v \in Desc : Awake(k, v) => Awake(r, v) \/ v = k.active_thread
    BY <2>3 DEF w
  <2>7. OtherIds(r) = OtherIds(k)
    BY <1>13 DEF OtherIds
  <2> QED BY <1>13, <2>2, <2>4, <2>5, <2>6, <2>7, KThreadAssumption DEF Frame
<1>15. Settled(r) /\ (Sound(k) => Sound(r))
  BY <1>10, <1>12 DEF Rescheduled
<1>16. Blocked(k, t, w, r)
  <2>1. \A v \in Desc : r.ref_cnt[v] = IF v = t THEN k.ref_cnt[v] + 1 ELSE k.ref_cnt[v]
    BY <1>3, <1>13
  <2>2. \A v \in Desc : r.state[v] # PASSIVE <=> k.state[v] # PASSIVE
    BY <1>7, <1>12 DEF Rescheduled, BlockedSame, PASSIVE, ACTIVE, READY
  <2>3. \A v \in Desc : r.q[join_queue(v)] = k2.q[join_queue(v)]
    BY <1>12, QueueNames DEF Rescheduled, BlockedSame
  <2>4. r.proc = k.proc /\ r.procs = k.procs /\ r.thr_count = k.thr_count
    BY <1>2, <1>6, <1>12 DEF Enqueued, Rescheduled, SameResources
  <2> QED BY <1>8, <1>13, <2>1, <2>2, <2>3, <2>4 DEF Blocked
<1> QED BY <1>13, <1>14, <1>15, <1>16 DEF r, k2, k1, w

=============================================================================
