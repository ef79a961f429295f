--------------------------- MODULE IdPoolProofs -----------------------------
(***************************************************************************)
(* IdPool's properties hold for every number of ids and of bits in a word, *)
(* through any number of wraps of last_id.                                 *)
(***************************************************************************)
EXTENDS IdPool, KThreadProofs

MaskId == 0 .. MASK_BITS - 1

IInv == TypeOK /\ IdsUnique

LEMMA InitInv == Init => IInv
BY InitialIdsType DEF Init, IInv, TypeOK, IdsUnique, InitialIds, Id

\* The ids of the mask that resources of L have; IdsUnique, for a set of resources
\* and a mask.
Exact(L, mask) ==
  /\ \A r, s \in L : r.id = s.id /\ r.id < MASK_BITS => r = s
  /\ mask = {r.id : r \in L} \cap MaskId

LEMMA ExactNew ==
  ASSUME NEW L \in SUBSET Resource, NEW mask, Exact(L, mask),
         NEW id \in MaskId \ mask, NEW c \in Copy
  PROVE  Exact(L \cup {[id |-> id, copy |-> c]}, mask \cup {id})
<1> DEFINE n == [id |-> id, copy |-> c]
           M == L \cup {n}
<1>1. n.id = id /\ id < MASK_BITS /\ id \in MaskId
  BY MaskBitsFact DEF MaskId
<1> HIDE DEF n
<1>2. \A r \in L : r.id # id
  BY <1>1 DEF Exact
<1>3. \A r, s \in M : r.id = s.id /\ r.id < MASK_BITS => r = s
  BY <1>1, <1>2 DEF Exact
<1>4. mask \cup {id} = {r.id : r \in M} \cap MaskId
  BY <1>1 DEF Exact
<1> QED BY <1>3, <1>4 DEF Exact, n

LEMMA ExactPastMask ==
  ASSUME NEW L \in SUBSET Resource, NEW mask, Exact(L, mask),
         NEW id \in Id, id >= MASK_BITS, NEW c \in Copy
  PROVE  Exact(L \cup {[id |-> id, copy |-> c]}, mask)
<1> DEFINE n == [id |-> id, copy |-> c]
           M == L \cup {n}
<1>1. n.id = id /\ ~(id < MASK_BITS) /\ id \notin MaskId
  BY MaskBitsFact DEF MaskId, Id
<1> HIDE DEF n
<1>2. \A r, s \in M : r.id = s.id /\ r.id < MASK_BITS => r = s
  BY <1>1 DEF Exact
<1>3. mask = {r.id : r \in M} \cap MaskId
  BY <1>1 DEF Exact
<1> QED BY <1>2, <1>3 DEF Exact, n

LEMMA ExactGone ==
  ASSUME NEW L \in SUBSET Resource, NEW mask, Exact(L, mask), NEW r \in L
  PROVE  /\ r.id < MASK_BITS => Exact(L \ {r}, mask \ {r.id})
         /\ r.id >= MASK_BITS => Exact(L \ {r}, mask)
<1> DEFINE M == L \ {r}
<1>1. \A p, q \in M : p.id = q.id /\ p.id < MASK_BITS => p = q
  BY DEF Exact
<1>2. CASE r.id < MASK_BITS
  <2>1. \A p \in M : p.id # r.id
    BY <1>2 DEF Exact
  <2>2. mask \ {r.id} = {p.id : p \in M} \cap MaskId
    BY <2>1 DEF Exact
  <2>3. ~(r.id >= MASK_BITS)
    BY <1>2, MaskBitsFact DEF Resource, Id
  <2> QED BY <1>1, <2>2, <2>3 DEF Exact
<1>3. CASE ~(r.id < MASK_BITS)
  <2>1. r.id \notin MaskId
    BY <1>3, MaskBitsFact DEF MaskId
  <2>2. mask = {p.id : p \in M} \cap MaskId
    BY <2>1 DEF Exact
  <2> QED BY <1>1, <1>3, <2>2 DEF Exact
<1> QED BY <1>2, <1>3

LEMMA IdsUniqueExact == IdsUnique <=> Exact(live, u.idmask)
BY DEF IdsUnique, Exact, MaskId

LEMMA CreateInv ==
  ASSUME IInv, Create
  PROVE  /\ IInv'
         /\ \A r \in live' \ live : r.id # u.last_id \/ r.id >= MASK_BITS
<1> DEFINE c == CHOOSE c \in Unused(u'.last_id) : TRUE
           n == [id |-> u'.last_id, copy |-> c]
<1>1. /\ u \in UniqueIdState /\ live \subseteq Resource /\ newest \in Id
      /\ Exact(live, u.idmask) /\ u.halted = "no" /\ u' = k_new_unique_id(u)
  BY IdsUniqueExact DEF IInv, TypeOK, Create
<1>2. u' \in UniqueIdState
  BY <1>1, NewIdType
<1>3. CASE FreeDistances(u) = {}
  <2>1. u' = [u EXCEPT !.halted = "no_id"]
    BY <1>1, <1>3 DEF k_new_unique_id
  <2>2. u'.idmask = u.idmask /\ u'.halted = "no_id"
    BY <1>1, <2>1 DEF UniqueIdState
  <2>3. live' = live /\ newest' = newest
    BY <2>2 DEF Create
  <2> QED BY <1>1, <1>2, <2>2, <2>3, IdsUniqueExact DEF IInv, TypeOK, IdsUnique, Exact
<1>4. CASE FreeDistances(u) # {}
  <2>1. \/ \E id \in MaskId \ u.idmask :
              id # u.last_id /\ u' = [u EXCEPT !.last_id = id, !.idmask = @ \cup {id}]
        \/ \E id \in Id : id >= MASK_BITS /\ u' = [u EXCEPT !.last_id = id]
    BY <1>1, <1>4, NewIdFresh DEF MaskId
  <2>2. u'.halted = "no"
    BY <1>1, <2>1 DEF UniqueIdState
  <2>3. live' = live \cup {n} /\ newest' = u'.last_id /\ Unused(u'.last_id) # {}
    BY <2>2 DEF Create
  <2>4. c \in Copy /\ u'.last_id \in Id
    BY <1>2, <2>3 DEF Unused, UniqueIdState
  <2> HIDE DEF c
  <2>5. live' \subseteq Resource /\ newest' \in Id
    BY <1>1, <2>3, <2>4 DEF Resource
  <2>6. ASSUME NEW id \in MaskId \ u.idmask, id # u.last_id,
               u' = [u EXCEPT !.last_id = id, !.idmask = @ \cup {id}]
        PROVE  /\ Exact(live', u'.idmask)
               /\ \A r \in live' \ live : r.id # u.last_id \/ r.id >= MASK_BITS
    <3>1. u'.last_id = id /\ u'.idmask = u.idmask \cup {id}
      BY <1>1, <2>6 DEF UniqueIdState
    <3>2. Exact(live \cup {[id |-> id, copy |-> c]}, u.idmask \cup {id})
      BY <1>1, <2>4, ExactNew
    <3> QED BY <2>3, <2>6, <3>1, <3>2
  <2>7. ASSUME NEW id \in Id, id >= MASK_BITS, u' = [u EXCEPT !.last_id = id]
        PROVE  /\ Exact(live', u'.idmask)
               /\ \A r \in live' \ live : r.id # u.last_id \/ r.id >= MASK_BITS
    <3>1. u'.last_id = id /\ u'.idmask = u.idmask
      BY <1>1, <2>7 DEF UniqueIdState
    <3>2. Exact(live \cup {[id |-> id, copy |-> c]}, u.idmask)
      BY <1>1, <2>4, <2>7, ExactPastMask
    <3> QED BY <2>3, <2>7, <3>1, <3>2
  <2>8. /\ Exact(live', u'.idmask)
        /\ \A r \in live' \ live : r.id # u.last_id \/ r.id >= MASK_BITS
    BY <2>1, <2>6, <2>7
  <2>9. IdsUnique'
    BY <2>8 DEF IdsUnique, Exact, MaskId
  <2> QED BY <1>2, <2>5, <2>8, <2>9 DEF IInv, TypeOK
<1> QED BY <1>3, <1>4

LEMMA DeleteInv ==
  ASSUME IInv, NEW r \in live, Delete(r)
  PROVE  /\ IInv' /\ live' \subseteq live
         /\ u'.halted = "bad_id" => Stray(r.id)
<1>1. /\ u \in UniqueIdState /\ live \subseteq Resource /\ newest \in Id
      /\ Exact(live, u.idmask) /\ u.halted = "no" /\ u' = k_free_unique_id(u, r.id)
      /\ live' = (IF u'.halted # "no" THEN live ELSE live \ {r}) /\ newest' = newest
  BY IdsUniqueExact DEF IInv, TypeOK, Delete
<1>2. r.id \in Id
  BY <1>1 DEF Resource
<1>3. u' \in UniqueIdState
  BY <1>1, <1>2, FreeIdType
<1>4. live' \subseteq live
  BY <1>1
<1>5. Exact(live', u'.idmask)
  <2>1. CASE u' = [u EXCEPT !.halted = "bad_id"]
    <3>1. u'.halted # "no" /\ u'.idmask = u.idmask
      BY <1>1, <2>1 DEF UniqueIdState
    <3> QED BY <1>1, <3>1
  <2>2. CASE r.id < MASK_BITS /\ u' = [u EXCEPT !.idmask = @ \ {r.id}]
    <3>1. u'.halted = "no" /\ u'.idmask = u.idmask \ {r.id}
      BY <1>1, <2>2 DEF UniqueIdState
    <3>2. Exact(live \ {r}, u.idmask \ {r.id})
      BY <1>1, <2>2, ExactGone
    <3> QED BY <1>1, <3>1, <3>2
  <2>3. CASE r.id >= MASK_BITS /\ \E last \in Id : u' = [u EXCEPT !.last_id = last]
    <3>1. u'.halted = "no" /\ u'.idmask = u.idmask
      BY <1>1, <2>3 DEF UniqueIdState
    <3>2. Exact(live \ {r}, u.idmask)
      BY <1>1, <2>3, ExactGone
    <3> QED BY <1>1, <3>1, <3>2
  <2> QED BY <1>1, <1>2, <2>1, <2>2, <2>3, FreeIdSteps
<1>6. u'.halted = "bad_id" => Stray(r.id)
  <2> SUFFICES ASSUME ~Stray(r.id) PROVE u'.halted = "no"
    OBVIOUS
  <2>1. r.id > 0 /\ r.id < MASK_BITS /\ r.id < MAX_RESOURCES /\ r.id \in MaskId
    BY <1>2, MaskBitsFact, MaxResourcesAssumption DEF Stray, Id, MaskId
  <2>2. r.id \in u.idmask
    BY <1>1, <2>1 DEF Exact
  <2>3. u' = [u EXCEPT !.idmask = @ \ {r.id}]
    BY <1>1, <2>1, <2>2 DEF k_free_unique_id, IdBit, ClearIdBit
  <2> QED BY <1>1, <2>3 DEF UniqueIdState
<1>7. IdsUnique'
  BY <1>5 DEF IdsUnique, Exact, MaskId
<1> QED BY <1>1, <1>3, <1>4, <1>6, <1>7 DEF IInv, TypeOK

LEMMA NextInv == IInv /\ [Next]_vars => IInv'
<1> SUFFICES ASSUME IInv, [Next]_vars PROVE IInv'
  OBVIOUS
<1>1. CASE Create
  BY <1>1, CreateInv
<1>2. ASSUME NEW r \in live, Delete(r) PROVE IInv'
  BY <1>2, DeleteInv
<1>3. CASE UNCHANGED vars
  BY <1>3 DEF vars, IInv, TypeOK, IdsUnique
<1> QED BY <1>1, <1>2, <1>3 DEF Next

LEMMA InvHolds == Spec => []IInv
BY InitInv, NextInv, PTL DEF Spec

(***************************************************************************)
(* The allocator's state and the ids resources have keep their types.      *)
(***************************************************************************)
THEOREM TypeCorrect == Spec => []TypeOK
BY InvHolds, PTL DEF IInv

(***************************************************************************)
(* Resources that exist at the same time never share an id of the mask,    *)
(* and the bits set in the mask are the ids of existing resources, while   *)
(* ids past the mask are handed out and given back through the bits of     *)
(* last_id (k_new_unique_id, k_free_unique_id).                            *)
(***************************************************************************)
THEOREM UniqueIds == Spec => []IdsUnique
BY InvHolds, PTL DEF IInv

(***************************************************************************)
(* A resource never gets the id of the mask that was handed out last,      *)
(* unless a deletion has moved last_id since.                              *)
(***************************************************************************)
THEOREM IdNotReusedAtOnce == Spec => NoImmediateReuse
<1> DEFINE A == \A r \in live' \ live :
                  r.id = newest => r.id >= MASK_BITS \/ u.last_id # newest
<1>1. IInv /\ [Next]_vars => [A]_vars
  <2> SUFFICES ASSUME IInv, Next PROVE A
    OBVIOUS
  <2>1. CASE Create
    BY <2>1, CreateInv
  <2>2. ASSUME NEW r \in live, Delete(r) PROVE A
    BY <2>2, DeleteInv
  <2> QED BY <2>1, <2>2 DEF Next
<1> QED BY <1>1, InvHolds, PTL DEF Spec, NoImmediateReuse

(***************************************************************************)
(* The ASSERT of k_free_unique_id fails only when a resource is deleted    *)
(* whose id is 0 or past the mask.                                         *)
(***************************************************************************)
THEOREM OnlyStrayIdsFail ==
  Spec => [][u'.halted = "bad_id" => \E r \in live : Stray(r.id) /\ Delete(r)]_vars
<1> DEFINE A == u'.halted = "bad_id" => \E r \in live : Stray(r.id) /\ Delete(r)
<1>1. IInv /\ [Next]_vars => [A]_vars
  <2> SUFFICES ASSUME IInv, Next, u'.halted = "bad_id"
               PROVE  \E r \in live : Stray(r.id) /\ Delete(r)
    OBVIOUS
  <2>1. CASE Create
    <3>1. u \in UniqueIdState /\ u.halted = "no" /\ u' = k_new_unique_id(u)
      BY <2>1 DEF IInv, TypeOK, Create
    <3>2. u'.halted \in {"no", "no_id"}
      <4>1. CASE FreeDistances(u) = {}
        BY <3>1, <4>1 DEF k_new_unique_id, UniqueIdState
      <4>2. CASE FreeDistances(u) # {}
        BY <3>1, <4>2, NewIdFresh DEF UniqueIdState
      <4> QED BY <4>1, <4>2
    <3> QED BY <3>2
  <2>2. ASSUME NEW r \in live, Delete(r) PROVE Stray(r.id) /\ Delete(r)
    BY <2>2, DeleteInv
  <2> QED BY <2>1, <2>2 DEF Next
<1> QED BY <1>1, InvHolds, PTL DEF Spec
=============================================================================
