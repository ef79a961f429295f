------------------------------- MODULE IdPool -------------------------------
(***************************************************************************)
(* Kernel resources (threads, message queues) taking and giving back ids   *)
(* of UniqueId, long enough for last_id to wrap around.                    *)
(***************************************************************************)
EXTENDS UniqueId

CONSTANT Copy   \* bound: the resources that may have one id at the same time

VARIABLES
  u,       \* the allocator
  live,    \* the existing resources, each with the id its descriptor keeps
  newest   \* history: the id handed out last

vars == <<u, live, newest>>

Resource == [id : Id, copy : Copy]

Init == u = InitialIds /\ live = {} /\ newest = 0

Unused(id) == {c \in Copy : [id |-> id, copy |-> c] \notin live}

\* kthread_create and sys__create_msg_queue: descriptor->id = k_new_unique_id ()
Create ==
  LET c == CHOOSE c \in Unused(u'.last_id) : TRUE
      r == [id |-> u'.last_id, copy |-> c]
  IN  /\ u.halted = "no"
      /\ u' = k_new_unique_id(u)
      /\ \/ u'.halted # "no" /\ UNCHANGED <<live, newest>>
         \/ /\ u'.halted = "no" /\ Unused(u'.last_id) # {}
            /\ live' = live \cup {r} /\ newest' = r.id

\* kthread_remove_descriptor and sys__delete_msg_queue: k_free_unique_id ( id )
Delete(r) ==
  /\ u.halted = "no"
  /\ u' = k_free_unique_id(u, r.id)
  /\ live' = IF u'.halted # "no" THEN live ELSE live \ {r}
  /\ UNCHANGED newest

Next == Create \/ \E r \in live : Delete(r)

Spec == Init /\ [][Next]_vars

-----------------------------------------------------------------------------
TypeOK == /\ u \in UniqueIdState
          /\ live \subseteq Resource
          /\ newest \in Id

\* An id that should not be given to a resource: 0, which is what
\* kthread_remove_descriptor stores in a dead descriptor, or one past the mask.
Stray(id) == id = 0 \/ id >= MASK_BITS

(***************************************************************************)
(* Two resources that exist at the same time never share an id that has a  *)
(* bit in idmask, and the bits set there are exactly the ids of existing   *)
(* resources, through any number of wraps of last_id and however the ids   *)
(* past the mask, kept in last_id, disturb the search (k_new_unique_id,    *)
(* k_free_unique_id).  Ids past the mask may be shared.                    *)
(***************************************************************************)
IdsUnique ==
  /\ \A r, s \in live : r.id = s.id /\ r.id < MASK_BITS => r = s
  /\ u.idmask = {r.id : r \in live} \cap 0 .. MASK_BITS - 1

(***************************************************************************)
(* An id of the mask is never handed out twice in a row: deleting the      *)
(* newest resource and creating another gives a different id, so a handle  *)
(* to the deleted one is recognised as stale (the id test of               *)
(* sys__wait_for_thread and kthread_get_descriptor).  The exception is the *)
(* one the code has: giving back an id past the mask clears a bit of       *)
(* last_id and so moves the search back.                                   *)
(***************************************************************************)
NoImmediateReuse ==
  [][\A r \in live' \ live :
        r.id = newest => r.id >= MASK_BITS \/ u.last_id # newest]_vars

(***************************************************************************)
(* The allocator stops the kernel only when a resource whose id is 0 or    *)
(* past the mask is deleted (the ASSERT of k_free_unique_id): never for    *)
(* another resource, whatever was created, deleted and shared before, and  *)
(* never because the ids have run out, since the search ends past the mask *)
(* at the latest (k_new_unique_id).                                        *)
(***************************************************************************)
OnlyStrayIdsStop ==
  [][u'.halted # "no" => \E r \in live : Stray(r.id) /\ Delete(r)]_vars

(***************************************************************************)
(* The comment in k_new_unique_id, "don't assign 0": no resource gets id 0.*)
(***************************************************************************)
ZeroNotAssigned == \A r \in live : r.id # 0
=============================================================================
