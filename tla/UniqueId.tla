------------------------------ MODULE UniqueId ------------------------------
(***************************************************************************)
(* The allocator of system-wide resource ids (kernel/memory.c, lines       *)
(* 125-159).  A thread or a message queue is known to user programs by the *)
(* address of its descriptor and by such an id; the id is what tells a     *)
(* live descriptor from another one that was later put at its address.     *)
(*                                                                         *)
(* The array idmask has MAX_RESOURCES / WBITS words, rounded down: 31 for  *)
(* the 1000 ids of the build, so that ids 992 .. 999 have no bit in it.    *)
(* The code uses the word after the array for them.  Compiled and linked   *)
(* as Makefile.kernel says (line 12: no optimisation, every variable in a  *)
(* section of its own, kept in the order of the file by kernel.ld), that   *)
(* word is the variable defined next, last_id, and every use of last_id    *)
(* reads it again.  So these ids are tested, set and cleared in the bits   *)
(* of last_id itself.                                                      *)
(*                                                                         *)
(* The state is one record so that other modules can carry it inside their *)
(* own: `last_id' is the static variable of that name, `idmask' the set of *)
(* ids whose bit in the array is set, `halted' which halt() was reached,   *)
(* if any.                                                                 *)
(***************************************************************************)
EXTENDS Integers, FiniteSets

CONSTANTS
  MAX_RESOURCES,   \* ids are tried modulo this number (1000 in the build)
  WBITS            \* bits of a word (32 in the build)

ASSUME MaxResourcesAssumption == MAX_RESOURCES \in Nat \ {0, 1}
ASSUME WbitsAssumption == WBITS \in 2 .. MAX_RESOURCES

\* The ids whose bit is in the array are 0 .. MASK_BITS - 1.
MASK_BITS == (MAX_RESOURCES \div WBITS) * WBITS

Id == Nat   \* uint

\* "no": the kernel runs; "no_id": the halt() of k_new_unique_id; "bad_id": the
\* ASSERT of k_free_unique_id failed.
HaltReason == {"no", "no_id", "bad_id"}

UniqueIdState ==
  [last_id : Id, idmask : SUBSET (0 .. MASK_BITS - 1), halted : HaltReason]

\* The static initialisers: no id is used, the search starts after 0.
InitialIds == [last_id |-> 0, idmask |-> {}, halted |-> "no"]

\* idmask [ id / WBITS ] & ( 1 << ( id % WBITS ) )
IdBit(u, id) ==
  IF id < MASK_BITS THEN id \in u.idmask
                    ELSE (u.last_id \div 2^(id % WBITS)) % 2 = 1

\* Mutation: the array is taken to have a bit for every id.
SetIdBit_anyId(u, id) == [u EXCEPT !.idmask = @ \cup {id}]

\* idmask [ id / WBITS ] |= 1 << ( id % WBITS ), for a bit that is clear
SetIdBit(u, id) ==
  IF id < MASK_BITS THEN [u EXCEPT !.idmask = @ \cup {id}]
                    ELSE [u EXCEPT !.last_id = @ + 2^(id % WBITS)]

\* Mutation: the complement is missing, the other bits of the word are cleared.
ClearIdBit_others(u, id) ==
  IF id < MASK_BITS
  THEN [u EXCEPT !.idmask = {i \in @ : i \div WBITS # id \div WBITS \/ i = id}]
  ELSE [u EXCEPT !.last_id = 2^(id % WBITS)]

\* idmask [ id / WBITS ] &= ~ ( 1 << ( id % WBITS ) ), for a bit that is set
ClearIdBit(u, id) ==
  IF id < MASK_BITS THEN [u EXCEPT !.idmask = @ \ {id}]
                    ELSE [u EXCEPT !.last_id = @ - 2^(id % WBITS)]

\* last_id after n turns of the loop of k_new_unique_id
Advance(u, n) == [u EXCEPT !.last_id = (@ + n) % MAX_RESOURCES]

LastBit(u)    == IdBit(u, u.last_id)
SetLastBit(u) == SetIdBit(u, u.last_id)

\* Mutation: the search begins with last_id itself and may give it again.
FreeDistances_fromLast(u) == {n \in 0 .. MAX_RESOURCES : ~LastBit(Advance(u, n))}

(***************************************************************************)
(* How far the do-while loop advances: it leaves at the first id after     *)
(* last_id, cyclically, whose bit is clear.  `continue' in a do-while jumps*)
(* to the loop's condition, so id 0 is tested like every other id.  The    *)
(* loop gives up when it is back where it started.                         *)
(***************************************************************************)
FreeDistances(u) ==
  {n \in 1 .. MAX_RESOURCES :
     Advance(u, n).last_id # u.last_id /\ ~LastBit(Advance(u, n))}

Least(S) == CHOOSE n \in S : \A m \in S : n <= m

\* Mutation: the bit of the new id is not set.
k_new_unique_id_unmarked(u) ==
  IF FreeDistances(u) = {} THEN [u EXCEPT !.halted = "no_id"]
                           ELSE Advance(u, Least(FreeDistances(u)))

\* The id returned is last_id as it is after the bit has been set.
k_new_unique_id(u) ==
  IF FreeDistances(u) = {} THEN [u EXCEPT !.halted = "no_id"]
                           ELSE SetLastBit(Advance(u, Least(FreeDistances(u))))

\* ASSERT ( id > 0 && id < MAX_RESOURCES && bit set ), then clear the bit.
k_free_unique_id(u, id) ==
  IF id > 0 /\ id < MAX_RESOURCES /\ IdBit(u, id)
  THEN ClearIdBit(u, id)
  ELSE [u EXCEPT !.halted = "bad_id"]
=============================================================================
