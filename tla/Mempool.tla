------------------------------ MODULE Mempool ------------------------------
(***************************************************************************)
(* A memory pool (core/mempool.c): an arena, and the vectors and keymaps   *)
(* that are freed with it (core/vec.c, core/keymap.c).                     *)
(*                                                                         *)
(* A growing vector moves.  The pool registers the address of every vector *)
(* in a vector of its own and the vector knows its slot there, to write    *)
(* its new address into; the registry itself moves when it grows.          *)
(*                                                                         *)
(* An address is where an allocation may be; a freed one is used again.    *)
(* Of what vectors hold there is only the number.  MaxOperations bounds    *)
(* the calls and MaxLen the length of a vector.  Definitions marked as     *)
(* mutants are faulty forms of the next one.                               *)
(***************************************************************************)
EXTENDS Arena

CONSTANTS
  Addresses,     \* what malloc and realloc may return
  MaxLen,
  MaxOperations

ASSUME MempoolAssumption == MaxLen \in Nat /\ MaxOperations \in Nat

\* The registries of a pool.
Kinds == {"vectors", "keymaps"}

VARIABLES
  heap,       \* the addresses that are allocated
  registries, \* mempool->vectors and mempool->keymaps
  vecs,       \* every vector and keymap of the pool: where its owner has it, its header
  status,     \* running, freed, or stopped by a write or a free of what is not allocated
  operations  \* how many calls there were

poolVars == <<heap, registries, vecs, status>>
vars == <<arenaVars, poolVars, operations>>

Registry == [at : Addresses, slots : Seq(Addresses)]
Slot == [registry : Addresses, slot : Nat \ {0}]
Vec == [kind : Kinds, at : Addresses, len : 0..MaxLen, cap : 0..MaxLen, attachment : Slot]

\* mempool_new
Init ==
  /\ ArenaInit
  /\ \E at \in [Kinds -> Addresses] :
       /\ at["vectors"] # at["keymaps"]
       /\ registries = [kind \in Kinds |-> [at |-> at[kind], slots |-> <<>>]]
       /\ heap = {at[kind] : kind \in Kinds}
  /\ vecs = <<>>
  /\ status = "running"
  /\ operations = 0

-----------------------------------------------------------------------------
\* realloc leaves an allocation where it is, or moves it.
Reallocated(at) == {at} \cup (Addresses \ heap)

\* Mutant: the vectors that were registered before keep their slots.
AttachedLast(registered, kind, registry) == registered
\* When the registry has moved, every vector in it is told its new slot.
Attached(registered, kind, registry) ==
  IF registry.at = registries[kind].at THEN registered
  ELSE [v \in DOMAIN registered |->
          IF \E i \in DOMAIN registries[kind].slots : registries[kind].slots[i] = registered[v].at
          THEN [registered[v] EXCEPT !.attachment =
                 [registry |-> registry.at,
                  slot |-> CHOOSE i \in DOMAIN registries[kind].slots :
                             registries[kind].slots[i] = registered[v].at]]
          ELSE registered[v]]

\* vec_new_in, vec_create_in and keymap_new_in: a vector is made and, with its
\* first elements, registered.  A registry grows by one each time.
AddVec ==
  \E kind \in Kinds, at \in Addresses \ heap, len \in 0..MaxLen :
    \E to \in Reallocated(registries[kind].at) \ {at} :
      LET registry == [at |-> to, slots |-> Append(registries[kind].slots, at)]
          new == [kind |-> kind, at |-> at, len |-> len, cap |-> len,
                  attachment |-> [registry |-> to, slot |-> Len(registry.slots)]]
      IN  /\ vecs' = Append(Attached(vecs, kind, registry), new)
          /\ registries' = [registries EXCEPT ![kind] = registry]
          /\ heap' = (heap \ {registries[kind].at}) \cup {at, to}
          /\ UNCHANGED status

\* *header->attachment = vec: the write goes to a slot of the registry that is there.
WriteSlot(attachment, to) ==
  LET here == {kind \in Kinds : registries[kind].at = attachment.registry
                                  /\ attachment.slot \in DOMAIN registries[kind].slots}
  IN  IF here = {}
      THEN status' = "stray write" /\ UNCHANGED registries
      ELSE /\ registries' = [kind \in Kinds |->
                IF kind \in here THEN [registries[kind] EXCEPT !.slots[attachment.slot] = to]
                                 ELSE registries[kind]]
           /\ UNCHANGED status

\* Mutant: the header keeps its old capacity.
MovedSmall(v, to, len) == [vecs EXCEPT ![v].at = to, ![v].len = len]
Moved(v, to, len) == [vecs EXCEPT ![v].at = to, ![v].len = len, ![v].cap = len]

\* __vec_reserve, and the elements appended behind it: vec_push, vec_resize,
\* vec_extend and keymap_insert, whose macros give the owner the new address.
Grow ==
  \E v \in DOMAIN vecs : \E len \in (vecs[v].len + 1)..MaxLen :
    IF len <= vecs[v].cap
    THEN vecs' = [vecs EXCEPT ![v].len = len] /\ UNCHANGED <<heap, registries, status>>
    ELSE \E to \in Reallocated(vecs[v].at) :
           /\ vecs' = Moved(v, to, len)
           /\ heap' = (heap \ {vecs[v].at}) \cup {to}
           /\ WriteSlot(vecs[v].attachment, to)

\* vec_pop, vec_remove_at, vec_erase and vec_resize keep the room they had.
Shrink ==
  /\ \E v \in DOMAIN vecs : \E len \in 0..(vecs[v].len - 1) :
       vecs' = [vecs EXCEPT ![v].len = len]
  /\ UNCHANGED <<heap, registries, status>>

\* What mempool_free frees after the arena, in order.
Freed == registries["keymaps"].slots \o <<registries["keymaps"].at>>
         \o registries["vectors"].slots \o <<registries["vectors"].at>>

\* A free of what is not allocated, or not any more, is an error of the program.
FreeAll ==
  /\ status' = IF \A i \in DOMAIN Freed :
                    Freed[i] \in heap /\ \A j \in 1..(i - 1) : Freed[j] # Freed[i]
               THEN "freed" ELSE "bad free"
  /\ heap' = heap \ {Freed[i] : i \in DOMAIN Freed}
  /\ registries' = [kind \in Kinds |-> [registries[kind] EXCEPT !.slots = <<>>]]
  /\ vecs' = <<>>

-----------------------------------------------------------------------------
Call == status = "running" /\ served /\ operations < MaxOperations /\ operations' = operations + 1

Alloc == Call /\ (AllocInChunk \/ AllocNewChunk) /\ UNCHANGED poolVars
ChangeVecs == Call /\ (AddVec \/ Grow \/ Shrink) /\ UNCHANGED arenaVars
Free == status = "running" /\ served /\ FreeArena /\ FreeAll /\ UNCHANGED operations

Next == Alloc \/ ChangeVecs \/ Free

Spec == Init /\ [][Next]_vars

-----------------------------------------------------------------------------
TypeOK ==
  /\ ArenaTypeOK
  /\ heap \subseteq Addresses
  /\ registries \in [Kinds -> Registry]
  /\ vecs \in Seq(Vec)
  /\ \A v \in DOMAIN vecs : vecs[v].len <= vecs[v].cap
  /\ status \in {"running", "freed", "stray write", "bad free"}
  /\ operations \in 0..MaxOperations

\* However vectors and registries move, a vector writes its new address into its own
\* slot, and mempool_free frees every allocation of the pool, and each one once.
FreedOnce ==
  /\ status \notin {"stray write", "bad free"}
  /\ status = "freed" => heap = {}
=============================================================================
