------------------------------- MODULE Arena -------------------------------
(***************************************************************************)
(* The arena (core/arena.c): chunks of memory in a list, cut into pieces   *)
(* that are never given back one by one.                                   *)
(*                                                                         *)
(* An address is a number.  A chunk is at base, its content MetaSize bytes *)
(* behind; top is an offset in the content.  The list of chunks is the     *)
(* sequence `chunks`, and `pieces` is what the calls have returned, in     *)
(* order.  Definitions marked as mutants are faulty forms of the next one. *)
(***************************************************************************)
EXTENDS Integers, Sequences

CONSTANTS
  Types,   \* the sizes and alignments of what is allocated
  Bases,   \* where the allocator may put a chunk
  Capacity \* the cap of arena_new

\* offsetof(Arena, content) and alignof(Arena).
MetaSize == 32
ArenaAlign == 8

\* The size of a C type is a multiple of its alignment, which divides that of the
\* arena or is a multiple of it.
ASSUME ArenaAssumption ==
  /\ Types \subseteq [size : Nat \ {0}, align : Nat \ {0}]
  /\ \A t \in Types : t.size % t.align = 0
  /\ \A t \in Types : ArenaAlign % t.align = 0 \/ t.align % ArenaAlign = 0
  /\ Bases \subseteq Nat
  /\ Capacity \in Nat

\* Alignments are powers of two, as every alignment of C is.
ASSUME AlignmentsNest ==
  /\ \A t, u \in Types : t.align % u.align = 0 \/ u.align % t.align = 0
  /\ \A t \in Types : MetaSize % t.align = 0 \/ t.align % MetaSize = 0

VARIABLES
  chunks, \* the list of chunks
  pieces, \* the pieces returned: the chunk, the offset, the size and alignment asked for
  served  \* no assertion of __arena_alloc has failed

arenaVars == <<chunks, pieces, served>>

Chunk == [base : Nat, size : Nat, top : Nat]
Piece == [in : Nat \ {0}, at : Nat, size : Nat \ {0}, align : Nat \ {0}]

-----------------------------------------------------------------------------
(***************************************************************************)
(* __arena_new                                                             *)
(***************************************************************************)
\* Mutant: chunks are aligned for themselves only.
AllocAlignFixed(align) == ArenaAlign
AllocAlign(align) == IF align < ArenaAlign THEN ArenaAlign ELSE align

\* Room for what is lost when the first piece is aligned behind the meta data.
Padding(align) ==
  IF align > MetaSize THEN align - MetaSize
  ELSE IF MetaSize % align # 0 THEN align - (MetaSize % align)
  ELSE 0

\* The allocation, meta data included, is a multiple of its alignment.
TotalSize(size, align) ==
  LET padded == size + Padding(align)
      rest == (padded + MetaSize) % AllocAlign(align)
  IN  IF rest = 0 THEN padded ELSE padded + AllocAlign(align) - rest

NewChunks(size, align) ==
  {[base |-> base, size |-> TotalSize(size, align), top |-> 0] :
     base \in {b \in Bases : b % AllocAlign(align) = 0}}

-----------------------------------------------------------------------------
(***************************************************************************)
(* __arena_take                                                            *)
(***************************************************************************)
AlignedTop(chunk, align) ==
  LET offset == (chunk.base + MetaSize + chunk.top) % align
  IN  IF offset = 0 THEN chunk.top ELSE chunk.top + align - offset

FinalTop(chunk, type) == AlignedTop(chunk, type.align) + type.size

Fits(chunk, type) == FinalTop(chunk, type) <= chunk.size

\* The piece begins at the top as it was, not where the top is aligned.
Taken(chunk, c, type) ==
  [in |-> c, at |-> chunk.top, size |-> type.size, align |-> type.align]

-----------------------------------------------------------------------------
ArenaInit ==
  /\ \E chunk \in NewChunks(Capacity, 1) : chunks = <<chunk>>
  /\ pieces = <<>>
  /\ served = TRUE

\* __arena_alloc finds a chunk with enough room, the first one.
AllocInChunk ==
  \E type \in Types, c \in DOMAIN chunks :
    /\ Fits(chunks[c], type)
    /\ \A d \in 1..(c - 1) : ~Fits(chunks[d], type)
    /\ chunks' = [chunks EXCEPT ![c].top = FinalTop(chunks[c], type)]
    /\ pieces' = Append(pieces, Taken(chunks[c], c, type))
    /\ UNCHANGED served

\* Mutant: a new chunk is as large as the first one.
NewSizeFirst(type) == chunks[1].size
NewSize(type) == IF chunks[1].size > type.size THEN chunks[1].size ELSE type.size

\* Or it appends one, which must have enough room.
AllocNewChunk ==
  \E type \in Types :
    /\ \A c \in DOMAIN chunks : ~Fits(chunks[c], type)
    /\ \E chunk \in NewChunks(NewSize(type), type.align) :
         IF Fits(chunk, type)
         THEN /\ chunks' = Append(chunks, [chunk EXCEPT !.top = FinalTop(chunk, type)])
              /\ pieces' = Append(pieces, Taken(chunk, Len(chunks) + 1, type))
              /\ UNCHANGED served
         ELSE /\ served' = FALSE
              /\ chunks' = Append(chunks, chunk)
              /\ UNCHANGED pieces

\* arena_free frees every chunk, and the pieces with them.
FreeArena == chunks' = <<>> /\ pieces' = <<>> /\ UNCHANGED served

-----------------------------------------------------------------------------
ArenaTypeOK ==
  /\ chunks \in Seq(Chunk)
  /\ \A c \in DOMAIN chunks : chunks[c].top <= chunks[c].size
  /\ pieces \in Seq(Piece)
  /\ \A n \in DOMAIN pieces : pieces[n].in \in DOMAIN chunks
  /\ served \in BOOLEAN

\* Every allocation is served, from the content of a chunk, and no two pieces
\* overlap, however their alignments move the top (__arena_take, __arena_new).
PiecesApart ==
  /\ served
  /\ \A n \in DOMAIN pieces :
       /\ pieces[n].at + pieces[n].size <= chunks[pieces[n].in].size
       /\ \A m \in 1..(n - 1) :
            pieces[m].in = pieces[n].in => pieces[m].at + pieces[m].size <= pieces[n].at

Misaligned(p) == (chunks[p.in].base + MetaSize + p.at) % p.align # 0

\* What a chunk was allocated for: its first piece, unless arena_new made it.
MadeFor(c) ==
  IF c = 1 THEN ArenaAlign
  ELSE LET first == CHOOSE n \in DOMAIN pieces :
                      pieces[n].in = c /\ \A m \in 1..(n - 1) : pieces[m].in # c
       IN pieces[first].align

\* A piece is misaligned only behind one whose size is no multiple of its alignment,
\* or in a chunk made for less alignment than that, or if the alignment is greater
\* than the size of the meta data.
MisalignedExplained ==
  \A n \in DOMAIN pieces, c \in DOMAIN chunks :
    LET p == pieces[n]
    IN  p.in = c /\ Misaligned(p) =>
          \/ p.align > MetaSize
          \/ p.align > ArenaAlign /\ p.align > MadeFor(c)
          \/ \E m \in 1..(n - 1) : pieces[m].in = c /\ pieces[m].size % p.align # 0
=============================================================================
