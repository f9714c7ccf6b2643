---------------------------- MODULE MempoolProofs ----------------------------
(***************************************************************************)
(* Theorems about the pool, for all types whose alignments divide each     *)
(* other, all places of chunks, and any number of calls.                   *)
(***************************************************************************)
EXTENDS Mempool, SequenceTheorems, TLAPS

-----------------------------------------------------------------------------
(***************************************************************************)
(* The arithmetic of __arena_new and __arena_take.                         *)
(***************************************************************************)
LEMMA Remainder ==
  ASSUME NEW n \in Nat, NEW d \in Nat \ {0}
  PROVE  n % d \in 0..(d - 1)
OBVIOUS

\* An offset smaller than the divisor is what remains behind a multiple of it.
LEMMA Behind ==
  ASSUME NEW n \in Nat, NEW d \in Nat \ {0}, NEW r \in 0..(d - 1), n % d = 0
  PROVE  (n + r) % d = r
OBVIOUS

LEMMA SmallAlign ==
  ASSUME NEW a \in Nat \ {0}, a <= 8, 8 % a = 0 \/ a % 8 = 0
  PROVE  a \in {1, 2, 4, 8}
OBVIOUS

LEMMA MiddleAlign ==
  ASSUME NEW a \in Nat, a > 8, a <= 32, 8 % a = 0 \/ a % 8 = 0
  PROVE  a \in {16, 24, 32}
OBVIOUS

\* The top moves up, and by less than the alignment.
LEMMA TopMovesUp ==
  ASSUME NEW chunk \in Chunk, NEW a \in Nat \ {0}
  PROVE  AlignedTop(chunk, a) \in Nat /\ AlignedTop(chunk, a) >= chunk.top
<1>1. chunk.base + MetaSize + chunk.top \in Nat
  BY DEF Chunk, MetaSize
<1>2. (chunk.base + MetaSize + chunk.top) % a \in 0..(a - 1)
  BY <1>1, Remainder
<1>3. QED
  BY <1>2 DEF AlignedTop, Chunk

\* The first piece of a new chunk loses no more than the padding.
LEMMA PaddingIsEnough ==
  ASSUME NEW t \in Types, NEW n \in Nat, NEW chunk \in NewChunks(n, t.align)
  PROVE  chunk \in Chunk /\ chunk.top = 0 /\ AlignedTop(chunk, t.align) + n <= chunk.size
<1> DEFINE a == t.align
<1>1. a \in Nat \ {0} /\ (8 % a = 0 \/ a % 8 = 0)
  BY ArenaAssumption DEF ArenaAlign
<1>2. /\ chunk.base \in Nat /\ chunk.base % AllocAlign(a) = 0
      /\ chunk.size = TotalSize(n, a) /\ chunk.top = 0
      /\ chunk = [base |-> chunk.base, size |-> chunk.size, top |-> 0]
  BY ArenaAssumption DEF NewChunks
<1>3. AllocAlign(a) \in Nat \ {0}
  BY <1>1 DEF AllocAlign, ArenaAlign
<1>4. Padding(a) \in Nat
  BY <1>1 DEF Padding, MetaSize
<1>5. TotalSize(n, a) \in Nat /\ TotalSize(n, a) >= n + Padding(a)
  <2> DEFINE padded == n + Padding(a)
             rest == (padded + MetaSize) % AllocAlign(a)
  <2>1. rest \in 0..(AllocAlign(a) - 1)
    <3>1. padded + MetaSize \in Nat
      BY <1>4 DEF MetaSize
    <3>2. QED
      BY <3>1, <1>3, Remainder
  <2>2. TotalSize(n, a) = IF rest = 0 THEN padded ELSE padded + AllocAlign(a) - rest
    BY DEF TotalSize
  <2> HIDE DEF rest
  <2>3. QED
    BY <2>1, <2>2, <1>3, <1>4
<1>6. AlignedTop(chunk, a) <= Padding(a)
  <2>1. CASE a <= 8
    <3>1. a \in {1, 2, 4, 8} /\ chunk.base % 8 = 0
      BY <2>1, <1>1, <1>2, SmallAlign DEF AllocAlign, ArenaAlign
    <3>2. (chunk.base + 32 + 0) % a = 0
      BY <3>1, <1>2
    <3>3. QED
      BY <3>2, <1>2, <1>4 DEF AlignedTop, MetaSize
  <2>2. CASE a > 8 /\ a <= 32
    <3>1. a \in {16, 24, 32} /\ chunk.base % a = 0
      BY <2>2, <1>1, <1>2, MiddleAlign DEF AllocAlign, ArenaAlign
    <3>2. (chunk.base + 32 + 0) % a = 32 % a
      BY <3>1, <1>2
    <3>3. QED
      BY <3>1, <3>2, <1>2 DEF AlignedTop, MetaSize, Padding
  <2>3. CASE a > 32
    <3>1. chunk.base % a = 0
      BY <2>3, <1>1, <1>2 DEF AllocAlign, ArenaAlign
    <3>2. (chunk.base + 32) % a = 32
      BY <3>1, <2>3, <1>1, <1>2, Behind
    <3>3. QED
      BY <3>2, <2>3, <1>1, <1>2 DEF AlignedTop, MetaSize, Padding
  <2>4. QED
    BY <2>1, <2>2, <2>3, <1>1
<1>7. chunk \in Chunk
  BY <1>2, <1>5 DEF Chunk
<1>8. AlignedTop(chunk, a) \in Nat
  BY <1>7, <1>1, TopMovesUp
<1>9. QED
  BY <1>2, <1>4, <1>5, <1>6, <1>7, <1>8

-----------------------------------------------------------------------------
(***************************************************************************)
(* PiecesApart is not inductive: it does not say that a piece ends below   *)
(* the top of its chunk, where the next one begins.                        *)
(***************************************************************************)
ArenaInv ==
  /\ ArenaTypeOK
  /\ PiecesApart
  /\ \A n \in DOMAIN pieces : pieces[n].at + pieces[n].size <= chunks[pieces[n].in].top

LEMMA ArenaInitInv == ASSUME ArenaInit PROVE ArenaInv
<1>1. PICK chunk \in NewChunks(Capacity, 1) : chunks = <<chunk>>
  BY DEF ArenaInit
<1>2. chunk \in Chunk /\ chunk.top <= chunk.size
  <2>1. 1 % 8 = 1 /\ Padding(1) = 0
    BY DEF Padding, MetaSize
  <2>2. AllocAlign(1) = 8
    BY DEF AllocAlign, ArenaAlign
  <2>3. (Capacity + 32) % 8 \in 0..7
    BY ArenaAssumption, Remainder
  <2>4. TotalSize(Capacity, 1) \in Nat
    BY <2>1, <2>2, <2>3, ArenaAssumption DEF TotalSize, MetaSize
  <2>5. QED
    BY <2>4, ArenaAssumption DEF NewChunks, Chunk
<1>3. pieces = <<>> /\ served = TRUE
  BY DEF ArenaInit
<1>4. QED
  BY <1>1, <1>2, <1>3 DEF ArenaInv, ArenaTypeOK, PiecesApart

\* A piece that is taken from the top of a chunk with room for it.
LEMMA TakenInv ==
  ASSUME ArenaInv, NEW c \in DOMAIN chunks, NEW type \in Types, Fits(chunks[c], type),
         chunks' = [chunks EXCEPT ![c].top = FinalTop(chunks[c], type)],
         pieces' = Append(pieces, Taken(chunks[c], c, type)), served' = served
  PROVE  ArenaInv'
<1>1. type.size \in Nat \ {0} /\ type.align \in Nat \ {0}
  BY ArenaAssumption
<1>2. chunks \in Seq(Chunk) /\ chunks[c] \in Chunk
  BY DEF ArenaInv, ArenaTypeOK
<1> DEFINE top == FinalTop(chunks[c], type)
<1>3. top \in Nat /\ top >= chunks[c].top + type.size /\ top <= chunks[c].size
  BY <1>1, <1>2, TopMovesUp, SMTT(30) DEF FinalTop, Fits, Chunk
<1>4. /\ chunks' \in Seq(Chunk) /\ DOMAIN chunks' = DOMAIN chunks
      /\ chunks'[c].top = top /\ chunks'[c].size = chunks[c].size
      /\ \A d \in DOMAIN chunks \ {c} : chunks'[d] = chunks[d]
  <2> DEFINE chunk == [chunks[c] EXCEPT !.top = top]
  <2>1. chunk \in Chunk /\ chunk.top = top /\ chunk.size = chunks[c].size
    BY <1>2, <1>3 DEF Chunk
  <2>2. chunks' = [chunks EXCEPT ![c] = chunk]
    OBVIOUS
  <2> HIDE DEF chunk
  <2>3. QED
    BY <2>1, <2>2, <1>2, ExceptSeq
<1> HIDE DEF top
<1> DEFINE p == Taken(chunks[c], c, type)
<1>5. p \in Piece /\ p.in = c /\ p.at = chunks[c].top /\ p.size = type.size
  BY <1>1, <1>2 DEF Taken, Piece, Chunk
<1>6. /\ pieces \in Seq(Piece) /\ pieces' \in Seq(Piece) /\ Len(pieces') = Len(pieces) + 1
      /\ pieces'[Len(pieces) + 1] = p
      /\ \A n \in 1..Len(pieces) : pieces'[n] = pieces[n]
  BY <1>5, AppendProperties DEF ArenaInv, ArenaTypeOK
<1>7. \A n \in 1..Len(pieces) :
        /\ pieces[n].in \in DOMAIN chunks /\ pieces[n] \in Piece
        /\ pieces[n].at + pieces[n].size <= chunks[pieces[n].in].top
  BY <1>6 DEF ArenaInv, ArenaTypeOK
<1>8. ArenaTypeOK'
  <2>1. \A d \in DOMAIN chunks' : chunks'[d].top <= chunks'[d].size
    BY <1>3, <1>4 DEF ArenaInv, ArenaTypeOK
  <2>2. \A n \in DOMAIN pieces' : pieces'[n].in \in DOMAIN chunks'
    BY <1>4, <1>5, <1>6, <1>7
  <2>3. QED
    BY <1>4, <1>6, <2>1, <2>2 DEF ArenaInv, ArenaTypeOK
<1>9. \A n \in DOMAIN pieces' : pieces'[n].at + pieces'[n].size <= chunks'[pieces'[n].in].top
  <2> SUFFICES ASSUME NEW n \in DOMAIN pieces'
               PROVE  pieces'[n].at + pieces'[n].size <= chunks'[pieces'[n].in].top
    OBVIOUS
  <2>1. CASE n = Len(pieces) + 1
    BY <2>1, <1>1, <1>3, <1>4, <1>5, <1>6
  <2>2. CASE n \in 1..Len(pieces) /\ pieces[n].in = c
    <3>1. /\ pieces[n].at + pieces[n].size \in Nat
          /\ pieces[n].at + pieces[n].size <= chunks[c].top
      BY <2>2, <1>7 DEF Piece
    <3>2. chunks[c].top \in Nat /\ chunks[c].top <= top
      BY <1>1, <1>2, <1>3, SMTT(30) DEF Chunk
    <3>3. pieces'[n] = pieces[n] /\ chunks'[pieces[n].in].top = top
      BY <2>2, <1>4, <1>6
    <3>4. QED
      BY <3>1, <3>2, <3>3, <1>3
  <2>3. CASE n \in 1..Len(pieces) /\ pieces[n].in # c
    BY <2>3, <1>4, <1>6, <1>7
  <2>4. QED
    BY <2>1, <2>2, <2>3, <1>6
<1>10. PiecesApart'
  <2>1. \A n \in DOMAIN pieces' :
          pieces'[n].at + pieces'[n].size <= chunks'[pieces'[n].in].size
    <3> SUFFICES ASSUME NEW n \in DOMAIN pieces'
                 PROVE  pieces'[n].at + pieces'[n].size <= chunks'[pieces'[n].in].size
      OBVIOUS
    <3>1. pieces'[n].in \in DOMAIN chunks' /\ pieces'[n] \in Piece
      BY <1>6, <1>8 DEF ArenaTypeOK
    <3>2. chunks'[pieces'[n].in].top <= chunks'[pieces'[n].in].size
      BY <3>1, <1>8 DEF ArenaTypeOK
    <3>3. chunks'[pieces'[n].in] \in Chunk
      BY <3>1, <1>4
    <3>4. /\ pieces'[n].at + pieces'[n].size \in Nat
          /\ chunks'[pieces'[n].in].top \in Nat /\ chunks'[pieces'[n].in].size \in Nat
      BY <3>1, <3>3, SMTT(30) DEF Piece, Chunk
    <3>5. QED
      BY <1>9, <3>2, <3>4
  <2>2. \A n \in DOMAIN pieces' : \A m \in 1..(n - 1) :
          pieces'[m].in = pieces'[n].in => pieces'[m].at + pieces'[m].size <= pieces'[n].at
    <3> SUFFICES ASSUME NEW n \in DOMAIN pieces', NEW m \in 1..(n - 1),
                        pieces'[m].in = pieces'[n].in
                 PROVE  pieces'[m].at + pieces'[m].size <= pieces'[n].at
      OBVIOUS
    <3>1. CASE n = Len(pieces) + 1
      BY <3>1, <1>5, <1>6, <1>7
    <3>2. CASE n \in 1..Len(pieces)
      BY <3>2, <1>6 DEF ArenaInv, PiecesApart
    <3>3. QED
      BY <3>1, <3>2, <1>6
  <2>3. QED
    BY <2>1, <2>2 DEF PiecesApart, ArenaInv
<1>11. QED
  BY <1>8, <1>9, <1>10 DEF ArenaInv

\* A piece that is taken from a chunk made for it.
LEMMA AddedInv ==
  ASSUME ArenaInv, NEW type \in Types, NEW chunk \in Chunk, Fits(chunk, type),
         chunks' = Append(chunks, [chunk EXCEPT !.top = FinalTop(chunk, type)]),
         pieces' = Append(pieces, Taken(chunk, Len(chunks) + 1, type)), served' = served
  PROVE  ArenaInv'
<1>1. type.size \in Nat \ {0} /\ type.align \in Nat \ {0}
  BY ArenaAssumption
<1>2. chunks \in Seq(Chunk) /\ pieces \in Seq(Piece)
  BY DEF ArenaInv, ArenaTypeOK
<1> DEFINE c == Len(chunks) + 1
           top == FinalTop(chunk, type)
           new == [chunk EXCEPT !.top = top]
           p == Taken(chunk, c, type)
<1>3. top \in Nat /\ top >= chunk.top + type.size /\ top <= chunk.size
  <2>1. AlignedTop(chunk, type.align) \in Nat /\ AlignedTop(chunk, type.align) >= chunk.top
    BY <1>1, TopMovesUp
  <2>2. chunk.top \in Nat
    BY DEF Chunk
  <2>3. QED
    BY <2>1, <2>2, <1>1 DEF FinalTop, Fits
<1>4. new \in Chunk /\ new.top = top /\ new.size = chunk.size
  BY <1>3 DEF Chunk
<1> HIDE DEF top, new
<1>5. /\ chunks' \in Seq(Chunk) /\ Len(chunks') = c /\ chunks'[c] = new
      /\ \A d \in 1..Len(chunks) : chunks'[d] = chunks[d]
  BY <1>2, <1>4, AppendProperties DEF new, top
<1>6. p \in Piece /\ p.in = c /\ p.at = chunk.top /\ p.size = type.size
  BY <1>1, <1>2 DEF Taken, Piece, Chunk
<1>7. /\ pieces' \in Seq(Piece) /\ Len(pieces') = Len(pieces) + 1
      /\ pieces'[Len(pieces) + 1] = p
      /\ \A n \in 1..Len(pieces) : pieces'[n] = pieces[n]
  BY <1>2, <1>6, AppendProperties
<1> HIDE DEF p
<1>8. \A n \in 1..Len(pieces) : pieces[n].in \in 1..Len(chunks) /\ pieces[n].in # c
  BY <1>2 DEF ArenaInv, ArenaTypeOK
<1>9. ArenaTypeOK'
  <2>1. \A d \in DOMAIN chunks' : chunks'[d].top <= chunks'[d].size
    <3>1. \A d \in 1..Len(chunks) : chunks'[d].top <= chunks'[d].size
      BY <1>2, <1>5 DEF ArenaInv, ArenaTypeOK
    <3>2. DOMAIN chunks' = 1..Len(chunks) \cup {c}
      BY <1>2, <1>5
    <3>3. QED
      BY <3>1, <3>2, <1>3, <1>4, <1>5
  <2>2. \A n \in DOMAIN pieces' : pieces'[n].in \in DOMAIN chunks'
    BY <1>2, <1>5, <1>6, <1>7, <1>8
  <2>3. QED
    BY <1>5, <1>7, <2>1, <2>2 DEF ArenaInv, ArenaTypeOK
<1>10. /\ p.at + p.size <= top /\ p.at + p.size <= new.size
  BY <1>1, <1>3, <1>4, <1>6 DEF Chunk
<1>11. \A n \in DOMAIN pieces' :
         /\ pieces'[n].at + pieces'[n].size <= chunks'[pieces'[n].in].top
         /\ pieces'[n].at + pieces'[n].size <= chunks'[pieces'[n].in].size
  <2> SUFFICES ASSUME NEW n \in DOMAIN pieces'
               PROVE  /\ pieces'[n].at + pieces'[n].size <= chunks'[pieces'[n].in].top
                      /\ pieces'[n].at + pieces'[n].size <= chunks'[pieces'[n].in].size
    OBVIOUS
  <2>1. CASE n = Len(pieces) + 1
    BY <2>1, <1>4, <1>5, <1>6, <1>7, <1>10
  <2>2. CASE n \in 1..Len(pieces)
    BY <2>2, <1>2, <1>5, <1>7, <1>8 DEF ArenaInv, PiecesApart
  <2>3. n = Len(pieces) + 1 \/ n \in 1..Len(pieces)
    BY <1>2, <1>7
  <2>4. QED
    BY <2>1, <2>2, <2>3
<1>12. \A n \in DOMAIN pieces' : \A m \in 1..(n - 1) :
         pieces'[m].in = pieces'[n].in => pieces'[m].at + pieces'[m].size <= pieces'[n].at
  <2> SUFFICES ASSUME NEW n \in DOMAIN pieces', NEW m \in 1..(n - 1),
                      pieces'[m].in = pieces'[n].in
               PROVE  pieces'[m].at + pieces'[m].size <= pieces'[n].at
    OBVIOUS
  <2>1. n # Len(pieces) + 1
    BY <1>2, <1>6, <1>7, <1>8
  <2>2. QED
    BY <2>1, <1>2, <1>7 DEF ArenaInv, PiecesApart
<1>13. QED
  BY <1>9, <1>11, <1>12 DEF ArenaInv, PiecesApart

LEMMA NewChunkFits ==
  ASSUME ArenaInv, chunks # <<>>, NEW type \in Types,
         NEW chunk \in NewChunks(NewSize(type), type.align)
  PROVE  chunk \in Chunk /\ chunk.top = 0 /\ Fits(chunk, type)
<1>1. type.size \in Nat /\ type.align \in Nat \ {0}
  BY ArenaAssumption
<1>2. NewSize(type) \in Nat /\ NewSize(type) >= type.size
  <2>1. chunks[1] \in Chunk
    BY DEF ArenaInv, ArenaTypeOK
  <2>2. QED
    BY <2>1, <1>1 DEF NewSize, Chunk
<1>3. /\ chunk \in Chunk /\ chunk.top = 0
      /\ AlignedTop(chunk, type.align) + NewSize(type) <= chunk.size
  BY <1>2, PaddingIsEnough
<1>4. AlignedTop(chunk, type.align) \in Nat /\ chunk.size \in Nat
  BY <1>1, <1>3, TopMovesUp DEF Chunk
<1>5. QED
  BY <1>1, <1>2, <1>3, <1>4 DEF Fits, FinalTop

LEMMA AllocInv ==
  ASSUME ArenaInv, chunks # <<>>, AllocInChunk \/ AllocNewChunk
  PROVE  ArenaInv' /\ chunks' # <<>>
<1>1. CASE AllocInChunk
  <2>1. PICK type \in Types, c \in DOMAIN chunks :
          /\ Fits(chunks[c], type)
          /\ chunks' = [chunks EXCEPT ![c].top = FinalTop(chunks[c], type)]
          /\ pieces' = Append(pieces, Taken(chunks[c], c, type))
          /\ UNCHANGED served
    BY <1>1 DEF AllocInChunk
  <2>2. ArenaInv'
    BY <2>1, TakenInv
  <2>3. DOMAIN chunks' # {}
    BY <2>1
  <2>4. QED
    BY <2>2, <2>3
<1>2. CASE AllocNewChunk
  <2>1. PICK type \in Types :
          \E chunk \in NewChunks(NewSize(type), type.align) :
            IF Fits(chunk, type)
            THEN /\ chunks' = Append(chunks, [chunk EXCEPT !.top = FinalTop(chunk, type)])
                 /\ pieces' = Append(pieces, Taken(chunk, Len(chunks) + 1, type))
                 /\ UNCHANGED served
            ELSE /\ served' = FALSE
                 /\ chunks' = Append(chunks, chunk)
                 /\ UNCHANGED pieces
    BY <1>2 DEF AllocNewChunk
  <2>2. PICK chunk \in NewChunks(NewSize(type), type.align) :
          IF Fits(chunk, type)
          THEN /\ chunks' = Append(chunks, [chunk EXCEPT !.top = FinalTop(chunk, type)])
               /\ pieces' = Append(pieces, Taken(chunk, Len(chunks) + 1, type))
               /\ UNCHANGED served
          ELSE /\ served' = FALSE
               /\ chunks' = Append(chunks, chunk)
               /\ UNCHANGED pieces
    BY <2>1
  <2>3. chunk \in Chunk /\ Fits(chunk, type)
    BY NewChunkFits
  <2>4. ArenaInv'
    BY <2>2, <2>3, AddedInv
  <2>5. chunks' # <<>>
    BY <2>2, <2>3 DEF ArenaInv, ArenaTypeOK
  <2>6. QED
    BY <2>4, <2>5
<1>3. QED
  BY <1>1, <1>2

LEMMA FreeInv == ASSUME ArenaInv, FreeArena PROVE ArenaInv'
BY DEF FreeArena, ArenaInv, ArenaTypeOK, PiecesApart

-----------------------------------------------------------------------------
(***************************************************************************)
(* Divisibility.  No prover multiplies two unknowns by itself: that a      *)
(* multiple leaves no remainder follows from there being only one quotient *)
(* and remainder.                                                          *)
(***************************************************************************)
LEMMA Divided ==
  ASSUME NEW x \in Int, NEW a \in Nat \ {0}
  PROVE  x = a * (x \div a) + (x % a) /\ x % a \in 0..(a - 1) /\ x \div a \in Int
OBVIOUS

LEMMA SmallMultiple ==
  ASSUME NEW a \in Nat \ {0}, NEW d \in Int, NEW r \in 0..(a - 1), a * d = r
  PROVE  r = 0
<1>1. d < 1
  <2>1. SUFFICES ASSUME d >= 1 PROVE FALSE
    OBVIOUS
  <2>2. a * d >= a * 1
    BY <2>1, Z3
  <2>3. QED
    BY <2>2
<1>2. d > -1
  <2>1. SUFFICES ASSUME d <= -1 PROVE FALSE
    OBVIOUS
  <2>2. a * d <= a * (-1)
    BY <2>1, Z3
  <2>3. QED
    BY <2>2
<1>3. d = 0
  BY <1>1, <1>2
<1>4. QED
  BY <1>3

LEMMA MultipleDivides ==
  ASSUME NEW a \in Nat \ {0}, NEW k \in Int
  PROVE  (a * k) % a = 0
<1> DEFINE q == (a * k) \div a
           r == (a * k) % a
<1>1. a * k = a * q + r /\ r \in 0..(a - 1) /\ q \in Int
  <2>1. a * k \in Int
    OBVIOUS
  <2>2. QED
    BY <2>1, Divided
<1> HIDE DEF q, r
<1>2. a * (k - q) = r
  BY <1>1
<1>3. r = 0
  BY <1>1, <1>2, SmallMultiple
<1>4. QED
  BY <1>3 DEF r

LEMMA Multiple ==
  ASSUME NEW x \in Int, NEW a \in Nat \ {0}, x % a = 0
  PROVE  \E k \in Int : x = a * k
OBVIOUS

LEMMA SumDivides ==
  ASSUME NEW x \in Int, NEW y \in Int, NEW a \in Nat \ {0}, x % a = 0, y % a = 0
  PROVE  (x + y) % a = 0
<1>1. PICK k \in Int : x = a * k
  BY Multiple
<1>2. PICK l \in Int : y = a * l
  BY Multiple
<1>3. x + y = a * (k + l)
  BY <1>1, <1>2
<1>4. QED
  BY <1>3, MultipleDivides

LEMMA DividesThrough ==
  ASSUME NEW x \in Int, NEW b \in Nat \ {0}, NEW a \in Nat \ {0}, x % b = 0, b % a = 0
  PROVE  x % a = 0
<1>1. PICK k \in Int : x = b * k
  BY Multiple
<1>2. PICK l \in Int : b = a * l
  BY Multiple
<1>3. x = a * (l * k)
  BY <1>1, <1>2
<1>4. l * k \in Int
  OBVIOUS
<1>5. QED
  BY <1>3, <1>4, MultipleDivides

LEMMA RoundedUp ==
  ASSUME NEW x \in Nat, NEW b \in Nat \ {0}
  PROVE  (x + b - (x % b)) % b = 0
<1> DEFINE k == x \div b
           r == x % b
<1>1. x = b * k + r /\ k \in Int /\ r \in Int
  BY Divided
<1> HIDE DEF k, r
<1>2. x + b - r = b * (k + 1)
  BY <1>1
<1>3. (x + b - r) % b = 0
  BY <1>1, <1>2, MultipleDivides
<1>4. QED
  BY <1>3 DEF r

LEMMA SmallerDivides ==
  ASSUME NEW a \in Nat \ {0}, NEW b \in Nat \ {0}, a <= b, a % b = 0 \/ b % a = 0
  PROVE  b % a = 0
OBVIOUS

-----------------------------------------------------------------------------
(***************************************************************************)
(* Where pieces are misaligned.  MisalignedExplained is not inductive: it  *)
(* does not say that the top of a chunk is aligned as long as every size   *)
(* was, nor what the base of a chunk is aligned for.                       *)
(***************************************************************************)
Alignments == {t.align : t \in Types}

IsFirst(n, c) ==
  /\ pieces[n].in = c
  /\ \A m \in 1..(n - 1) : pieces[m].in # c

TopAt(c) == chunks[c].base + MetaSize + chunks[c].top

\* As long as every size is a multiple of a, the top is.
Straight(c, a) ==
  /\ a <= MetaSize
  /\ chunks[c].base % a = 0
  /\ \A n \in DOMAIN pieces : pieces[n].in = c => pieces[n].size % a = 0
  => TopAt(c) % a = 0

AlignInv ==
  /\ \A n \in DOMAIN pieces : pieces[n].align \in Alignments
  /\ \A c \in DOMAIN chunks : c # 1 => \E n \in DOMAIN pieces : IsFirst(n, c)
  /\ \A c \in DOMAIN chunks, a \in Alignments :
       a <= ArenaAlign \/ a <= MadeFor(c) => chunks[c].base % a = 0
  /\ \A c \in DOMAIN chunks, a \in Alignments : Straight(c, a)
  /\ MisalignedExplained

LEMMA AlignmentsAre ==
  /\ Alignments \subseteq Nat \ {0}
  /\ \A a, b \in Alignments : a % b = 0 \/ b % a = 0
  /\ \A a \in Alignments : a <= MetaSize => MetaSize % a = 0
  /\ \A a \in Alignments : a <= ArenaAlign => ArenaAlign % a = 0
<1>1. Alignments \subseteq Nat \ {0}
  BY ArenaAssumption DEF Alignments
<1>2. \A a, b \in Alignments : a % b = 0 \/ b % a = 0
  BY AlignmentsNest DEF Alignments
<1>3. ASSUME NEW a \in Alignments, a <= MetaSize
      PROVE  MetaSize % a = 0
  <2>1. MetaSize % a = 0 \/ a % MetaSize = 0
    BY AlignmentsNest DEF Alignments
  <2>2. a \in Nat \ {0} /\ MetaSize \in Nat \ {0}
    BY <1>1 DEF MetaSize
  <2>3. QED
    BY <2>1, <2>2, <1>3, SmallerDivides
<1>4. ASSUME NEW a \in Alignments, a <= ArenaAlign
      PROVE  ArenaAlign % a = 0
  <2>1. ArenaAlign % a = 0 \/ a % ArenaAlign = 0
    BY ArenaAssumption DEF Alignments
  <2>2. a \in Nat \ {0} /\ ArenaAlign \in Nat \ {0}
    BY <1>1 DEF ArenaAlign
  <2>3. QED
    BY <2>1, <2>2, <1>4, SmallerDivides
<1>5. QED
  BY <1>1, <1>2, <1>3, <1>4

\* A base aligned for b is aligned for what the chunk is said to be made for.
LEMMA BaseIsFor ==
  ASSUME NEW base \in Nat, NEW b \in Alignments, base % AllocAlign(b) = 0,
         NEW a \in Alignments, a <= ArenaAlign \/ a <= b
  PROVE  base % a = 0
<1>1. a \in Nat \ {0} /\ b \in Nat \ {0} /\ ArenaAlign \in Nat \ {0}
  BY AlignmentsAre DEF ArenaAlign
<1>2. AllocAlign(b) \in Nat \ {0} /\ AllocAlign(b) % a = 0
  <2>1. CASE b < ArenaAlign
    <3>1. a <= ArenaAlign
      BY <2>1, <1>1
    <3>2. QED
      BY <2>1, <3>1, <1>1, AlignmentsAre DEF AllocAlign
  <2>2. CASE ~(b < ArenaAlign)
    <3>1. a <= b
      BY <2>2, <1>1
    <3>2. b % a = 0
      BY <3>1, <1>1, AlignmentsAre, SmallerDivides
    <3>3. QED
      BY <2>2, <3>2, <1>1 DEF AllocAlign
  <2>3. QED
    BY <2>1, <2>2
<1>3. QED
  BY <1>1, <1>2, DividesThrough

LEMMA RoundedUpStays ==
  ASSUME NEW x \in Nat, NEW a \in Nat \ {0}, NEW b \in Nat \ {0},
         x % a = 0, a % b = 0 \/ b % a = 0, x % b # 0
  PROVE  (x + b - (x % b)) % a = 0
<1>1. a % b # 0
  <2>1. x \in Int
    OBVIOUS
  <2>2. QED
    BY <2>1, DividesThrough, Zenon
<1>2. b % a = 0
  BY <1>1
<1>3. (x + b - (x % b)) % b = 0
  BY RoundedUp, Zenon
<1>4. x + b - (x % b) \in Int
  <2>1. x % b \in 0..(b - 1)
    BY Remainder
  <2>2. QED
    BY <2>1
<1>5. QED
  BY <1>2, <1>3, <1>4, DividesThrough, Zenon

\* Taking a piece keeps the top a multiple of a, whatever the piece is aligned for.
LEMMA TopStaysStraight ==
  ASSUME NEW chunk \in Chunk, NEW type \in Types, NEW a \in Alignments,
         (chunk.base + MetaSize + chunk.top) % a = 0, type.size % a = 0
  PROVE  (chunk.base + MetaSize + FinalTop(chunk, type)) % a = 0
<1>1. PICK base, top, x, b, s :
        /\ base = chunk.base /\ top = chunk.top /\ x = base + MetaSize + top
        /\ b = type.align /\ s = type.size
  OBVIOUS
<1>2. /\ base \in Nat /\ top \in Nat /\ MetaSize \in Nat /\ x \in Nat
      /\ a \in Nat \ {0} /\ b \in Nat \ {0} /\ s \in Nat
  <2>1. base \in Nat /\ top \in Nat /\ MetaSize \in Nat
    BY <1>1 DEF Chunk, MetaSize
  <2>2. a \in Nat \ {0} /\ b \in Nat \ {0} /\ s \in Nat
    BY <1>1, AlignmentsAre, ArenaAssumption
  <2>3. QED
    BY <1>1, <2>1, <2>2
<1>3. x % a = 0 /\ s % a = 0 /\ (a % b = 0 \/ b % a = 0)
  BY <1>1, AlignmentsAre, Zenon DEF Alignments
<1>4. FinalTop(chunk, type) = (IF x % b = 0 THEN top ELSE top + b - (x % b)) + s
  BY <1>1 DEF FinalTop, AlignedTop
<1>5. CASE x % b = 0
  <2>1. base + MetaSize + FinalTop(chunk, type) = x + s
    BY <1>1, <1>2, <1>4, <1>5
  <2>2. x \in Int /\ s \in Int
    BY <1>2
  <2>3. (x + s) % a = 0
    BY <1>2, <1>3, <2>2, SumDivides, Zenon
  <2>4. QED
    BY <1>1, <2>1, <2>3, Zenon
<1>6. CASE x % b # 0
  <2>1. PICK y : y = x + b - (x % b)
    OBVIOUS
  <2>2. x % b \in 0..(b - 1)
    BY <1>2, Remainder
  <2>3. y \in Int /\ s \in Int
    BY <1>2, <2>1, <2>2
  <2>4. base + MetaSize + FinalTop(chunk, type) = y + s
    BY <1>1, <1>2, <1>4, <1>6, <2>1, <2>2
  <2>5. y % a = 0
    BY <1>2, <1>3, <1>6, <2>1, RoundedUpStays, Zenon
  <2>6. (y + s) % a = 0
    BY <1>2, <1>3, <2>3, <2>5, SumDivides, Zenon
  <2>7. QED
    BY <1>1, <2>4, <2>6, Zenon
<1>7. QED
  BY <1>5, <1>6

LEMMA FirstIs ==
  ASSUME NEW s \in Seq(Piece), NEW c \in Nat, NEW n \in DOMAIN s,
         s[n].in = c, \A m \in 1..(n - 1) : s[m].in # c
  PROVE  n = CHOOSE k \in DOMAIN s : s[k].in = c /\ \A m \in 1..(k - 1) : s[m].in # c
<1> DEFINE P(k) == s[k].in = c /\ \A m \in 1..(k - 1) : s[m].in # c
<1>1. \A k \in DOMAIN s : P(k) => k = n
  <2> SUFFICES ASSUME NEW k \in DOMAIN s, P(k), k # n PROVE FALSE
    OBVIOUS
  <2>1. k \in Nat /\ n \in Nat /\ k > 0 /\ n > 0
    OBVIOUS
  <2>2. k \in 1..(n - 1) \/ n \in 1..(k - 1)
    BY <2>1
  <2>3. QED
    BY <2>2
<1>2. P(n)
  OBVIOUS
<1> HIDE DEF P
<1>3. n = CHOOSE k \in DOMAIN s : P(k)
  BY <1>1, <1>2
<1>4. QED
  BY <1>3 DEF P

\* The piece p is appended, from the chunk c that was there or is new.  It is taken
\* from the top; a new chunk is aligned for it; an aligned top stays aligned.
PieceFrom(c, p) ==
  /\ p.in = c /\ p.align \in Alignments
  /\ pieces' = Append(pieces, p)
  /\ chunks' \in Seq(Chunk) /\ DOMAIN chunks' = DOMAIN chunks \cup {c}
  /\ \A d \in DOMAIN chunks : chunks'[d].base = chunks[d].base
  /\ \A d \in DOMAIN chunks \ {c} : chunks'[d].top = chunks[d].top
  /\ c \in DOMAIN chunks => p.at = chunks[c].top
  /\ c \notin DOMAIN chunks => p.at = 0 /\ chunks'[c].base % AllocAlign(p.align) = 0
  /\ \A a \in Alignments :
       (chunks'[c].base + MetaSize + p.at) % a = 0 /\ p.size % a = 0
         => (chunks'[c].base + MetaSize + chunks'[c].top) % a = 0

LEMMA AlignedWithPiece ==
  ASSUME AlignInv, pieces \in Seq(Piece), chunks \in Seq(Chunk), chunks # <<>>,
         \A n \in DOMAIN pieces : pieces[n].in \in DOMAIN chunks,
         NEW c \in Nat \ {0}, NEW p \in Piece, PieceFrom(c, p)
  PROVE  AlignInv'
<1> USE DEF PieceFrom
<1>0. PICK N : N = Len(pieces) + 1
  OBVIOUS
<1>1. /\ DOMAIN pieces = 1..Len(pieces) /\ Len(pieces) \in Nat
      /\ pieces' \in Seq(Piece) /\ DOMAIN pieces' = 1..N /\ pieces'[N] = p
      /\ \A n \in DOMAIN pieces : n \in DOMAIN pieces' /\ pieces'[n] = pieces[n]
  <2>1. /\ pieces' \in Seq(Piece) /\ Len(pieces') = N /\ pieces'[N] = p
        /\ \A n \in 1..Len(pieces) : pieces'[n] = pieces[n]
    BY <1>0, AppendProperties
  <2>2. QED
    BY <1>0, <2>1
<1>2. 1 \in DOMAIN chunks
  OBVIOUS
<1>3. \A d \in DOMAIN chunks \ {1} :
        /\ \E n \in DOMAIN pieces' : IsFirst(n, d)'
        /\ MadeFor(d)' = MadeFor(d)
  <2> SUFFICES ASSUME NEW d \in DOMAIN chunks \ {1}
               PROVE  /\ \E n \in DOMAIN pieces' : IsFirst(n, d)'
                      /\ MadeFor(d)' = MadeFor(d)
    OBVIOUS
  <2>1. PICK n \in DOMAIN pieces : IsFirst(n, d)
    BY DEF AlignInv
  <2>2. /\ n \in DOMAIN pieces' /\ pieces'[n].in = d /\ pieces'[n] = pieces[n]
        /\ \A m \in 1..(n - 1) : pieces'[m].in # d
    <3>1. \A m \in 1..(n - 1) : m \in DOMAIN pieces
      BY <1>1
    <3>2. QED
      BY <1>1, <2>1, <3>1 DEF IsFirst
  <2>3. d \in Nat /\ d # 1
    OBVIOUS
  <2>4. MadeFor(d) = pieces[n].align
    <3>1. n = CHOOSE k \in DOMAIN pieces :
                pieces[k].in = d /\ \A m \in 1..(k - 1) : pieces[m].in # d
      BY <2>1, <2>3, FirstIs DEF IsFirst
    <3>2. QED
      BY <2>3, <3>1 DEF MadeFor
  <2>5. MadeFor(d)' = pieces'[n].align
    <3>1. n = CHOOSE k \in DOMAIN pieces' :
                pieces'[k].in = d /\ \A m \in 1..(k - 1) : pieces'[m].in # d
      BY <1>1, <2>2, <2>3, FirstIs
    <3>2. QED
      BY <2>3, <3>1 DEF MadeFor
  <2>6. QED
    BY <2>2, <2>4, <2>5 DEF IsFirst
<1>4. c \notin DOMAIN chunks =>
        /\ c # 1 /\ N \in DOMAIN pieces' /\ IsFirst(N, c)' /\ MadeFor(c)' = p.align
  <2> SUFFICES ASSUME c \notin DOMAIN chunks
               PROVE  c # 1 /\ N \in DOMAIN pieces' /\ IsFirst(N, c)' /\ MadeFor(c)' = p.align
    OBVIOUS
  <2>1. c # 1
    BY <1>2
  <2>2. N \in DOMAIN pieces' /\ pieces'[N].in = c /\ \A m \in 1..(N - 1) : pieces'[m].in # c
    <3>1. N \in 1..N /\ N - 1 = Len(pieces)
      BY <1>0, <1>1
    <3>2. \A m \in 1..Len(pieces) : pieces'[m].in # c
      BY <1>1
    <3>3. QED
      BY <3>1, <3>2, <1>1
  <2>3. N = CHOOSE k \in DOMAIN pieces' :
              pieces'[k].in = c /\ \A m \in 1..(k - 1) : pieces'[m].in # c
    <3>1. QED
      BY <1>1, <2>2, FirstIs
  <2>4. QED
    <3>1. MadeFor(c)' = pieces'[N].align
      BY <2>1, <2>3 DEF MadeFor
    <3>2. QED
      BY <1>1, <2>1, <2>2, <3>1 DEF IsFirst
<1>5. \A d \in DOMAIN chunks : MadeFor(d)' = MadeFor(d)
  <2>1. MadeFor(1)' = MadeFor(1)
    BY DEF MadeFor
  <2>2. QED
    BY <1>3, <2>1
<1>6. \A d \in DOMAIN chunks', a \in Alignments :
        a <= ArenaAlign \/ a <= MadeFor(d)' => chunks'[d].base % a = 0
  <2> SUFFICES ASSUME NEW d \in DOMAIN chunks', NEW a \in Alignments,
                      a <= ArenaAlign \/ a <= MadeFor(d)'
               PROVE  chunks'[d].base % a = 0
    OBVIOUS
  <2>1. CASE d \in DOMAIN chunks
    <3>1. a <= ArenaAlign \/ a <= MadeFor(d)
      BY <2>1, <1>5
    <3>2. chunks[d].base % a = 0
      BY <2>1, <3>1 DEF AlignInv
    <3>3. QED
      BY <2>1, <3>2
  <2>2. CASE d \notin DOMAIN chunks
    <3>1. d = c /\ MadeFor(c)' = p.align
      BY <2>2, <1>4
    <3>2. chunks'[c].base \in Nat /\ chunks'[c].base % AllocAlign(p.align) = 0
      <4>1. chunks'[c] \in Chunk
        OBVIOUS
      <4>2. QED
        BY <2>2, <3>1, <4>1 DEF Chunk
    <3>3. QED
      BY <3>1, <3>2, BaseIsFor
  <2>3. QED
    BY <2>1, <2>2
\* The top that the piece was taken from.
<1>7. ASSUME NEW a \in Alignments, a <= MetaSize, chunks'[c].base % a = 0,
             \A n \in DOMAIN pieces : pieces[n].in = c => pieces[n].size % a = 0
      PROVE  (chunks'[c].base + MetaSize + p.at) % a = 0
  <2>1. CASE c \in DOMAIN chunks
    <3>1. Straight(c, a)
      BY <2>1 DEF AlignInv
    <3>2. chunks[c].base % a = 0 /\ p.at = chunks[c].top /\ chunks'[c].base = chunks[c].base
      BY <2>1, <1>7
    <3>3. QED
      BY <1>7, <3>1, <3>2 DEF Straight, TopAt
  <2>2. CASE c \notin DOMAIN chunks
    <3>1. p.at = 0 /\ chunks'[c].base \in Nat /\ MetaSize \in Nat /\ a \in Nat \ {0}
      <4>1. chunks'[c] \in Chunk
        OBVIOUS
      <4>2. a \in Nat \ {0}
        BY AlignmentsAre
      <4>3. QED
        BY <2>2, <4>1, <4>2 DEF Chunk, MetaSize
    <3>2. MetaSize % a = 0
      BY <1>7, AlignmentsAre
    <3>3. PICK base : base = chunks'[c].base
      OBVIOUS
    <3>4. base \in Int /\ MetaSize \in Int /\ base % a = 0
      BY <1>7, <3>1, <3>3
    <3>5. (base + MetaSize) % a = 0
      BY <3>1, <3>2, <3>4, SumDivides, Zenon
    <3>6. base + MetaSize + p.at = base + MetaSize
      BY <3>1, <3>4
    <3>7. QED
      BY <3>3, <3>5, <3>6, Zenon
  <2>3. QED
    BY <2>1, <2>2
<1>8. \A d \in DOMAIN chunks', a \in Alignments : Straight(d, a)'
  <2> SUFFICES ASSUME NEW d \in DOMAIN chunks', NEW a \in Alignments,
                      a <= MetaSize, chunks'[d].base % a = 0,
                      \A n \in DOMAIN pieces' : pieces'[n].in = d => pieces'[n].size % a = 0
               PROVE  (chunks'[d].base + MetaSize + chunks'[d].top) % a = 0
    BY DEF Straight, TopAt
  <2>1. \A n \in DOMAIN pieces : pieces[n].in = d => pieces[n].size % a = 0
    BY <1>1
  <2>2. CASE d = c
    <3>1. p.size % a = 0
      <4>1. N \in DOMAIN pieces'
        BY <1>0, <1>1
      <4>2. QED
        BY <2>2, <4>1, <1>1
    <3>2. (chunks'[c].base + MetaSize + p.at) % a = 0
      BY <2>1, <2>2, <1>7
    <3>3. QED
      BY <2>2, <3>1, <3>2
  <2>3. CASE d # c
    <3>1. d \in DOMAIN chunks /\ chunks'[d].base = chunks[d].base /\ chunks'[d].top = chunks[d].top
      BY <2>3
    <3>2. Straight(d, a)
      BY <3>1 DEF AlignInv
    <3>3. QED
      BY <2>1, <3>1, <3>2 DEF Straight, TopAt
  <2>4. QED
    BY <2>2, <2>3
<1>9. MisalignedExplained'
  <2> SUFFICES ASSUME NEW n \in DOMAIN pieces', NEW d \in DOMAIN chunks',
                      pieces'[n].in = d,
                      (chunks'[pieces'[n].in].base + MetaSize + pieces'[n].at) % pieces'[n].align # 0,
                      ~(pieces'[n].align > MetaSize),
                      ~(pieces'[n].align > ArenaAlign /\ pieces'[n].align > MadeFor(d)')
               PROVE  \E m \in 1..(n - 1) :
                        pieces'[m].in = d /\ pieces'[m].size % pieces'[n].align # 0
    BY DEF MisalignedExplained, Misaligned
  <2>1. CASE n \in DOMAIN pieces
    <3>1. pieces'[n] = pieces[n] /\ pieces[n].in = d /\ d \in DOMAIN chunks
      BY <2>1, <1>1
    <3>2. chunks'[d].base = chunks[d].base /\ MadeFor(d)' = MadeFor(d)
      BY <3>1, <1>5
    <3>3. Misaligned(pieces[n])
      BY <3>1, <3>2 DEF Misaligned
    <3>4. /\ ~(pieces[n].align > MetaSize)
          /\ ~(pieces[n].align > ArenaAlign /\ pieces[n].align > MadeFor(d))
      BY <3>1, <3>2, Zenon
    <3>5. \E m \in 1..(n - 1) : pieces[m].in = d /\ pieces[m].size % pieces[n].align # 0
      BY <2>1, <3>1, <3>3, <3>4, Zenon DEF AlignInv, MisalignedExplained
    <3>6. \A m \in 1..(n - 1) : m \in DOMAIN pieces
      BY <2>1, <1>1
    <3>7. QED
      BY <3>1, <3>5, <3>6, <1>1
  <2>2. CASE n \notin DOMAIN pieces
    <3>1. n = N /\ pieces'[n] = p /\ d = c
      BY <2>2, <1>0, <1>1
    <3>2. PICK a : a = p.align
      OBVIOUS
    <3>3. a \in Alignments /\ a \in Nat \ {0}
      BY <3>2, AlignmentsAre
    <3>4. a <= MetaSize /\ (a <= ArenaAlign \/ a <= MadeFor(c)')
      <4>1. MetaSize \in Nat /\ ArenaAlign \in Nat
        BY DEF MetaSize, ArenaAlign
      <4>2. MadeFor(c)' \in Nat
        <5>1. CASE c = 1
          BY <5>1, <4>1 DEF MadeFor
        <5>2. CASE c # 1 /\ c \in DOMAIN chunks
          <6>1. PICK k \in DOMAIN pieces' : IsFirst(k, c)'
            BY <5>2, <1>3
          <6>2. k = CHOOSE j \in DOMAIN pieces' :
                      pieces'[j].in = c /\ \A m \in 1..(j - 1) : pieces'[m].in # c
            BY <6>1, <1>1, FirstIs DEF IsFirst
          <6>3. MadeFor(c)' = pieces'[k].align
            BY <5>2, <6>2 DEF MadeFor
          <6>4. QED
            <7>1. pieces'[k] \in Piece
              <8>1. \A q \in Seq(Piece) : \A j \in DOMAIN q : q[j] \in Piece
                OBVIOUS
              <8>2. QED
                BY <8>1, <1>1, Zenon
            <7>2. QED
              BY <7>1, <6>3 DEF Piece
        <5>3. CASE c \notin DOMAIN chunks
          BY <5>3, <1>4, <3>2, <3>3
        <5>4. QED
          BY <5>1, <5>2, <5>3
      <4>3. QED
        <5>1. ~(a > MetaSize) /\ ~(a > ArenaAlign /\ a > MadeFor(c)')
          BY <3>1, <3>2, Zenon
        <5>2. QED
          BY <5>1, <3>3, <4>1, <4>2
    <3>5. chunks'[c].base % a = 0
      BY <3>3, <3>4, <1>6
    <3>6. ~((chunks'[c].base + MetaSize + p.at) % a = 0)
      BY <3>1, <3>2
    <3>7. PICK m \in DOMAIN pieces : pieces[m].in = c /\ pieces[m].size % a # 0
      BY <3>3, <3>4, <3>5, <3>6, <1>7
    <3>8. m \in 1..(n - 1) /\ pieces'[m] = pieces[m]
      BY <3>1, <3>7, <1>0, <1>1
    <3>9. QED
      BY <3>1, <3>2, <3>7, <3>8
  <2>3. QED
    BY <2>1, <2>2
<1>10. \A n \in DOMAIN pieces' : pieces'[n].align \in Alignments
  BY <1>0, <1>1 DEF AlignInv
<1>11. \A d \in DOMAIN chunks' : d # 1 => \E n \in DOMAIN pieces' : IsFirst(n, d)'
  <2> SUFFICES ASSUME NEW d \in DOMAIN chunks', d # 1
               PROVE  \E n \in DOMAIN pieces' : IsFirst(n, d)'
    OBVIOUS
  <2>1. CASE d \in DOMAIN chunks
    BY <2>1, <1>3
  <2>2. CASE d \notin DOMAIN chunks
    <3>1. d = c
      BY <2>2
    <3>2. QED
      BY <2>2, <3>1, <1>4, Zenon
  <2>3. QED
    BY <2>1, <2>2
<1>12. QED
  BY <1>6, <1>8, <1>9, <1>10, <1>11 DEF AlignInv

LEMMA AlignInit == ASSUME ArenaInit PROVE AlignInv
<1>1. PICK chunk \in NewChunks(Capacity, 1) : chunks = <<chunk>>
  BY DEF ArenaInit
<1>2. chunk.base \in Nat /\ chunk.top = 0 /\ chunk.base % ArenaAlign = 0
  BY <1>1, ArenaAssumption DEF NewChunks, AllocAlign, ArenaAlign
<1>3. pieces = <<>> /\ DOMAIN chunks = {1} /\ chunks[1] = chunk
  BY <1>1 DEF ArenaInit
<1>4. ASSUME NEW a \in Alignments, a <= ArenaAlign PROVE chunk.base % a = 0
  <2>1. a \in Nat \ {0} /\ ArenaAlign \in Nat \ {0} /\ ArenaAlign % a = 0
    BY <1>4, AlignmentsAre DEF ArenaAlign
  <2>2. chunk.base \in Int
    BY <1>2
  <2>3. QED
    BY <1>2, <2>1, <2>2, DividesThrough, Zenon
<1>5. ASSUME NEW a \in Alignments, a <= MetaSize, chunk.base % a = 0
      PROVE  (chunk.base + MetaSize + chunk.top) % a = 0
  <2>1. PICK base : base = chunk.base
    OBVIOUS
  <2>2. a \in Nat \ {0} /\ MetaSize % a = 0
    BY <1>5, AlignmentsAre
  <2>3. base \in Int /\ MetaSize \in Int /\ base + MetaSize + chunk.top = base + MetaSize
    BY <1>2, <2>1 DEF MetaSize
  <2>4. (base + MetaSize) % a = 0
    BY <1>5, <2>1, <2>2, <2>3, SumDivides, Zenon
  <2>5. QED
    BY <2>1, <2>3, <2>4, Zenon
<1>6. \A a \in Alignments : Straight(1, a)
  BY <1>3, <1>5 DEF Straight, TopAt
<1>7. \A a \in Alignments : a <= ArenaAlign \/ a <= MadeFor(1) => chunks[1].base % a = 0
  BY <1>3, <1>4 DEF MadeFor
<1>8. QED
  BY <1>3, <1>6, <1>7 DEF AlignInv, MisalignedExplained

LEMMA AlignTaken ==
  ASSUME ArenaInv, AlignInv, chunks # <<>>, NEW c \in DOMAIN chunks, NEW type \in Types,
         Fits(chunks[c], type),
         chunks' = [chunks EXCEPT ![c].top = FinalTop(chunks[c], type)],
         pieces' = Append(pieces, Taken(chunks[c], c, type)), served' = served
  PROVE  AlignInv'
<1>1. ArenaInv'
  BY TakenInv
<1>2. /\ chunks \in Seq(Chunk) /\ pieces \in Seq(Piece) /\ chunks' \in Seq(Chunk)
      /\ \A n \in DOMAIN pieces : pieces[n].in \in DOMAIN chunks
  BY <1>1 DEF ArenaInv, ArenaTypeOK
<1>3. c \in Nat \ {0} /\ chunks[c] \in Chunk
  BY <1>2
<1>4. /\ DOMAIN chunks' = DOMAIN chunks \cup {c}
      /\ chunks'[c].top = FinalTop(chunks[c], type) /\ chunks'[c].base = chunks[c].base
      /\ \A d \in DOMAIN chunks \ {c} : chunks'[d] = chunks[d]
  BY <1>2, <1>3 DEF Chunk
<1>5. PICK p : p = Taken(chunks[c], c, type)
  OBVIOUS
<1>6. /\ p \in Piece /\ p.in = c /\ p.at = chunks[c].top /\ p.size = type.size
      /\ p.align = type.align
  BY <1>3, <1>5, ArenaAssumption DEF Taken, Piece, Chunk
<1>7. p.align \in Alignments
  BY <1>6 DEF Alignments
<1>8. \A a \in Alignments :
        (chunks'[c].base + MetaSize + p.at) % a = 0 /\ p.size % a = 0
          => (chunks'[c].base + MetaSize + chunks'[c].top) % a = 0
  <2>1. PICK chunk : chunk = chunks[c]
    OBVIOUS
  <2>2. /\ chunk \in Chunk /\ chunks'[c].base = chunk.base /\ p.at = chunk.top
        /\ chunks'[c].top = FinalTop(chunk, type)
    BY <1>3, <1>4, <1>6, <2>1
  <2>3. QED
    BY <1>6, <2>2, TopStaysStraight, Zenon
<1>9. \A d \in DOMAIN chunks : chunks'[d].base = chunks[d].base
  BY <1>4
<1>10. pieces' = Append(pieces, p)
  BY <1>5
<1>11. c \in DOMAIN chunks => p.at = chunks[c].top
  BY <1>6
<1>12. \A d \in DOMAIN chunks \ {c} : chunks'[d].top = chunks[d].top
  BY <1>4
<1>13. c \notin DOMAIN chunks => p.at = 0 /\ chunks'[c].base % AllocAlign(p.align) = 0
  OBVIOUS
<1>14. DOMAIN chunks' = DOMAIN chunks \cup {c}
  BY <1>4
<1>15. PieceFrom(c, p)
  BY <1>2, <1>6, <1>7, <1>8, <1>9, <1>10, <1>11, <1>12, <1>13, <1>14, Zenon DEF PieceFrom
<1>16. QED
  BY <1>2, <1>3, <1>6, <1>15, AlignedWithPiece, Zenon

LEMMA AlignAdded ==
  ASSUME ArenaInv, AlignInv, chunks # <<>>, NEW type \in Types,
         NEW chunk \in NewChunks(NewSize(type), type.align),
         chunks' = Append(chunks, [chunk EXCEPT !.top = FinalTop(chunk, type)]),
         pieces' = Append(pieces, Taken(chunk, Len(chunks) + 1, type)), served' = served
  PROVE  AlignInv'
<1>1. chunk \in Chunk /\ chunk.top = 0 /\ Fits(chunk, type)
  BY NewChunkFits
<1>2. ArenaInv'
  BY <1>1, AddedInv
<1>3. /\ chunks \in Seq(Chunk) /\ pieces \in Seq(Piece) /\ chunks' \in Seq(Chunk)
      /\ \A n \in DOMAIN pieces : pieces[n].in \in DOMAIN chunks
  BY <1>2 DEF ArenaInv, ArenaTypeOK
<1>4. PICK c : c = Len(chunks) + 1
  OBVIOUS
<1>5. c \in Nat \ {0} /\ c \notin DOMAIN chunks
  BY <1>3, <1>4
<1>6. PICK new : new = [chunk EXCEPT !.top = FinalTop(chunk, type)]
  OBVIOUS
<1>7. new.top = FinalTop(chunk, type) /\ new.base = chunk.base
  BY <1>1, <1>6 DEF Chunk
<1>8. chunks' = Append(chunks, new)
  BY <1>6
<1>9. /\ DOMAIN chunks' = DOMAIN chunks \cup {c} /\ chunks'[c] = new
      /\ \A d \in DOMAIN chunks : chunks'[d] = chunks[d]
  BY <1>3, <1>4, <1>8
<1>10. PICK p : p = Taken(chunk, c, type)
  OBVIOUS
<1>11. /\ p \in Piece /\ p.in = c /\ p.at = 0 /\ p.size = type.size
       /\ p.align = type.align
  BY <1>1, <1>5, <1>10, ArenaAssumption DEF Taken, Piece, Chunk
<1>12. p.align \in Alignments
  BY <1>11 DEF Alignments
<1>13. \A a \in Alignments :
         (chunks'[c].base + MetaSize + p.at) % a = 0 /\ p.size % a = 0
           => (chunks'[c].base + MetaSize + chunks'[c].top) % a = 0
  <2>1. chunks'[c].base = chunk.base /\ p.at = chunk.top
        /\ chunks'[c].top = FinalTop(chunk, type)
    BY <1>1, <1>7, <1>9, <1>11
  <2>2. QED
    BY <1>1, <1>11, <2>1, TopStaysStraight, Zenon
<1>14. \A d \in DOMAIN chunks : chunks'[d].base = chunks[d].base
  BY <1>9
<1>15. pieces' = Append(pieces, p)
  BY <1>4, <1>10
<1>16. c \in DOMAIN chunks => p.at = chunks[c].top
  BY <1>5
<1>17. \A d \in DOMAIN chunks \ {c} : chunks'[d].top = chunks[d].top
  BY <1>9
<1>18. c \notin DOMAIN chunks => p.at = 0 /\ chunks'[c].base % AllocAlign(p.align) = 0
  BY <1>7, <1>9, <1>11 DEF NewChunks
<1>19. PieceFrom(c, p)
  BY <1>3, <1>9, <1>11, <1>12, <1>13, <1>14, <1>15, <1>16, <1>17, <1>18, Zenon
  DEF PieceFrom
<1>20. QED
  BY <1>3, <1>5, <1>11, <1>19, AlignedWithPiece, Zenon

LEMMA AlignAlloc ==
  ASSUME ArenaInv, AlignInv, chunks # <<>>, AllocInChunk \/ AllocNewChunk
  PROVE  AlignInv'
<1>1. CASE AllocInChunk
  BY <1>1, AlignTaken DEF AllocInChunk
<1>2. CASE AllocNewChunk
  <2>1. PICK type \in Types :
          \E chunk \in NewChunks(NewSize(type), type.align) :
            IF Fits(chunk, type)
            THEN /\ chunks' = Append(chunks, [chunk EXCEPT !.top = FinalTop(chunk, type)])
                 /\ pieces' = Append(pieces, Taken(chunk, Len(chunks) + 1, type))
                 /\ UNCHANGED served
            ELSE /\ served' = FALSE
                 /\ chunks' = Append(chunks, chunk)
                 /\ UNCHANGED pieces
    BY <1>2 DEF AllocNewChunk
  <2>2. QED
    BY <2>1, NewChunkFits, AlignAdded
<1>3. QED
  BY <1>1, <1>2

LEMMA AlignFree == ASSUME FreeArena PROVE AlignInv'
BY DEF FreeArena, AlignInv, MisalignedExplained

LEMMA AlignKept == ASSUME AlignInv, UNCHANGED <<chunks, pieces>> PROVE AlignInv'
<1>1. \A c : MadeFor(c)' = MadeFor(c)
  BY DEF MadeFor
<1>2. QED
  BY <1>1 DEF AlignInv, MisalignedExplained, Misaligned, IsFirst, Straight, TopAt

-----------------------------------------------------------------------------
(***************************************************************************)
(* The pool.  TypeOK and FreedOnce hold because every vector and keymap is *)
(* in a slot of its own that it knows, and a slot is that of one of them.  *)
(***************************************************************************)
HeapIs ==
  /\ heap = {registries[kind].at : kind \in Kinds} \cup {vecs[v].at : v \in DOMAIN vecs}
  /\ registries["vectors"].at # registries["keymaps"].at
  /\ \A v \in DOMAIN vecs : \A kind \in Kinds : vecs[v].at # registries[kind].at
  /\ \A v, w \in DOMAIN vecs : vecs[v].at = vecs[w].at => v = w

InSlot(v, kind, i) ==
  /\ vecs[v].kind = kind
  /\ vecs[v].attachment = [registry |-> registries[kind].at, slot |-> i]
  /\ registries[kind].slots[i] = vecs[v].at

SlotsAre ==
  /\ \A v \in DOMAIN vecs : \E kind \in Kinds : \E i \in DOMAIN registries[kind].slots :
       InSlot(v, kind, i)
  /\ \A kind \in Kinds : \A i \in DOMAIN registries[kind].slots :
       \E v \in DOMAIN vecs : InSlot(v, kind, i)

PoolTypeOK ==
  /\ heap \subseteq Addresses
  /\ registries \in [Kinds -> Registry]
  /\ vecs \in Seq(Vec)
  /\ \A v \in DOMAIN vecs : vecs[v].len <= vecs[v].cap

PoolInv ==
  /\ PoolTypeOK
  /\ status \in {"running", "freed"}
  /\ status = "running" => HeapIs /\ SlotsAre
  /\ status = "freed" => heap = {}

Inv ==
  /\ ArenaInv
  /\ status = "running" => chunks # <<>>
  /\ PoolInv
  /\ operations \in 0..MaxOperations

\* What is in one slot is in no other.
LEMMA SlotsApart ==
  ASSUME PoolTypeOK, HeapIs, SlotsAre, NEW kind \in Kinds,
         NEW i \in DOMAIN registries[kind].slots, NEW k \in Kinds,
         NEW j \in DOMAIN registries[k].slots,
         registries[kind].slots[i] = registries[k].slots[j]
  PROVE  kind = k /\ i = j
<1>1. PICK v \in DOMAIN vecs : InSlot(v, kind, i)
  BY DEF SlotsAre
<1>2. PICK w \in DOMAIN vecs : InSlot(w, k, j)
  BY DEF SlotsAre
<1>3. v = w
  BY <1>1, <1>2 DEF InSlot, HeapIs
<1>4. QED
  BY <1>1, <1>2, <1>3 DEF InSlot

LEMMA PoolInit == ASSUME Init PROVE PoolInv
<1>1. PICK at \in [Kinds -> Addresses] :
        /\ at["vectors"] # at["keymaps"]
        /\ registries = [kind \in Kinds |-> [at |-> at[kind], slots |-> <<>>]]
        /\ heap = {at[kind] : kind \in Kinds}
  BY DEF Init
<1>2. vecs = <<>> /\ status = "running"
  BY DEF Init
<1>3. \A kind \in Kinds : registries[kind].at = at[kind] /\ registries[kind].slots = <<>>
  BY <1>1
<1>4. \A kind \in Kinds : [at |-> at[kind], slots |-> <<>>] \in Registry
  BY DEF Registry
<1>5. PoolTypeOK
  BY <1>1, <1>2, <1>4 DEF PoolTypeOK
<1>6. HeapIs
  BY <1>1, <1>2, <1>3 DEF HeapIs, Kinds
<1>7. SlotsAre
  BY <1>2, <1>3 DEF SlotsAre
<1>8. QED
  BY <1>2, <1>5, <1>6, <1>7 DEF PoolInv

\* A length that the capacity has room for.
LEMMA LengthInv ==
  ASSUME PoolInv, status = "running", NEW v \in DOMAIN vecs, NEW len \in 0..vecs[v].cap,
         vecs' = [vecs EXCEPT ![v].len = len], UNCHANGED <<heap, registries, status>>
  PROVE  PoolInv'
<1>1. vecs \in Seq(Vec) /\ vecs[v] \in Vec
  BY DEF PoolInv, PoolTypeOK
<1> DEFINE new == [vecs[v] EXCEPT !.len = len]
<1>2. /\ new \in Vec /\ new.len <= new.cap /\ new.at = vecs[v].at
      /\ new.kind = vecs[v].kind /\ new.attachment = vecs[v].attachment
  <2>1. vecs[v].cap \in 0..MaxLen
    BY <1>1 DEF Vec
  <2>2. len \in 0..MaxLen /\ len <= vecs[v].cap
    BY <2>1, MempoolAssumption
  <2>3. QED
    BY <2>2, <1>1 DEF Vec
<1>3. vecs' = [vecs EXCEPT ![v] = new]
  OBVIOUS
<1> HIDE DEF new
<1>4. /\ vecs' \in Seq(Vec) /\ DOMAIN vecs' = DOMAIN vecs
      /\ \A w \in DOMAIN vecs : vecs'[w] = IF w = v THEN new ELSE vecs[w]
  BY <1>1, <1>2, <1>3, ExceptSeq
<1>5. \A w \in DOMAIN vecs : /\ vecs'[w].at = vecs[w].at /\ vecs'[w].kind = vecs[w].kind
                             /\ vecs'[w].attachment = vecs[w].attachment
                             /\ vecs'[w].len <= vecs'[w].cap
  BY <1>2, <1>4 DEF PoolInv, PoolTypeOK
<1>6. PoolTypeOK'
  BY <1>4, <1>5 DEF PoolInv, PoolTypeOK
<1>7. HeapIs'
  <2>1. {vecs'[w].at : w \in DOMAIN vecs'} = {vecs[w].at : w \in DOMAIN vecs}
    BY <1>4, <1>5
  <2>2. QED
    BY <2>1, <1>4, <1>5 DEF PoolInv, HeapIs
<1>8. SlotsAre'
  <2>1. \A w \in DOMAIN vecs : \A kind, i : InSlot(w, kind, i) => InSlot(w, kind, i)'
    BY <1>4, <1>5 DEF InSlot
  <2>2. SlotsAre
    BY DEF PoolInv
  <2>3. QED
    BY <2>1, <2>2, <1>4, <1>5 DEF SlotsAre
<1>9. QED
  BY <1>6, <1>7, <1>8 DEF PoolInv

LEMMA ShrinkInv == ASSUME PoolInv, status = "running", Shrink PROVE PoolInv'
<1>1. PICK v \in DOMAIN vecs :
        /\ \E len \in 0..(vecs[v].len - 1) : vecs' = [vecs EXCEPT ![v].len = len]
        /\ UNCHANGED <<heap, registries, status>>
  BY DEF Shrink
<1>2. PICK len \in 0..(vecs[v].len - 1) : vecs' = [vecs EXCEPT ![v].len = len]
  BY <1>1
<1>3. len \in 0..vecs[v].cap
  <2>1. vecs[v] \in Vec /\ vecs[v].len <= vecs[v].cap
    BY DEF PoolInv, PoolTypeOK
  <2>2. vecs[v].len \in 0..MaxLen /\ vecs[v].cap \in 0..MaxLen
    BY <2>1 DEF Vec
  <2>3. QED
    BY <2>1, <2>2, MempoolAssumption
<1>4. QED
  BY <1>1, <1>2, <1>3, LengthInv

\* A vector that moves writes its address into its own slot.
LEMMA MoveInv ==
  ASSUME PoolInv, status = "running", NEW v \in DOMAIN vecs, NEW len \in 0..MaxLen,
         NEW to \in Reallocated(vecs[v].at), vecs' = Moved(v, to, len),
         heap' = (heap \ {vecs[v].at}) \cup {to}, WriteSlot(vecs[v].attachment, to)
  PROVE  PoolInv'
<1>1. PoolTypeOK /\ HeapIs /\ SlotsAre
  BY DEF PoolInv
<1>2. vecs \in Seq(Vec) /\ vecs[v] \in Vec
  BY <1>1 DEF PoolTypeOK
<1>3. PICK kind \in Kinds : \E i \in DOMAIN registries[kind].slots : InSlot(v, kind, i)
  BY <1>1 DEF SlotsAre
<1>3a. PICK i \in DOMAIN registries[kind].slots : InSlot(v, kind, i)
  BY <1>3
<1>4. /\ to \in Addresses
      /\ to = vecs[v].at \/ to \notin heap
  BY <1>1, <1>2 DEF Vec, Reallocated, PoolTypeOK
<1>5. \A k \in Kinds : /\ registries[k].at \in Addresses
                       /\ registries[k].slots \in Seq(Addresses)
                       /\ registries[k] = [at |-> registries[k].at, slots |-> registries[k].slots]
  BY <1>1 DEF PoolTypeOK, Registry
<1>6. {k \in Kinds : registries[k].at = vecs[v].attachment.registry
                     /\ vecs[v].attachment.slot \in DOMAIN registries[k].slots} = {kind}
  BY <1>1, <1>3a DEF InSlot, HeapIs, Kinds
<1>7. /\ status' = status
      /\ registries' = [k \in Kinds |-> IF k \in {kind} THEN [registries[k] EXCEPT !.slots[i] = to]
                                                         ELSE registries[k]]
  <2>1. vecs[v].attachment.slot = i
    BY <1>3a DEF InSlot
  <2>2. QED
    BY <1>6, <2>1 DEF WriteSlot
<1>8. \A k \in Kinds :
        /\ registries'[k] \in Registry
        /\ registries'[k].at = registries[k].at
        /\ DOMAIN registries'[k].slots = DOMAIN registries[k].slots
        /\ \A j \in DOMAIN registries[k].slots :
             registries'[k].slots[j] = IF k = kind /\ j = i THEN to ELSE registries[k].slots[j]
  <2> SUFFICES ASSUME NEW k \in Kinds
               PROVE  /\ registries'[k] \in Registry
                      /\ registries'[k].at = registries[k].at
                      /\ DOMAIN registries'[k].slots = DOMAIN registries[k].slots
                      /\ \A j \in DOMAIN registries[k].slots :
                           registries'[k].slots[j] =
                             IF k = kind /\ j = i THEN to ELSE registries[k].slots[j]
    OBVIOUS
  <2>1. CASE k # kind
    BY <2>1, <1>7, <1>5, <1>1 DEF PoolTypeOK
  <2>2. CASE k = kind
    <3> DEFINE old == registries[k].slots
               slots == [old EXCEPT ![i] = to]
    <3>0. old \in Seq(Addresses) /\ i \in DOMAIN old
      BY <2>2, <1>3a, <1>5
    <3>1. registries'[k] = [registries[k] EXCEPT !.slots = slots]
      BY <2>2, <1>7
    <3>2. registries'[k] = [at |-> registries[k].at, slots |-> slots]
      BY <3>1, <1>5
    <3> HIDE DEF old
    <3>2a. /\ slots \in Seq(Addresses) /\ DOMAIN slots = DOMAIN old
           /\ \A j \in DOMAIN old : slots[j] = IF j = i THEN to ELSE old[j]
      BY <3>0, <1>4, ExceptSeq
    <3>2b. /\ DOMAIN slots = DOMAIN registries[k].slots
           /\ \A j \in DOMAIN registries[k].slots :
                slots[j] = IF j = i THEN to ELSE registries[k].slots[j]
      BY <3>2a DEF old
    <3> HIDE DEF slots
    <3>3. registries[k].at \in Addresses /\ slots \in Seq(Addresses)
      BY <3>2a, <1>5
    <3>4. registries'[k] \in Registry
      BY <3>2, <3>3 DEF Registry
    <3>5. registries'[k].at = registries[k].at /\ registries'[k].slots = slots
      BY <3>2
    <3>6. QED
      BY <2>2, <3>2b, <3>4, <3>5
  <2>3. QED
    BY <2>1, <2>2
<1> DEFINE new == [vecs[v] EXCEPT !.at = to, !.len = len, !.cap = len]
<1>9. /\ new \in Vec /\ new.len <= new.cap /\ new.at = to
      /\ new.kind = kind /\ new.attachment = vecs[v].attachment
  <2>1. new \in Vec
    BY <1>2, <1>4 DEF Vec
  <2>2. new.len = len /\ new.cap = len /\ new.at = to
        /\ new.kind = vecs[v].kind /\ new.attachment = vecs[v].attachment
    BY <1>2 DEF Vec
  <2> HIDE DEF new
  <2>3. QED
    BY <2>1, <2>2, <1>3a, MempoolAssumption DEF InSlot
<1>10. vecs' = [vecs EXCEPT ![v] = new]
  BY DEF Moved
<1> HIDE DEF new
<1>11. /\ vecs' \in Seq(Vec) /\ DOMAIN vecs' = DOMAIN vecs
       /\ \A w \in DOMAIN vecs : vecs'[w] = IF w = v THEN new ELSE vecs[w]
  BY <1>2, <1>9, <1>10, ExceptSeq
<1>12. \A w \in DOMAIN vecs : /\ vecs'[w].at = IF w = v THEN to ELSE vecs[w].at
                              /\ vecs'[w].kind = vecs[w].kind
                              /\ vecs'[w].attachment = vecs[w].attachment
                              /\ vecs'[w].len <= vecs'[w].cap
  BY <1>1, <1>3a, <1>9, <1>11 DEF PoolTypeOK, InSlot
<1>13. PoolTypeOK'
  <2>1. heap' \subseteq Addresses
    BY <1>1, <1>4 DEF PoolTypeOK
  <2>2. registries' \in [Kinds -> Registry]
    BY <1>7, <1>8
  <2>3. QED
    BY <2>1, <2>2, <1>11, <1>12 DEF PoolTypeOK
<1>14. HeapIs'
  <2>1. \A x : x \in heap <=> \/ \E k \in Kinds : x = registries[k].at
                              \/ \E w \in DOMAIN vecs : x = vecs[w].at
    BY <1>1 DEF HeapIs
  <2>2. \A w \in DOMAIN vecs \ {v} : vecs[w].at # vecs[v].at /\ vecs[w].at # to
    BY <1>1, <1>4, <2>1 DEF HeapIs
  <2>3. \A k \in Kinds : registries[k].at # vecs[v].at /\ registries[k].at # to
    BY <1>1, <1>4, <2>1 DEF HeapIs
  <2>4. heap' = {registries'[k].at : k \in Kinds} \cup {vecs'[w].at : w \in DOMAIN vecs'}
    BY <2>1, <2>2, <2>3, <1>8, <1>11, <1>12, SMTT(30)
  <2>5. registries'["vectors"].at # registries'["keymaps"].at
    BY <1>1, <1>8 DEF HeapIs, Kinds
  <2>6. \A w \in DOMAIN vecs' : \A k \in Kinds : vecs'[w].at # registries'[k].at
    BY <1>1, <2>3, <1>8, <1>11, <1>12 DEF HeapIs
  <2>7. \A w, u \in DOMAIN vecs' : vecs'[w].at = vecs'[u].at => w = u
    BY <1>1, <2>2, <1>11, <1>12 DEF HeapIs
  <2>8. QED
    BY <2>4, <2>5, <2>6, <2>7 DEF HeapIs
<1>15. SlotsAre'
  <2>1. InSlot(v, kind, i)'
    BY <1>3, <1>3a, <1>4, <1>8, <1>11, <1>12 DEF InSlot
  <2>2. ASSUME NEW w \in DOMAIN vecs, w # v, NEW k \in Kinds,
               NEW j \in DOMAIN registries[k].slots, InSlot(w, k, j)
        PROVE  InSlot(w, k, j)'
    <3>1. ~(k = kind /\ j = i)
      BY <2>2, <1>1, <1>3a DEF InSlot, HeapIs
    <3>2. registries'[k].slots[j] = registries[k].slots[j]
      BY <3>1, <1>8
    <3>3. QED
      BY <2>2, <3>2, <1>8, <1>12 DEF InSlot
  <2>3. \A w \in DOMAIN vecs' : \E k \in Kinds : \E j \in DOMAIN registries'[k].slots :
          InSlot(w, k, j)'
    <3> SUFFICES ASSUME NEW w \in DOMAIN vecs
                 PROVE  \E k \in Kinds : \E j \in DOMAIN registries'[k].slots : InSlot(w, k, j)'
      BY <1>11
    <3>1. CASE w = v
      BY <3>1, <2>1, <1>8
    <3>2. CASE w # v
      <4>1. PICK k \in Kinds : \E j \in DOMAIN registries[k].slots : InSlot(w, k, j)
        BY <1>1 DEF SlotsAre
      <4>2. PICK j \in DOMAIN registries[k].slots : InSlot(w, k, j)
        BY <4>1
      <4>3. QED
        BY <3>2, <4>2, <2>2, <1>8
    <3>3. QED
      BY <3>1, <3>2
  <2>4. \A k \in Kinds : \A j \in DOMAIN registries'[k].slots :
          \E w \in DOMAIN vecs' : InSlot(w, k, j)'
    <3> SUFFICES ASSUME NEW k \in Kinds, NEW j \in DOMAIN registries[k].slots
                 PROVE  \E w \in DOMAIN vecs : InSlot(w, k, j)'
      BY <1>8, <1>11
    <3>1. PICK w \in DOMAIN vecs : InSlot(w, k, j)
      BY <1>1 DEF SlotsAre
    <3>2. CASE w = v
      <4>1. k = kind /\ j = i
        BY <3>1, <3>2, <1>3a DEF InSlot
      <4>2. QED
        BY <4>1, <2>1
    <3>3. CASE w # v
      BY <3>1, <3>3, <2>2
    <3>4. QED
      BY <3>2, <3>3
  <2>5. QED
    BY <2>3, <2>4 DEF SlotsAre
<1>16. QED
  BY <1>7, <1>13, <1>14, <1>15 DEF PoolInv

LEMMA GrowInv == ASSUME PoolInv, status = "running", Grow PROVE PoolInv'
<1>1. PICK v \in DOMAIN vecs : \E len \in (vecs[v].len + 1)..MaxLen :
        IF len <= vecs[v].cap
        THEN vecs' = [vecs EXCEPT ![v].len = len] /\ UNCHANGED <<heap, registries, status>>
        ELSE \E to \in Reallocated(vecs[v].at) :
               /\ vecs' = Moved(v, to, len)
               /\ heap' = (heap \ {vecs[v].at}) \cup {to}
               /\ WriteSlot(vecs[v].attachment, to)
  BY DEF Grow
<1>2. PICK len \in (vecs[v].len + 1)..MaxLen :
        IF len <= vecs[v].cap
        THEN vecs' = [vecs EXCEPT ![v].len = len] /\ UNCHANGED <<heap, registries, status>>
        ELSE \E to \in Reallocated(vecs[v].at) :
               /\ vecs' = Moved(v, to, len)
               /\ heap' = (heap \ {vecs[v].at}) \cup {to}
               /\ WriteSlot(vecs[v].attachment, to)
  BY <1>1
<1>3. /\ vecs[v].cap \in Nat /\ len \in 0..MaxLen
  <2>1. vecs[v] \in Vec
    BY DEF PoolInv, PoolTypeOK
  <2>2. vecs[v].len \in 0..MaxLen /\ vecs[v].cap \in 0..MaxLen
    BY <2>1 DEF Vec
  <2>3. QED
    BY <2>2, MempoolAssumption
<1>4. CASE len <= vecs[v].cap
  BY <1>2, <1>3, <1>4, LengthInv
<1>5. CASE ~(len <= vecs[v].cap)
  <2>1. PICK to \in Reallocated(vecs[v].at) :
          /\ vecs' = Moved(v, to, len)
          /\ heap' = (heap \ {vecs[v].at}) \cup {to}
          /\ WriteSlot(vecs[v].attachment, to)
    BY <1>2, <1>5
  <2>2. QED
    BY <2>1, <1>3, MoveInv
<1>6. QED
  BY <1>4, <1>5

\* When a registry is where `to` is, every vector in it knows its slot there.
LEMMA AttachedIs ==
  ASSUME PoolTypeOK, HeapIs, SlotsAre, NEW kind \in Kinds, NEW to,
         NEW registry, registry.at = to, NEW w \in DOMAIN vecs, NEW k \in Kinds,
         NEW i \in DOMAIN registries[k].slots, InSlot(w, k, i)
  PROVE  Attached(vecs, kind, registry)[w] =
           IF k = kind THEN [vecs[w] EXCEPT !.attachment = [registry |-> to, slot |-> i]]
           ELSE vecs[w]
<1>1. vecs \in Seq(Vec) /\ vecs[w] \in Vec
  BY DEF PoolTypeOK
<1>2. CASE to = registries[kind].at
  <2>1. Attached(vecs, kind, registry)[w] = vecs[w]
    BY <1>2 DEF Attached
  <2>2. CASE k = kind
    <3>1. vecs[w].attachment = [registry |-> to, slot |-> i]
      BY <2>2, <1>2 DEF InSlot
    <3>2. [vecs[w] EXCEPT !.attachment = [registry |-> to, slot |-> i]] = vecs[w]
      BY <3>1, <1>1 DEF Vec
    <3>3. QED
      BY <2>1, <2>2, <3>2
  <2>3. QED
    BY <2>1, <2>2
<1>3. CASE to # registries[kind].at
  <2> DEFINE here == registries[kind].slots
  <2>1. Attached(vecs, kind, registry)[w] =
          IF \E j \in DOMAIN here : here[j] = vecs[w].at
          THEN [vecs[w] EXCEPT !.attachment =
                 [registry |-> to, slot |-> CHOOSE j \in DOMAIN here : here[j] = vecs[w].at]]
          ELSE vecs[w]
    BY <1>3 DEF Attached
  <2>2. ASSUME NEW j \in DOMAIN here, here[j] = vecs[w].at PROVE k = kind /\ j = i
    BY <2>2, SlotsApart DEF InSlot
  <2>3. CASE k = kind
    <3>1. i \in DOMAIN here /\ here[i] = vecs[w].at
      BY <2>3 DEF InSlot
    <3>2. (CHOOSE j \in DOMAIN here : here[j] = vecs[w].at) = i
      BY <3>1, <2>2
    <3>3. QED
      BY <2>1, <2>3, <3>1, <3>2
  <2>4. CASE k # kind
    BY <2>1, <2>2, <2>4
  <2>5. QED
    BY <2>3, <2>4
<1>4. QED
  BY <1>2, <1>3

\* The pool with a vector more, whose slot is the last of a registry that is
\* where `to` is.
OneMore(kind, at, to, n, m) ==
  /\ at \notin heap /\ to # at /\ (to = registries[kind].at \/ to \notin heap)
  /\ DOMAIN vecs = 1..n /\ DOMAIN vecs' = 1..(n + 1)
  /\ DOMAIN registries[kind].slots = 1..m /\ DOMAIN registries'[kind].slots = 1..(m + 1)
  /\ \A w \in 1..n : vecs'[w].at = vecs[w].at /\ vecs'[w].kind = vecs[w].kind
  /\ \A w \in 1..n : \A k \in Kinds : \A i \in DOMAIN registries[k].slots :
       InSlot(w, k, i) => vecs'[w].attachment = [registry |-> registries'[k].at, slot |-> i]
  /\ vecs'[n + 1].at = at /\ vecs'[n + 1].kind = kind
  /\ vecs'[n + 1].attachment = [registry |-> to, slot |-> m + 1]
  /\ registries'[kind].at = to /\ registries'[kind].slots[m + 1] = at
  /\ \A i \in 1..m : registries'[kind].slots[i] = registries[kind].slots[i]
  /\ \A k \in Kinds \ {kind} : registries'[k] = registries[k]
  /\ heap' = (heap \ {registries[kind].at}) \cup {at, to}

LEMMA WithOneMore ==
  ASSUME HeapIs, SlotsAre, NEW kind \in Kinds, NEW at, NEW to, NEW n \in Nat, NEW m \in Nat,
         OneMore(kind, at, to, n, m)
  PROVE  HeapIs' /\ SlotsAre'
<1> USE DEF OneMore
<1>1. HeapIs'
  <2>1. \A x : x \in heap <=> \/ \E k \in Kinds : x = registries[k].at
                              \/ \E w \in DOMAIN vecs : x = vecs[w].at
    BY DEF HeapIs
  <2>2. \A w \in 1..n : /\ vecs'[w].at = vecs[w].at /\ vecs[w].at # at /\ vecs[w].at # to
                        /\ vecs[w].at # registries[kind].at
    BY <2>1 DEF HeapIs
  <2>3. \A k \in Kinds : /\ registries'[k].at = IF k = kind THEN to ELSE registries[k].at
                         /\ registries[k].at # at
                         /\ k # kind => registries[k].at # to
                         /\ k # kind => registries[k].at # registries[kind].at
    BY <2>1 DEF HeapIs, Kinds
  <2>5. \A w \in DOMAIN vecs' : w = n + 1 \/ w \in 1..n
    OBVIOUS
  <2>6. n + 1 \in DOMAIN vecs' /\ 1..n \subseteq DOMAIN vecs'
    OBVIOUS
  <2>7. heap' = {registries'[k].at : k \in Kinds} \cup {vecs'[w].at : w \in DOMAIN vecs'}
    <3>1. ASSUME NEW x \in heap'
          PROVE  (\E k \in Kinds : x = registries'[k].at) \/ \E w \in DOMAIN vecs' : x = vecs'[w].at
      <4>1. CASE x = to
        BY <4>1
      <4>2. CASE x = at
        BY <4>2, <2>6
      <4>3. CASE x \in heap /\ x # registries[kind].at
        <5>1. (\E k \in Kinds \ {kind} : x = registries[k].at) \/ \E w \in 1..n : x = vecs[w].at
          BY <4>3, <2>1
        <5>2. QED
          BY <5>1, <2>2, <2>3, <2>6, SMTT(30)
      <4>4. QED
        BY <4>1, <4>2, <4>3, <3>1
    <3>2. \A k \in Kinds : registries'[k].at \in heap'
      BY <2>1, <2>3
    <3>3. \A w \in DOMAIN vecs' : vecs'[w].at \in heap'
      <4>1. \A w \in 1..n : vecs[w].at \in heap
        BY <2>1
      <4>2. QED
        BY <4>1, <2>2, <2>5
    <3>4. QED
      BY <3>1, <3>2, <3>3
  <2>8. registries'["vectors"].at # registries'["keymaps"].at
    BY <2>3 DEF HeapIs, Kinds
  <2>9. \A w \in DOMAIN vecs' : \A k \in Kinds : vecs'[w].at # registries'[k].at
    <3> SUFFICES ASSUME NEW w \in DOMAIN vecs', NEW k \in Kinds
                 PROVE  vecs'[w].at # registries'[k].at
      OBVIOUS
    <3>1. CASE w = n + 1
      BY <3>1, <2>3
    <3>2. CASE w \in 1..n
      BY <3>2, <2>2, <2>3 DEF HeapIs
    <3>3. QED
      BY <3>1, <3>2, <2>5
  <2>10. \A w, u \in DOMAIN vecs' : vecs'[w].at = vecs'[u].at => w = u
    <3> SUFFICES ASSUME NEW w \in DOMAIN vecs', NEW u \in DOMAIN vecs', vecs'[w].at = vecs'[u].at
                 PROVE  w = u
      OBVIOUS
    <3>1. CASE w \in 1..n /\ u \in 1..n
      BY <3>1 DEF HeapIs
    <3>2. CASE w = n + 1 \/ u = n + 1
      BY <3>2, <2>2, <2>5
    <3>3. QED
      BY <3>1, <3>2, <2>5
  <2>11. QED
    BY <2>7, <2>8, <2>9, <2>10 DEF HeapIs
<1>2. SlotsAre'
  <2>1. /\ n + 1 \in DOMAIN vecs' /\ m + 1 \in DOMAIN registries'[kind].slots
        /\ InSlot(n + 1, kind, m + 1)'
    BY DEF InSlot
  <2>2. ASSUME NEW w \in DOMAIN vecs, NEW k \in Kinds, NEW i \in DOMAIN registries[k].slots,
               InSlot(w, k, i)
        PROVE  w \in DOMAIN vecs' /\ i \in DOMAIN registries'[k].slots /\ InSlot(w, k, i)'
    <3>1. w \in 1..n /\ w \in DOMAIN vecs'
      OBVIOUS
    <3>2. i \in DOMAIN registries'[k].slots /\ registries'[k].slots[i] = registries[k].slots[i]
      OBVIOUS
    <3>3. QED
      BY <2>2, <3>1, <3>2 DEF InSlot
  <2>3. ASSUME NEW w \in DOMAIN vecs'
        PROVE  \E k \in Kinds : \E i \in DOMAIN registries'[k].slots : InSlot(w, k, i)'
    <3>1. CASE w = n + 1
      BY <3>1, <2>1
    <3>2. CASE w \in DOMAIN vecs
      <4>1. PICK k \in Kinds : \E i \in DOMAIN registries[k].slots : InSlot(w, k, i)
        BY <3>2 DEF SlotsAre
      <4>2. PICK i \in DOMAIN registries[k].slots : InSlot(w, k, i)
        BY <4>1
      <4>3. QED
        BY <3>2, <4>2, <2>2
    <3>3. w = n + 1 \/ w \in DOMAIN vecs
      OBVIOUS
    <3>4. QED
      BY <3>1, <3>2, <3>3
  <2>4. ASSUME NEW k \in Kinds, NEW i \in DOMAIN registries'[k].slots
        PROVE  \E w \in DOMAIN vecs' : InSlot(w, k, i)'
    <3>1. CASE k = kind /\ i = m + 1
      BY <3>1, <2>1
    <3>2. CASE i \in DOMAIN registries[k].slots
      <4>1. PICK w \in DOMAIN vecs : InSlot(w, k, i)
        BY <3>2 DEF SlotsAre
      <4>2. QED
        BY <3>2, <4>1, <2>2
    <3>3. i \in DOMAIN registries[k].slots \/ (k = kind /\ i = m + 1)
      OBVIOUS
    <3>4. QED
      BY <3>1, <3>2, <3>3
  <2>5. QED
    BY <2>3, <2>4 DEF SlotsAre
<1>3. QED
  BY <1>1, <1>2

\* What AddVec does with the choices it makes.
GrownRegistry(kind, at, to) == [at |-> to, slots |-> Append(registries[kind].slots, at)]
NewVec(kind, at, len, to) ==
  [kind |-> kind, at |-> at, len |-> len, cap |-> len,
   attachment |-> [registry |-> to, slot |-> Len(GrownRegistry(kind, at, to).slots)]]
Registers(kind, at, len, to) ==
  /\ vecs' = Append(Attached(vecs, kind, GrownRegistry(kind, at, to)), NewVec(kind, at, len, to))
  /\ registries' = [registries EXCEPT ![kind] = GrownRegistry(kind, at, to)]
  /\ heap' = (heap \ {registries[kind].at}) \cup {at, to}
  /\ UNCHANGED status

\* A new vector is in a new slot.
LEMMA RegisterInv ==
  ASSUME PoolInv, status = "running", NEW kind \in Kinds, NEW at \in Addresses \ heap,
         NEW len \in 0..MaxLen, NEW to \in Reallocated(registries[kind].at) \ {at},
         Registers(kind, at, len, to)
  PROVE  PoolInv'
<1>1. PoolTypeOK /\ HeapIs /\ SlotsAre
  BY DEF PoolInv
<1>2. /\ vecs \in Seq(Vec) /\ to \in Addresses /\ registries \in [Kinds -> Registry]
      /\ to = registries[kind].at \/ to \notin heap
      /\ to # at /\ at \notin heap
  BY <1>1 DEF PoolTypeOK, Reallocated, Registry
<1>3. \A k \in Kinds : /\ registries[k] \in Registry /\ registries[k].at \in Addresses
                       /\ registries[k].slots \in Seq(Addresses)
  BY <1>1 DEF PoolTypeOK, Registry
<1>3a. PICK n \in Nat : n = Len(vecs) /\ DOMAIN vecs = 1..n
  BY <1>2
<1>3b. PICK m \in Nat : /\ m = Len(registries[kind].slots)
                        /\ DOMAIN registries[kind].slots = 1..m
  BY <1>3
<1> DEFINE slots == registries[kind].slots
           registry == GrownRegistry(kind, at, to)
           new == NewVec(kind, at, len, to)
           mid == Attached(vecs, kind, registry)
<1>0. /\ vecs' = Append(mid, new) /\ registries' = [registries EXCEPT ![kind] = registry]
      /\ heap' = (heap \ {registries[kind].at}) \cup {at, to} /\ status' = status
  BY DEF Registers
<1>4. /\ registry.at = to /\ registry.slots \in Seq(Addresses)
      /\ DOMAIN registry.slots = 1..(m + 1) /\ Len(registry.slots) = m + 1
      /\ registry.slots[m + 1] = at
      /\ \A i \in 1..m : registry.slots[i] = slots[i]
      /\ registry \in Registry
  <2>1. slots \in Seq(Addresses) /\ Len(slots) = m
    BY <1>3, <1>3b
  <2>2. registry = [at |-> to, slots |-> Append(slots, at)]
    BY DEF GrownRegistry
  <2>3. registry.slots \in Seq(Addresses)
    BY <2>1, <2>2, AppendProperties
  <2>4. registry \in Registry
    BY <2>2, <2>3, <1>2 DEF Registry
  <2>5. /\ Len(registry.slots) = m + 1 /\ registry.slots[m + 1] = at
        /\ \A i \in 1..m : registry.slots[i] = slots[i]
    BY <2>1, <2>2, AppendProperties
  <2>6. DOMAIN registry.slots = 1..(m + 1)
    BY <2>3, <2>5
  <2>7. QED
    BY <2>2, <2>3, <2>4, <2>5, <2>6
<1>6. /\ registries'[kind] = registry
      /\ \A k \in Kinds \ {kind} : registries'[k] = registries[k]
      /\ registries' \in [Kinds -> Registry]
  BY <1>0, <1>2, <1>4
<1>7. \A w \in DOMAIN vecs : \A k \in Kinds : \A i \in DOMAIN registries[k].slots :
        InSlot(w, k, i) =>
          mid[w] = IF k = kind THEN [vecs[w] EXCEPT !.attachment = [registry |-> to, slot |-> i]]
                   ELSE vecs[w]
  <2> SUFFICES ASSUME NEW w \in DOMAIN vecs, NEW k \in Kinds,
                      NEW i \in DOMAIN registries[k].slots, InSlot(w, k, i)
               PROVE  mid[w] = IF k = kind
                               THEN [vecs[w] EXCEPT !.attachment = [registry |-> to, slot |-> i]]
                               ELSE vecs[w]
    OBVIOUS
  <2>1. registry.at = to
    BY <1>4
  <2> HIDE DEF registry
  <2>2. QED
    BY <1>1, <2>1, AttachedIs, SMTT(60)
<1>8. \A w \in DOMAIN vecs : /\ mid[w] \in Vec
                             /\ mid[w].at = vecs[w].at /\ mid[w].kind = vecs[w].kind
                             /\ mid[w].len = vecs[w].len /\ mid[w].cap = vecs[w].cap
  <2> SUFFICES ASSUME NEW w \in DOMAIN vecs
               PROVE  /\ mid[w] \in Vec
                      /\ mid[w].at = vecs[w].at /\ mid[w].kind = vecs[w].kind
                      /\ mid[w].len = vecs[w].len /\ mid[w].cap = vecs[w].cap
    OBVIOUS
  <2>1. PICK k \in Kinds : \E i \in DOMAIN registries[k].slots : InSlot(w, k, i)
    BY <1>1 DEF SlotsAre
  <2>2. PICK i \in DOMAIN registries[k].slots : InSlot(w, k, i)
    BY <2>1
  <2>3. vecs[w] \in Vec
    BY <1>2
  <2>4. i \in Nat \ {0}
    BY <1>3
  <2>5. mid[w] = IF k = kind
                 THEN [vecs[w] EXCEPT !.attachment = [registry |-> to, slot |-> i]]
                 ELSE vecs[w]
    BY <2>2, <1>7
  <2> HIDE DEF mid
  <2>6. [registry |-> to, slot |-> i] \in Slot
    BY <2>4, <1>2 DEF Slot
  <2>7. QED
    BY <2>3, <2>5, <2>6 DEF Vec
<1>9. mid \in Seq(Vec) /\ Len(mid) = n
  <2>1. CASE to = registries[kind].at
    <3>1. mid = vecs
      BY <2>1, <1>4 DEF Attached
    <3> HIDE DEF mid
    <3>2. QED
      BY <3>1, <1>2, <1>3a
  <2>2. CASE to # registries[kind].at
    <3>1. \E f : mid = [w \in 1..n |-> f[w]]
      <4>1. mid = [w \in DOMAIN vecs |->
               IF \E i \in DOMAIN slots : slots[i] = vecs[w].at
               THEN [vecs[w] EXCEPT !.attachment =
                      [registry |-> registry.at,
                       slot |-> CHOOSE i \in DOMAIN slots : slots[i] = vecs[w].at]]
               ELSE vecs[w]]
        BY <2>2, <1>4 DEF Attached
      <4> HIDE DEF mid
      <4>2. mid = [w \in 1..n |-> mid[w]]
        BY <4>1, <1>3a
      <4>3. QED
        BY <4>2
    <3> HIDE DEF mid, slots
    <3>2. mid \in [1..n -> Vec]
      BY <3>1, <1>3a, <1>8
    <3>3. mid \in Seq(Vec)
      BY <3>2, SeqDef
    <3>4. QED
      BY <3>2, <3>3
  <2>3. QED
    BY <2>1, <2>2
<1>10. new \in Vec /\ new.len <= new.cap /\ new.at = at /\ new.kind = kind
       /\ new.attachment = [registry |-> to, slot |-> m + 1]
  <2>1. [registry |-> to, slot |-> m + 1] \in Slot
    BY <1>2 DEF Slot
  <2>2. new.len = len /\ new.cap = len /\ new.at = at /\ new.kind = kind
        /\ new.attachment = [registry |-> to, slot |-> m + 1]
    BY <1>4 DEF NewVec
  <2>3. new \in Vec
    BY <2>1, <1>4 DEF Vec, NewVec
  <2>4. QED
    BY <2>2, <2>3, MempoolAssumption
<1> HIDE DEF mid
<1>11. /\ vecs' \in Seq(Vec) /\ DOMAIN vecs' = 1..(n + 1)
       /\ vecs'[n + 1] = new /\ \A w \in 1..n : vecs'[w] = mid[w]
  <2>1. vecs' = Append(mid, new) /\ new \in Vec
    BY <1>0, <1>10
  <2>2. /\ vecs' \in Seq(Vec) /\ Len(vecs') = n + 1
        /\ vecs'[n + 1] = new /\ \A w \in 1..n : vecs'[w] = mid[w]
    BY <2>1, <1>9, AppendProperties
  <2> HIDE DEF new
  <2>3. QED
    BY <2>2
<1> HIDE DEF slots, new, registry
<1>12. PoolTypeOK'
  <2>1. heap' \subseteq Addresses
    BY <1>0, <1>1, <1>2 DEF PoolTypeOK
  <2>2. \A w \in DOMAIN vecs' : vecs'[w].len <= vecs'[w].cap
    <3>1. \A w \in 1..n : vecs'[w].len <= vecs'[w].cap
      BY <1>1, <1>3a, <1>8, <1>11 DEF PoolTypeOK
    <3>2. \A w \in DOMAIN vecs' : w \in 1..n \/ w = n + 1
      BY <1>11
    <3>3. QED
      BY <3>1, <3>2, <1>10, <1>11
  <2>3. QED
    BY <2>1, <2>2, <1>6, <1>11 DEF PoolTypeOK
<1>13. HeapIs' /\ SlotsAre'
  <2>1. \A w \in 1..n : vecs'[w].at = vecs[w].at /\ vecs'[w].kind = vecs[w].kind
    BY <1>3a, <1>8, <1>11
  <2>2. \A w \in 1..n : \A k \in Kinds : \A i \in DOMAIN registries[k].slots :
          InSlot(w, k, i) => vecs'[w].attachment = [registry |-> registries'[k].at, slot |-> i]
    <3> SUFFICES ASSUME NEW w \in 1..n, NEW k \in Kinds, NEW i \in DOMAIN registries[k].slots,
                        InSlot(w, k, i)
                 PROVE  vecs'[w].attachment = [registry |-> registries'[k].at, slot |-> i]
      OBVIOUS
    <3>1. vecs[w] \in Vec /\ vecs[w].attachment = [registry |-> registries[k].at, slot |-> i]
      BY <1>2, <1>3a DEF InSlot
    <3>2. vecs'[w] = IF k = kind
                     THEN [vecs[w] EXCEPT !.attachment = [registry |-> to, slot |-> i]]
                     ELSE vecs[w]
      BY <1>3a, <1>7, <1>11
    <3>3. registries'[k].at = IF k = kind THEN to ELSE registries[k].at
      BY <1>4, <1>6
    <3>4. QED
      BY <3>1, <3>2, <3>3 DEF Vec
  <2>3. /\ vecs'[n + 1].at = at /\ vecs'[n + 1].kind = kind
        /\ vecs'[n + 1].attachment = [registry |-> to, slot |-> m + 1]
    BY <1>10, <1>11
  <2>4. /\ registries'[kind].at = to /\ DOMAIN registries'[kind].slots = 1..(m + 1)
        /\ registries'[kind].slots[m + 1] = at
        /\ \A i \in 1..m : registries'[kind].slots[i] = registries[kind].slots[i]
    BY <1>4, <1>6 DEF slots
  <2>5. QED
    <3>1. OneMore(kind, at, to, n, m)
      BY <1>0, <1>2, <1>3a, <1>3b, <1>6, <1>11, <2>1, <2>2, <2>3, <2>4 DEF OneMore
    <3>2. QED
      BY <3>1, <1>1, WithOneMore
<1>14. QED
  BY <1>0, <1>12, <1>13 DEF PoolInv

LEMMA AddVecInv == ASSUME PoolInv, status = "running", AddVec PROVE PoolInv'
<1>1. PICK kind \in Kinds, at \in Addresses \ heap, len \in 0..MaxLen :
        \E to \in Reallocated(registries[kind].at) \ {at} : Registers(kind, at, len, to)
  BY DEF AddVec, Registers, GrownRegistry, NewVec
<1>2. PICK to \in Reallocated(registries[kind].at) \ {at} : Registers(kind, at, len, to)
  BY <1>1
<1>3. QED
  BY <1>2, RegisterInv

-----------------------------------------------------------------------------
(***************************************************************************)
(* mempool_free frees what is in the slots and then the registries: what   *)
(* it frees is what is allocated, each once.                               *)
(***************************************************************************)
LEMMA AppendIs ==
  ASSUME NEW S, NEW s \in Seq(S), NEW e \in S, NEW t, t = Append(s, e)
  PROVE  /\ t \in Seq(S) /\ Len(t) = Len(s) + 1
         /\ t[Len(s) + 1] = e
         /\ \A i \in 1..Len(s) : t[i] = s[i]
BY AppendProperties

Concatenated(F, K, k, V, v) == F = ((K \o <<k>>) \o V) \o <<v>>

Parts(F, K, k, V, v, n, m) ==
  /\ DOMAIN F = 1..(n + m + 2)
  /\ \A i \in 1..n : F[i] = K[i]
  /\ F[n + 1] = k
  /\ \A i \in 1..m : F[n + 1 + i] = V[i]
  /\ F[n + m + 2] = v

LEMMA FourParts ==
  ASSUME NEW S, NEW K \in Seq(S), NEW V \in Seq(S), NEW k \in S, NEW v \in S,
         NEW F, Concatenated(F, K, k, V, v)
  PROVE  Parts(F, K, k, V, v, Len(K), Len(V))
<1>0. PICK n \in Nat, m \in Nat : n = Len(K) /\ m = Len(V)
  OBVIOUS
<1>1. PICK A : A = Append(K, k)
  OBVIOUS
<1>2. /\ A \in Seq(S) /\ Len(A) = n + 1
      /\ A[n + 1] = k /\ \A i \in 1..n : A[i] = K[i]
  BY <1>0, <1>1, AppendProperties
<1>3. A = K \o <<k>>
  BY <1>1, AppendIsConcat
<1>4. PICK B : B = A \o V
  OBVIOUS
<1>5. B \in Seq(S) /\ Len(B) = Len(A) + Len(V)
  BY <1>2, <1>4, ConcatProperties
<1>6. Len(B) = n + 1 + m
  BY <1>0, <1>2, <1>5
<1>7. \A i \in 1..(Len(A) + Len(V)) : B[i] = IF i <= Len(A) THEN A[i] ELSE V[i - Len(A)]
  BY <1>2, <1>4, ConcatProperties
<1>8. \A i \in 1..(n + 1 + m) : B[i] = IF i <= n + 1 THEN A[i] ELSE V[i - (n + 1)]
  <2>1. Len(A) + Len(V) = n + 1 + m /\ Len(A) = n + 1
    BY <1>0, <1>2
  <2>2. QED
    BY <2>1, <1>7
<1>9. F = Append(B, v)
  BY <1>3, <1>4, <1>5, AppendIsConcat DEF Concatenated
<1>10. /\ F \in Seq(S) /\ Len(F) = Len(B) + 1
       /\ F[Len(B) + 1] = v
       /\ \A i \in 1..Len(B) : F[i] = B[i]
  <2>1. PICK b \in Seq(S) : b = B
    BY <1>5
  <2>2. F = Append(b, v)
    BY <1>9, <2>1
  <2>3. /\ F \in Seq(S) /\ Len(F) = Len(b) + 1
        /\ F[Len(b) + 1] = v
        /\ \A i \in 1..Len(b) : F[i] = b[i]
    BY <2>2, AppendIs
  <2>4. QED
    BY <2>1, <2>3
<1>11. Len(B) + 1 = n + m + 2
  BY <1>6
<1>12. F[n + m + 2] = v /\ Len(F) = n + m + 2
  BY <1>10, <1>11
<1>13. \A i \in 1..(n + 1 + m) : F[i] = B[i]
  BY <1>10, <1>6
<1>14. \A i \in 1..n : F[i] = K[i]
  <2> SUFFICES ASSUME NEW i \in 1..n PROVE F[i] = K[i]
    OBVIOUS
  <2>1. i \in 1..(n + 1 + m) /\ i <= n + 1
    OBVIOUS
  <2>2. QED
    BY <2>1, <1>2, <1>8, <1>13
<1>15. F[n + 1] = k
  <2>1. n + 1 \in 1..(n + 1 + m) /\ n + 1 <= n + 1
    OBVIOUS
  <2>2. QED
    BY <2>1, <1>2, <1>8, <1>13
<1>16. \A i \in 1..m : F[n + 1 + i] = V[i]
  <2> SUFFICES ASSUME NEW i \in 1..m PROVE F[n + 1 + i] = V[i]
    OBVIOUS
  <2>1. PICK j \in Int : j = n + 1 + i
    OBVIOUS
  <2>2. j \in 1..(n + 1 + m) /\ ~(j <= n + 1) /\ j - (n + 1) = i
    BY <2>1
  <2>3. F[j] = V[j - (n + 1)]
    BY <2>2, <1>8, <1>13
  <2>4. QED
    BY <2>1, <2>2, <2>3
<1>17. DOMAIN F = 1..(n + m + 2)
  BY <1>10, <1>12, LenProperties
<1>18. Parts(F, K, k, V, v, n, m)
  BY <1>12, <1>14, <1>15, <1>16, <1>17 DEF Parts
<1>19. QED
  BY <1>0, <1>18

LEMMA FreedIs ==
  ASSUME PoolTypeOK
  PROVE  Parts(Freed, registries["keymaps"].slots, registries["keymaps"].at,
               registries["vectors"].slots, registries["vectors"].at,
               Len(registries["keymaps"].slots), Len(registries["vectors"].slots))
<1>1. PICK K \in Seq(Addresses), V \in Seq(Addresses), k \in Addresses, v \in Addresses :
        /\ K = registries["keymaps"].slots /\ V = registries["vectors"].slots
        /\ k = registries["keymaps"].at /\ v = registries["vectors"].at
  BY DEF PoolTypeOK, Kinds, Registry
<1>2. Concatenated(Freed, K, k, V, v)
  BY <1>1 DEF Freed, Concatenated
<1>3. Parts(Freed, K, k, V, v, Len(K), Len(V))
  BY <1>2, FourParts
<1>4. QED
  BY <1>1, <1>3

LEMMA FreeAllInv == ASSUME PoolInv, status = "running", FreeAll PROVE PoolInv'
<1>1. PoolTypeOK /\ HeapIs /\ SlotsAre
  BY DEF PoolInv
<1>0. PICK K, V : K = registries["keymaps"].slots /\ V = registries["vectors"].slots
  OBVIOUS
<1>2. /\ K \in Seq(Addresses) /\ V \in Seq(Addresses)
      /\ registries \in [Kinds -> Registry]
      /\ "keymaps" \in Kinds /\ "vectors" \in Kinds /\ \A kind \in Kinds : kind \in {"keymaps", "vectors"}
  BY <1>0, <1>1 DEF PoolTypeOK, Kinds, Registry
<1>3. PICK n \in Nat, m \in Nat : /\ n = Len(K) /\ DOMAIN K = 1..n
                                  /\ m = Len(V) /\ DOMAIN V = 1..m
  BY <1>2
<1>4. /\ DOMAIN Freed = 1..(n + m + 2)
      /\ \A i \in 1..n : Freed[i] = K[i]
      /\ Freed[n + 1] = registries["keymaps"].at
      /\ \A i \in 1..m : Freed[n + 1 + i] = V[i]
      /\ Freed[n + m + 2] = registries["vectors"].at
  <2>1. Parts(Freed, K, registries["keymaps"].at, V, registries["vectors"].at, n, m)
    BY <1>0, <1>1, <1>3, FreedIs
  <2>2. QED
    BY <2>1 DEF Parts
<1>5. \A i \in 1..(n + m + 2) :
        \/ i \in 1..n /\ Freed[i] = K[i]
        \/ i = n + 1 /\ Freed[i] = registries["keymaps"].at
        \/ \E j \in 1..m : i = n + 1 + j /\ Freed[i] = V[j]
        \/ i = n + m + 2 /\ Freed[i] = registries["vectors"].at
  <2> SUFFICES ASSUME NEW i \in 1..(n + m + 2)
               PROVE  \/ i \in 1..n /\ Freed[i] = K[i]
                      \/ i = n + 1 /\ Freed[i] = registries["keymaps"].at
                      \/ \E j \in 1..m : i = n + 1 + j /\ Freed[i] = V[j]
                      \/ i = n + m + 2 /\ Freed[i] = registries["vectors"].at
    OBVIOUS
  <2>1. i \in 1..n \/ i = n + 1 \/ i \in (n + 2)..(n + m + 1) \/ i = n + m + 2
    OBVIOUS
  <2>2. CASE i \in (n + 2)..(n + m + 1)
    <3>1. i - (n + 1) \in 1..m /\ i = n + 1 + (i - (n + 1))
      BY <2>2
    <3>2. QED
      BY <3>1, <1>4
  <2>3. QED
    BY <2>1, <2>2, <1>4
<1>6. \A kind \in Kinds : \A i \in DOMAIN registries[kind].slots :
        /\ registries[kind].slots[i] \in heap
        /\ \A k \in Kinds : registries[kind].slots[i] # registries[k].at
  <2> SUFFICES ASSUME NEW kind \in Kinds, NEW i \in DOMAIN registries[kind].slots
               PROVE  /\ registries[kind].slots[i] \in heap
                      /\ \A k \in Kinds : registries[kind].slots[i] # registries[k].at
    OBVIOUS
  <2>1. PICK v \in DOMAIN vecs : InSlot(v, kind, i)
    BY <1>1 DEF SlotsAre
  <2>2. QED
    BY <2>1, <1>1 DEF InSlot, HeapIs
<1>7. \A i \in DOMAIN Freed : Freed[i] \in heap
  <2>1. \A kind \in Kinds : registries[kind].at \in heap
    BY <1>1 DEF HeapIs
  <2>2. \A i \in 1..n : K[i] \in heap
    BY <1>0, <1>2, <1>3, <1>6
  <2>3. \A i \in 1..m : V[i] \in heap
    BY <1>0, <1>2, <1>3, <1>6
  <2>4. QED
    BY <2>1, <2>2, <2>3, <1>2, <1>4, <1>5
<1>8. \A i \in DOMAIN Freed : \A j \in 1..(i - 1) : Freed[j] # Freed[i]
  <2>1. /\ \A i, j \in 1..n : K[i] = K[j] => i = j
        /\ \A i, j \in 1..m : V[i] = V[j] => i = j
        /\ \A i \in 1..n : \A j \in 1..m : K[i] # V[j]
    BY <1>0, <1>1, <1>2, <1>3, SlotsApart
  <2>2. /\ \A i \in 1..n : K[i] # registries["keymaps"].at /\ K[i] # registries["vectors"].at
        /\ \A i \in 1..m : V[i] # registries["keymaps"].at /\ V[i] # registries["vectors"].at
    BY <1>0, <1>2, <1>3, <1>6
  <2>3. registries["vectors"].at # registries["keymaps"].at
    BY <1>1 DEF HeapIs
  <2> SUFFICES ASSUME NEW i \in 1..(n + m + 2), NEW j \in 1..(n + m + 2), Freed[j] = Freed[i]
               PROVE  i = j
    BY <1>4
  <2>4. QED
    BY <1>5, <2>1, <2>2, <2>3
<1>9. status' = "freed"
  BY <1>7, <1>8 DEF FreeAll
<1>10. heap' = {}
  <2>1. ASSUME NEW x \in heap PROVE \E i \in DOMAIN Freed : Freed[i] = x
    <3>1. CASE \E kind \in Kinds : x = registries[kind].at
      <4>1. x = registries["keymaps"].at \/ x = registries["vectors"].at
        BY <3>1, <1>2
      <4>2. n + 1 \in DOMAIN Freed /\ n + m + 2 \in DOMAIN Freed
        BY <1>4
      <4>3. QED
        BY <4>1, <4>2, <1>4
    <3>2. CASE \E v \in DOMAIN vecs : x = vecs[v].at
      <4>1. PICK v \in DOMAIN vecs : x = vecs[v].at
        BY <3>2
      <4>2. PICK kind \in Kinds : \E i \in DOMAIN registries[kind].slots : InSlot(v, kind, i)
        BY <1>1 DEF SlotsAre
      <4>3. PICK i \in DOMAIN registries[kind].slots : InSlot(v, kind, i)
        BY <4>2
      <4>4. x = registries[kind].slots[i]
        BY <4>1, <4>3 DEF InSlot
      <4>5. CASE kind = "keymaps"
        <5>1. i \in DOMAIN K /\ x = K[i]
          BY <4>5, <4>4, <1>0
        <5>2. i \in 1..n /\ i \in DOMAIN Freed
          BY <5>1, <1>3, <1>4
        <5>3. QED
          BY <5>1, <5>2, <1>4
      <4>6. CASE kind = "vectors"
        <5>1. i \in DOMAIN V /\ x = V[i]
          BY <4>6, <4>4, <1>0
        <5>2. i \in 1..m /\ n + 1 + i \in DOMAIN Freed
          BY <5>1, <1>3, <1>4
        <5>3. QED
          BY <5>1, <5>2, <1>4
      <4>7. QED
        BY <4>5, <4>6, <1>2
    <3>3. QED
      BY <3>1, <3>2, <1>1, <2>1 DEF HeapIs
  <2>2. heap' = heap \ {Freed[i] : i \in DOMAIN Freed}
    BY DEF FreeAll
  <2>3. QED
    BY <2>1, <2>2
<1>11. PoolTypeOK'
  <2>1. /\ vecs' = <<>>
        /\ registries' = [kind \in Kinds |-> [registries[kind] EXCEPT !.slots = <<>>]]
    BY DEF FreeAll
  <2>2. \A kind \in Kinds : [registries[kind] EXCEPT !.slots = <<>>] \in Registry
    <3> SUFFICES ASSUME NEW kind \in Kinds
                 PROVE  [registries[kind] EXCEPT !.slots = <<>>] \in Registry
      OBVIOUS
    <3>1. PICK r \in Registry : r = registries[kind]
      BY <1>2
    <3>2. <<>> \in Seq(Addresses)
      OBVIOUS
    <3>3. [r EXCEPT !.slots = <<>>] \in Registry
      BY <3>2 DEF Registry
    <3>4. QED
      BY <3>1, <3>3
  <2>3. QED
    BY <2>1, <2>2, <1>10 DEF PoolTypeOK
<1>12. QED
  BY <1>9, <1>10, <1>11 DEF PoolInv

-----------------------------------------------------------------------------
LEMMA PoolKept == ASSUME PoolInv, UNCHANGED <<heap, registries, vecs, status>> PROVE PoolInv'
<1>1. PoolTypeOK => PoolTypeOK'
  BY DEF PoolTypeOK
<1>2. HeapIs => HeapIs'
  BY DEF HeapIs
<1>3. SlotsAre => SlotsAre'
  <2>1. vecs' = vecs /\ registries' = registries
    OBVIOUS
  <2>2. \A v, kind, i : InSlot(v, kind, i)' <=> InSlot(v, kind, i)
    BY <2>1 DEF InSlot
  <2>3. QED
    BY <2>1, <2>2, Zenon DEF SlotsAre
<1>4. QED
  BY <1>1, <1>2, <1>3 DEF PoolInv

LEMMA InvInit == ASSUME Init PROVE Inv
<1>1. ArenaInv
  BY ArenaInitInv DEF Init
<1>2. chunks # <<>>
  BY DEF Init, ArenaInit
<1>3. PoolInv
  BY PoolInit
<1>4. operations \in 0..MaxOperations
  BY MempoolAssumption DEF Init
<1>5. QED
  BY <1>1, <1>2, <1>3, <1>4 DEF Inv

LEMMA InvNext == ASSUME Inv, [Next]_vars PROVE Inv'
<1>1. ASSUME Alloc PROVE Inv'
  <2>1. ArenaInv' /\ chunks' # <<>>
    BY <1>1, AllocInv DEF Inv, Alloc, Call
  <2>2. UNCHANGED <<heap, registries, vecs, status>>
    BY <1>1 DEF Alloc, poolVars
  <2>3. PoolInv'
    BY <2>2, PoolKept DEF Inv
  <2>4. operations' \in 0..MaxOperations
    BY <1>1, MempoolAssumption DEF Inv, Alloc, Call
  <2>5. QED
    BY <2>1, <2>3, <2>4 DEF Inv
<1>2. ASSUME ChangeVecs PROVE Inv'
  <2>1. PoolInv /\ status = "running"
    BY <1>2 DEF Inv, ChangeVecs, Call
  <2>2. PoolInv'
    BY <1>2, <2>1, AddVecInv, GrowInv, ShrinkInv DEF ChangeVecs
  <2>3. UNCHANGED <<chunks, pieces, served>>
    BY <1>2 DEF ChangeVecs, arenaVars
  <2>4. ArenaInv' /\ chunks' # <<>>
    BY <2>1, <2>3 DEF Inv, ArenaInv, ArenaTypeOK, PiecesApart
  <2>5. operations' \in 0..MaxOperations
    BY <1>2, MempoolAssumption DEF Inv, ChangeVecs, Call
  <2>6. QED
    BY <2>2, <2>4, <2>5 DEF Inv
<1>3. ASSUME Free PROVE Inv'
  <2>1. ArenaInv'
    BY <1>3, FreeInv DEF Inv, Free
  <2>2. PoolInv' /\ status' = "freed"
    <3>1. PoolInv /\ status = "running" /\ FreeAll
      BY <1>3 DEF Inv, Free
    <3>2. PoolInv'
      BY <3>1, FreeAllInv
    <3>3. status' \in {"freed", "bad free"}
      BY <3>1 DEF FreeAll
    <3>4. QED
      BY <3>2, <3>3 DEF PoolInv
  <2>3. operations' \in 0..MaxOperations
    BY <1>3 DEF Inv, Free
  <2>4. QED
    BY <2>1, <2>2, <2>3 DEF Inv
<1>4. ASSUME UNCHANGED vars PROVE Inv'
  <2>1. /\ UNCHANGED <<chunks, pieces, served>>
        /\ UNCHANGED <<heap, registries, vecs, status>>
        /\ UNCHANGED operations
    BY <1>4 DEF vars, arenaVars, poolVars
  <2>2. ArenaInv'
    BY <2>1 DEF Inv, ArenaInv, ArenaTypeOK, PiecesApart
  <2>3. PoolInv'
    BY <2>1, PoolKept DEF Inv
  <2>4. QED
    BY <2>1, <2>2, <2>3 DEF Inv
<1>5. QED
  BY <1>1, <1>2, <1>3, <1>4 DEF Next

\* Inv is what every step of the calls keeps.
THEOREM PoolInvariant == Spec => []Inv
<1>1. Init => Inv
  BY InvInit
<1>2. Inv /\ [Next]_vars => Inv'
  BY InvNext
<1>3. QED
  BY <1>1, <1>2, PTL DEF Spec

\* Chunks, pieces, registries and headers are what the C types say, and the top of
\* a chunk is never behind its end (core/arena.c, core/mempool.c, core/vec.c).
THEOREM TypeCorrect == Spec => []TypeOK
<1>1. Inv => TypeOK
  BY DEF Inv, ArenaInv, PoolInv, PoolTypeOK, TypeOK
<1>2. QED
  BY <1>1, PoolInvariant, PTL

\* Every allocation is served and no two pieces of the arena overlap, for all sizes
\* and all alignments that divide each other (__arena_take, __arena_new).
THEOREM AllocationsApart == Spec => []PiecesApart
<1>1. Inv => PiecesApart
  BY DEF Inv, ArenaInv
<1>2. QED
  BY <1>1, PoolInvariant, PTL

\* However often vectors and registries grow and move, every slot a vector writes to
\* is its own and mempool_free frees everything once.
THEOREM EverythingFreedOnce == Spec => []FreedOnce
<1>1. Inv => FreedOnce
  BY DEF Inv, PoolInv, FreedOnce
<1>2. QED
  BY <1>1, PoolInvariant, PTL

\* A piece is misaligned only behind one whose size is no multiple of its alignment, in
\* a chunk made for less alignment, or if its alignment is greater than the size of the
\* meta data: for all powers of two and any number of calls (__arena_take, __arena_new).
THEOREM MisalignmentExplained == Spec => []MisalignedExplained
<1>1. Init => AlignInv
  BY AlignInit DEF Init
<1>2. Inv /\ AlignInv /\ [Next]_vars => AlignInv'
  <2> SUFFICES ASSUME Inv, AlignInv, [Next]_vars PROVE AlignInv'
    OBVIOUS
  <2>1. CASE Alloc
    BY <2>1, AlignAlloc DEF Inv, Alloc, Call
  <2>2. CASE ChangeVecs
    <3>1. UNCHANGED <<chunks, pieces>>
      BY <2>2 DEF ChangeVecs, arenaVars
    <3>2. QED
      BY <3>1, AlignKept
  <2>3. CASE Free
    BY <2>3, AlignFree DEF Free
  <2>4. CASE UNCHANGED vars
    <3>1. UNCHANGED <<chunks, pieces>>
      BY <2>4 DEF vars, arenaVars
    <3>2. QED
      BY <3>1, AlignKept
  <2>5. QED
    BY <2>1, <2>2, <2>3, <2>4 DEF Next
<1>3. AlignInv => MisalignedExplained
  BY DEF AlignInv
<1>4. QED
  BY <1>1, <1>2, <1>3, PoolInvariant, PTL DEF Spec
=============================================================================
