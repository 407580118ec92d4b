------------------------ MODULE CommandRecorderProofs ------------------------
(***************************************************************************)
(* CommandRecorder, for every block size, alignment and set of calls: what *)
(* was recorded stays apart and unchanged until the next Reset, a dump of  *)
(* a command prints what was passed to it as far as ParametersArePassed    *)
(* says, and recording the same again makes no new block.                  *)
(***************************************************************************)
EXTENDS CommandRecorder, SequenceTheorems, WellFoundedInduction, TLAPS

-----------------------------------------------------------------------------
(* Blocks.                                                                 *)

Memory == UNION {[0 .. n - 1 -> Cell] : n \in Nat}

Block ==
  {b \in [size : Nat, base : 0 .. kAlignment - 1, head : Nat, data : Memory] :
     b.head <= b.size /\ b.data \in [0 .. b.size - 1 -> Cell]}

LEMMA RoundedUp ==
  ASSUME NEW b \in Block
  PROVE  Rounded(b) \in Nat /\ b.head <= Rounded(b)
<1>1. b.head \in Nat /\ b.base + b.head \in Int BY DEF Block
<1>2. (b.base + b.head) % kAlignment \in 0 .. kAlignment - 1
  BY <1>1, AllocatorAssumption
<1>3. (kAlignment - ((b.base + b.head) % kAlignment)) % kAlignment \in 0 .. kAlignment - 1
  BY <1>2, AllocatorAssumption
<1>4. QED BY <1>1, <1>3, AllocatorAssumption DEF Rounded

LEMMA FilledBlock ==
  ASSUME NEW b \in Block, NEW c \in Seq(Cell), Fits(b, Len(c))
  PROVE  LET f == Filled(b, c) IN
         /\ f \in Block /\ f.size = b.size /\ f.head = Rounded(b) + Len(c)
         /\ \A o \in 0 .. b.size - 1 :
              f.data[o] = IF o \in Rounded(b) .. Rounded(b) + Len(c) - 1
                          THEN c[o - Rounded(b) + 1] ELSE b.data[o]
<1> DEFINE at == Rounded(b)
           d == [o \in DOMAIN b.data |-> IF o \in at .. at + Len(c) - 1
                                         THEN c[o - at + 1] ELSE b.data[o]]
<1>1. at \in Nat /\ b.head <= at BY RoundedUp
<1>2. at + Len(c) <= b.size BY DEF Fits
<1>3. Filled(b, c) = [b EXCEPT !.head = at + Len(c), !.data = d]
  BY DEF Filled
<1> HIDE DEF at
<1>4. /\ b.size \in Nat /\ DOMAIN b.data = 0 .. b.size - 1
      /\ \A o \in 0 .. b.size - 1 : b.data[o] \in Cell
  BY DEF Block
<1>5. ASSUME NEW o \in 0 .. b.size - 1 PROVE d[o] \in Cell
  <2>1. CASE o \in at .. at + Len(c) - 1
    <3>1. o - at + 1 \in 1 .. Len(c) BY <1>1, <2>1
    <3>2. d[o] = c[o - at + 1] BY <1>4, <2>1
    <3>3. QED BY <3>1, <3>2
  <2>2. CASE o \notin at .. at + Len(c) - 1 BY <1>4, <2>2
  <2>3. QED BY <2>1, <2>2
<1>6. d \in [0 .. b.size - 1 -> Cell] BY <1>4, <1>5
<1>7. \A o \in 0 .. b.size - 1 : d[o] = IF o \in at .. at + Len(c) - 1
                                        THEN c[o - at + 1] ELSE b.data[o]
  BY <1>4
<1> HIDE DEF d
<1>8. d \in Memory BY <1>4, <1>6 DEF Memory
<1> DEFINE f == [b EXCEPT !.head = at + Len(c), !.data = d]
<1>9. f.size = b.size /\ f.head = at + Len(c) /\ f.data = d BY DEF Block
<1>10. at + Len(c) \in Nat BY <1>1
<1>11. f \in Block BY <1>2, <1>6, <1>8, <1>9, <1>10 DEF Block
<1>12. QED BY <1>3, <1>7, <1>9, <1>11 DEF at

LEMMA NewBlockFits ==
  ASSUME NEW size \in Nat, NEW base \in Bases
  PROVE  LET b == NewBlock(NewBlockSize(size), base) IN
         b \in Block /\ b.head = 0 /\ Fits(b, size)
<1> DEFINE n == NewBlockSize(size)
           b == NewBlock(n, base)
<1>1. n \in Nat /\ size + kAlignment <= n
  BY AllocatorAssumption DEF NewBlockSize
<1> HIDE DEF n
<1>2. /\ b.size = n /\ b.base = base /\ b.head = 0
      /\ b.data = [o \in 0 .. n - 1 |-> Undefined]
  BY DEF NewBlock
<1>3. b.data \in [0 .. n - 1 -> Cell] BY <1>2 DEF Cell
<1>4. base \in 0 .. kAlignment - 1 BY AllocatorAssumption
<1>5. b \in Block
  <2>1. [o \in 0 .. n - 1 |-> Undefined] \in Memory
    BY <1>1, <1>2, <1>3 DEF Memory
  <2>2. QED BY <1>1, <1>3, <1>4, <2>1 DEF Block, NewBlock
<1>6. Rounded(b) < kAlignment /\ Rounded(b) \in Nat
  <2>1. (base + 0) % kAlignment \in 0 .. kAlignment - 1
    BY <1>4, AllocatorAssumption
  <2>2. (kAlignment - ((base + 0) % kAlignment)) % kAlignment \in 0 .. kAlignment - 1
    BY <2>1, AllocatorAssumption
  <2>3. QED BY <1>2, <2>2, AllocatorAssumption DEF Rounded
<1>7. Rounded(b) + size <= n BY <1>1, <1>6, AllocatorAssumption
<1>8. QED BY <1>2, <1>5, <1>7 DEF Fits, n

LEMMA FirstBlockIsSound ==
  ASSUME NEW base \in Bases
  PROVE  LET b == NewBlock(kDefaultBlockSize, base) IN b \in Block /\ b.head = 0
<1> DEFINE n == kDefaultBlockSize
           b == NewBlock(n, base)
<1>1. n \in Nat /\ base \in 0 .. kAlignment - 1 BY AllocatorAssumption
<1>2. /\ b.size = n /\ b.base = base /\ b.head = 0
      /\ b.data = [o \in 0 .. n - 1 |-> Undefined]
  BY DEF NewBlock
<1>3. b.data \in [0 .. n - 1 -> Cell] BY <1>2 DEF Cell
<1>4. [o \in 0 .. n - 1 |-> Undefined] \in Memory
  BY <1>1, <1>2, <1>3 DEF Memory
<1>5. QED BY <1>1, <1>2, <1>3, <1>4 DEF Block, NewBlock

LEMMA StoredBlock ==
  ASSUME NEW b \in Block, NEW o \in 0 .. b.size - 1, NEW v \in Cell
  PROVE  LET f == [b EXCEPT !.data[o] = v] IN
         /\ f \in Block /\ f.size = b.size /\ f.head = b.head
         /\ f.data[o] = v
         /\ \A x \in 0 .. b.size - 1 : x # o => f.data[x] = b.data[x]
<1> DEFINE d == [b.data EXCEPT ![o] = v]
<1>1. b.data \in [0 .. b.size - 1 -> Cell] /\ b.size \in Nat BY DEF Block
<1>2. /\ d \in [0 .. b.size - 1 -> Cell] /\ d[o] = v
      /\ \A x \in 0 .. b.size - 1 : x # o => d[x] = b.data[x]
  BY <1>1
<1>3. [b EXCEPT !.data[o] = v] = [b EXCEPT !.data = d] BY DEF Block
<1> HIDE DEF d
<1>4. d \in Memory BY <1>1, <1>2 DEF Memory
<1>5. QED BY <1>2, <1>3, <1>4 DEF Block

-----------------------------------------------------------------------------
(* Blocks and the pieces in them.                                          *)

Placed == [block : Nat, at : Nat, contents : Seq(Cell)]

\* One past the last cell of a piece.
End(piece) == piece.at + Len(piece.contents)

LEMMA PlacedShape ==
  ASSUME NEW piece \in Placed
  PROVE  /\ piece.block \in Nat /\ piece.at \in Nat /\ Len(piece.contents) \in Nat
         /\ End(piece) \in Nat /\ End(piece) = piece.at + Len(piece.contents)
         /\ piece.contents \in Seq(Cell)
BY DEF Placed, End

LEMMA BlockShape ==
  ASSUME NEW b \in Block
  PROVE  b.head \in Nat /\ b.size \in Nat /\ b.head <= b.size
BY DEF Block

LEMMA EndsInBlock ==
  ASSUME NEW b \in Block, NEW piece \in Placed, End(piece) <= b.head
  PROVE  /\ piece.at \in Nat /\ Len(piece.contents) \in Nat /\ End(piece) \in Nat
         /\ End(piece) = piece.at + Len(piece.contents)
         /\ End(piece) <= b.size /\ b.size \in Nat
<1>1. /\ End(piece) \in Nat /\ End(piece) = piece.at + Len(piece.contents)
      /\ piece.at \in Nat /\ Len(piece.contents) \in Nat
  BY PlacedShape
<1>2. b.head \in Nat /\ b.size \in Nat /\ b.head <= b.size BY BlockShape
<1>3. End(piece) <= b.size BY <1>1, <1>2
<1>4. QED BY <1>1, <1>2, <1>3

LEMMA CellOfPiece ==
  ASSUME NEW a \in Nat, NEW n \in Nat, NEW size \in Nat, a + n <= size, NEW i \in 1 .. n
  PROVE  a + i - 1 \in 0 .. size - 1 /\ a + i - 1 \in Nat
         /\ a <= a + i - 1 /\ a + i - 1 < a + n
OBVIOUS

LEMMA PlaceOfCell ==
  ASSUME NEW a \in Nat, NEW n \in Nat, NEW i \in 1 .. n
  PROVE  a + i - 1 \in Nat /\ a + i <= a + n
OBVIOUS

LEMMA CellInBlock ==
  ASSUME NEW a \in Nat, NEW n \in Nat, NEW size \in Nat, a + n <= size, NEW i \in 1 .. n
  PROVE  /\ a + i - 1 \in 0 .. size - 1 /\ a + i - 1 \in a .. a + n - 1
         /\ (a + i - 1) - a + 1 = i
OBVIOUS

LEMMA CellBefore ==
  ASSUME NEW a \in Nat, NEW i \in Nat \ {0}, NEW e \in Nat, NEW at \in Nat, NEW n \in Nat,
         NEW size \in Nat, a + i <= e, e <= at, at + n <= size
  PROVE  /\ a + i - 1 \in 0 .. size - 1 /\ a + i - 1 < at
         /\ a + i - 1 \notin at .. at + n - 1
OBVIOUS

\* Heads are where nothing is used, and no block after the active one is.
BlocksSound(blks, active) ==
  /\ blks \in Seq(Block) /\ active \in 1 .. Len(blks)
  /\ \A j \in 1 .. Len(blks) : j > active => blks[j].head = 0

\* Every piece lies below the head of a block in use.
PiecesBelow(blks, active, ps) ==
  /\ ps \in Seq(Placed)
  /\ \A k \in 1 .. Len(ps) :
       ps[k].block \in 1 .. active /\ End(ps[k]) <= blks[ps[k].block].head

\* Pieces of one block lie one after the other.
PiecesApart(ps) ==
  \A k, l \in 1 .. Len(ps) :
    k # l /\ ps[k].block = ps[l].block =>
      End(ps[k]) <= ps[l].at \/ End(ps[l]) <= ps[k].at

PieceInMemory(blks, piece) ==
  \A i \in 1 .. Len(piece.contents) :
    blks[piece.block].data[piece.at + i - 1] = piece.contents[i]

PiecesInMemory(blks, ps) ==
  \A k \in 1 .. Len(ps) : PieceInMemory(blks, ps[k])

Sound(blks, active, ps) ==
  /\ BlocksSound(blks, active) /\ PiecesBelow(blks, active, ps)
  /\ PiecesApart(ps) /\ PiecesInMemory(blks, ps)

LEMMA SoundWithBlock ==
  ASSUME NEW blks, NEW active, NEW ps, Sound(blks, active, ps),
         NEW b \in Block, b.head = 0
  PROVE  Sound(Append(blks, b), active, ps)
<1> DEFINE more == Append(blks, b)
<1>1. /\ blks \in Seq(Block) /\ active \in 1 .. Len(blks)
      /\ more \in Seq(Block) /\ Len(more) = Len(blks) + 1 /\ more[Len(blks) + 1] = b
      /\ \A j \in 1 .. Len(blks) : more[j] = blks[j]
  BY AppendProperties DEF Sound, BlocksSound
<1> HIDE DEF more
<1>2. BlocksSound(more, active) BY <1>1 DEF Sound, BlocksSound
<1>3. PiecesBelow(more, active, ps) BY <1>1 DEF Sound, PiecesBelow
<1>4. \A k \in 1 .. Len(ps) : ps[k].block \in 1 .. Len(blks)
  BY <1>1 DEF Sound, PiecesBelow
<1>5. PiecesInMemory(more, ps)
  <2> SUFFICES ASSUME NEW k \in 1 .. Len(ps) PROVE PieceInMemory(more, ps[k])
    BY DEF PiecesInMemory
  <2>1. PieceInMemory(blks, ps[k]) BY DEF Sound, PiecesInMemory
  <2>2. more[ps[k].block] = blks[ps[k].block] BY <1>1, <1>4
  <2>3. QED BY <2>1, <2>2 DEF PieceInMemory
<1>6. QED BY <1>2, <1>3, <1>5 DEF Sound, more

LEMMA SoundWithPiece ==
  ASSUME NEW blks, NEW active, NEW ps, Sound(blks, active, ps),
         NEW j \in active .. Len(blks), NEW c \in Seq(Cell), Fits(blks[j], Len(c))
  PROVE  Sound([blks EXCEPT ![j] = Filled(@, c)], j,
               Append(ps, [block |-> j, at |-> Rounded(blks[j]), contents |-> c]))
<1> DEFINE at == Rounded(blks[j])
           f == Filled(blks[j], c)
           new == [block |-> j, at |-> at, contents |-> c]
           filled == [blks EXCEPT ![j] = f]
           more == Append(ps, new)
           n == Len(ps)
<1>1. /\ blks \in Seq(Block) /\ active \in 1 .. Len(blks) /\ j \in 1 .. Len(blks)
      /\ blks[j] \in Block /\ ps \in Seq(Placed)
  BY DEF Sound, BlocksSound, PiecesBelow
<1>2. at \in Nat /\ blks[j].head <= at BY <1>1, RoundedUp
<1>3. /\ f \in Block /\ f.size = blks[j].size /\ f.head = at + Len(c)
      /\ \A o \in 0 .. blks[j].size - 1 :
           f.data[o] = IF o \in at .. at + Len(c) - 1 THEN c[o - at + 1]
                       ELSE blks[j].data[o]
  BY <1>1, FilledBlock
<1>4. at + Len(c) <= blks[j].size BY DEF Fits
<1> HIDE DEF f, at
<1>5. /\ filled \in Seq(Block) /\ Len(filled) = Len(blks) /\ filled[j] = f
      /\ \A k \in 1 .. Len(blks) : k # j => filled[k] = blks[k]
  BY <1>1, <1>3
<1>6. new \in Placed /\ new.block = j /\ new.at = at /\ new.contents = c
      /\ End(new) = at + Len(c)
  BY <1>1, <1>2 DEF Placed, End
<1> HIDE DEF filled, new
<1>7. /\ more \in Seq(Placed) /\ Len(more) = n + 1 /\ more[n + 1] = new /\ n \in Nat
      /\ \A k \in 1 .. n : more[k] = ps[k]
  BY <1>1, <1>6, AppendProperties
<1>8. \A k \in 1 .. n : /\ ps[k].block \in 1 .. active /\ ps[k].block \in 1 .. Len(blks)
                        /\ End(ps[k]) <= blks[ps[k].block].head
                        /\ ps[k] \in Placed
  BY <1>1 DEF Sound, PiecesBelow
<1> HIDE DEF n
<1>9. \A k \in 1 .. n : End(ps[k]) \in Nat /\ blks[ps[k].block].head \in Nat
  BY <1>1, <1>8, PlacedShape, BlockShape
<1>10. blks[j].head \in Nat /\ blks[j].size \in Nat /\ Len(c) \in Nat
  BY <1>1, BlockShape
<1> HIDE DEF more
<1>11. BlocksSound(filled, j)
  BY <1>1, <1>5 DEF Sound, BlocksSound
<1>12. \A k \in 1 .. n : ps[k].block = j => End(ps[k]) <= at
  BY <1>2, <1>8, <1>9, <1>10
<1>13. PiecesBelow(filled, j, more)
  <2> SUFFICES ASSUME NEW k \in 1 .. n + 1
               PROVE  more[k].block \in 1 .. j /\ End(more[k]) <= filled[more[k].block].head
    BY <1>7 DEF PiecesBelow
  <2>1. CASE k = n + 1
    <3>1. End(new) <= f.head BY <1>2, <1>3, <1>6, <1>10
    <3>2. QED BY <1>1, <1>5, <1>6, <1>7, <2>1, <3>1
  <2>2. CASE k \in 1 .. n
    <3>1. more[k] = ps[k] /\ ps[k].block \in 1 .. j BY <1>1, <1>7, <1>8, <2>2
    <3>2. CASE ps[k].block = j
      <4>1. End(ps[k]) <= f.head BY <1>2, <1>3, <1>12, <1>9, <1>10, <2>2, <3>2
      <4>2. QED BY <1>5, <3>1, <3>2, <4>1
    <3>3. CASE ps[k].block # j BY <1>5, <1>8, <2>2, <3>1, <3>3
    <3>4. QED BY <3>2, <3>3
  <2>3. QED BY <1>7, <2>1, <2>2
<1>14. PiecesApart(more)
  <2> SUFFICES ASSUME NEW k \in 1 .. n + 1, NEW l \in 1 .. n + 1, k # l,
                      more[k].block = more[l].block
               PROVE  End(more[k]) <= more[l].at \/ End(more[l]) <= more[k].at
    BY <1>7 DEF PiecesApart
  <2>1. CASE k \in 1 .. n /\ l \in 1 .. n
    BY <1>7, <2>1 DEF Sound, PiecesApart, n
  <2>2. CASE k = n + 1 BY <1>6, <1>7, <1>12, <2>2
  <2>3. CASE l = n + 1 BY <1>6, <1>7, <1>12, <2>3
  <2>4. QED BY <1>7, <2>1, <2>2, <2>3
<1>15. PiecesInMemory(filled, more)
  <2>1. PieceInMemory(filled, new)
    <3> SUFFICES ASSUME NEW i \in 1 .. Len(c) PROVE f.data[at + i - 1] = c[i]
      BY <1>5, <1>6 DEF PieceInMemory
    <3>1. /\ at + i - 1 \in 0 .. blks[j].size - 1
          /\ at + i - 1 \in at .. at + Len(c) - 1
          /\ (at + i - 1) - at + 1 = i
      BY <1>2, <1>4, <1>10, CellInBlock
    <3>2. QED BY <1>3, <3>1
  <2>2. ASSUME NEW k \in 1 .. n PROVE PieceInMemory(filled, ps[k])
    <3>1. PieceInMemory(blks, ps[k]) BY DEF Sound, PiecesInMemory, n
    <3>2. CASE ps[k].block # j BY <1>5, <1>8, <3>1, <3>2 DEF PieceInMemory
    <3>3. CASE ps[k].block = j
      <4> SUFFICES ASSUME NEW i \in 1 .. Len(ps[k].contents)
                   PROVE  f.data[ps[k].at + i - 1] = ps[k].contents[i]
        BY <1>5, <3>3 DEF PieceInMemory
      <4>1. /\ ps[k].at \in Nat /\ Len(ps[k].contents) \in Nat
            /\ ps[k].at + i - 1 \in Nat /\ ps[k].at + i <= End(ps[k])
        <5>1. ps[k] \in Placed BY <1>8
        <5>2. /\ ps[k].at \in Nat /\ Len(ps[k].contents) \in Nat
              /\ End(ps[k]) = ps[k].at + Len(ps[k].contents)
          BY <5>1, PlacedShape
        <5>3. /\ ps[k].at + i - 1 \in Nat
              /\ ps[k].at + i <= ps[k].at + Len(ps[k].contents)
          BY <5>2, PlaceOfCell
        <5>4. QED BY <5>2, <5>3
      <4>2. End(ps[k]) \in Nat /\ End(ps[k]) <= at BY <1>9, <1>12, <3>3
      <4>3. /\ ps[k].at + i - 1 \in 0 .. blks[j].size - 1
            /\ ps[k].at + i - 1 \notin at .. at + Len(c) - 1
        <5>1. i \in Nat \ {0} BY <4>1
        <5>2. QED BY <1>2, <1>4, <1>10, <4>1, <4>2, <5>1, CellBefore
      <4>4. f.data[ps[k].at + i - 1] = blks[j].data[ps[k].at + i - 1]
        BY <1>3, <4>3
      <4>5. QED BY <3>1, <3>3, <4>4 DEF PieceInMemory
    <3>4. QED BY <3>2, <3>3
  <2>3. QED BY <1>7, <2>1, <2>2 DEF PiecesInMemory
<1>16. Sound(filled, j, more) BY <1>11, <1>13, <1>14, <1>15 DEF Sound
<1>17. QED BY <1>16 DEF filled, f, more, new, at

LEMMA SoundWithPointer ==
  ASSUME NEW blks, NEW active, NEW ps, Sound(blks, active, ps),
         NEW m \in 1 .. Len(ps), NEW slot \in 1 .. Len(ps[m].contents), NEW v \in Cell
  PROVE  Sound([blks EXCEPT ![ps[m].block].data[ps[m].at + slot - 1] = v], active,
               [ps EXCEPT ![m].contents[slot] = v])
<1> DEFINE j == ps[m].block
           o == ps[m].at + slot - 1
           f == [blks[j] EXCEPT !.data[o] = v]
           stored == [blks EXCEPT ![j] = f]
           c == [ps[m].contents EXCEPT ![slot] = v]
           piece == [ps[m] EXCEPT !.contents = c]
           changed == [ps EXCEPT ![m] = piece]
<1>1. /\ blks \in Seq(Block) /\ active \in 1 .. Len(blks) /\ ps \in Seq(Placed)
      /\ \A k \in 1 .. Len(ps) : /\ ps[k].block \in 1 .. Len(blks)
                                /\ ps[k].block \in 1 .. active
                                /\ ps[k] \in Placed
                                /\ blks[ps[k].block] \in Block
                                /\ End(ps[k]) <= blks[ps[k].block].head
  BY DEF Sound, BlocksSound, PiecesBelow
<1>2. \A k \in 1 .. Len(ps) :
        /\ ps[k].at \in Nat /\ Len(ps[k].contents) \in Nat
        /\ End(ps[k]) = ps[k].at + Len(ps[k].contents)
        /\ blks[ps[k].block].head \in Nat /\ blks[ps[k].block].size \in Nat
        /\ blks[ps[k].block].head <= blks[ps[k].block].size
  BY <1>1, PlacedShape, BlockShape
<1>3. ASSUME NEW k \in 1 .. Len(ps), NEW i \in 1 .. Len(ps[k].contents)
      PROVE  /\ ps[k].at + i - 1 \in 0 .. blks[ps[k].block].size - 1
             /\ ps[k].at + i - 1 \in Nat
             /\ ps[k].at <= ps[k].at + i - 1 /\ ps[k].at + i - 1 < End(ps[k])
  <2>1. /\ ps[k].at \in Nat /\ Len(ps[k].contents) \in Nat /\ End(ps[k]) \in Nat
        /\ End(ps[k]) = ps[k].at + Len(ps[k].contents)
        /\ End(ps[k]) <= blks[ps[k].block].size /\ blks[ps[k].block].size \in Nat
    <3>1. ps[k] \in Placed /\ blks[ps[k].block] \in Block
          /\ End(ps[k]) <= blks[ps[k].block].head
      BY <1>1
    <3>2. QED BY <3>1, EndsInBlock
  <2>2. ps[k].at + Len(ps[k].contents) <= blks[ps[k].block].size BY <2>1
  <2>3. QED BY <2>1, <2>2, CellOfPiece
<1>4. /\ f \in Block /\ f.size = blks[j].size /\ f.head = blks[j].head /\ f.data[o] = v
      /\ \A x \in 0 .. blks[j].size - 1 : x # o => f.data[x] = blks[j].data[x]
  <2>1. o \in 0 .. blks[j].size - 1 BY <1>3
  <2>2. blks[j] \in Block BY <1>1
  <2> HIDE DEF o, j
  <2>3. QED BY <2>1, <2>2, StoredBlock
<1>5. /\ c \in Seq(Cell) /\ Len(c) = Len(ps[m].contents) /\ c[slot] = v
      /\ \A i \in 1 .. Len(c) : i # slot => c[i] = ps[m].contents[i]
  <2>1. ps[m].contents \in Seq(Cell) BY <1>1, PlacedShape
  <2>2. QED BY <2>1
<1>6. /\ [blks EXCEPT ![ps[m].block].data[ps[m].at + slot - 1] = v] = stored
      /\ [ps EXCEPT ![m].contents[slot] = v] = changed
  BY <1>1
<1> HIDE DEF f, c, o
<1>7. /\ piece \in Placed /\ piece.block = j /\ piece.at = ps[m].at
      /\ piece.contents = c /\ End(piece) = End(ps[m])
  BY <1>1, <1>2, <1>5 DEF Placed, End
<1> HIDE DEF piece
<1>8. /\ changed \in Seq(Placed) /\ Len(changed) = Len(ps) /\ changed[m] = piece
      /\ \A k \in 1 .. Len(ps) : k # m => changed[k] = ps[k]
  BY <1>1, <1>7
<1>9. /\ stored \in Seq(Block) /\ Len(stored) = Len(blks) /\ stored[j] = f
      /\ \A k \in 1 .. Len(blks) : k # j => stored[k] = blks[k]
  BY <1>1, <1>4
<1>10. \A k \in 1 .. Len(ps) : changed[k].block = ps[k].block /\ changed[k].at = ps[k].at
                              /\ End(changed[k]) = End(ps[k])
  BY <1>7, <1>8
<1>11. \A k \in 1 .. Len(blks) : stored[k].head = blks[k].head
  BY <1>4, <1>9
<1> HIDE DEF stored, changed
<1>12. BlocksSound(stored, active) BY <1>1, <1>9, <1>11 DEF Sound, BlocksSound
<1>13. PiecesBelow(stored, active, changed)
  BY <1>1, <1>8, <1>10, <1>11 DEF PiecesBelow
<1>14. PiecesApart(changed) BY <1>8, <1>10 DEF Sound, PiecesApart
<1>15. PiecesInMemory(stored, changed)
  <2>1. PieceInMemory(blks, ps[m]) BY DEF Sound, PiecesInMemory
  <2>2. PieceInMemory(stored, piece)
    <3> SUFFICES ASSUME NEW i \in 1 .. Len(c) PROVE f.data[ps[m].at + i - 1] = c[i]
      BY <1>7, <1>9 DEF PieceInMemory
    <3>1. CASE i = slot BY <1>4, <1>5, <3>1 DEF o
    <3>2. CASE i # slot
      <4>1. ps[m].at + i - 1 \in 0 .. blks[j].size - 1 /\ ps[m].at + i - 1 # o
        <5>1. i \in 1 .. Len(ps[m].contents) BY <1>5
        <5>2. ps[m].at \in Nat BY <1>1, PlacedShape
        <5>3. ps[m].at + i - 1 \in 0 .. blks[j].size - 1 BY <1>3, <5>1
        <5>4. QED BY <3>2, <5>1, <5>2, <5>3 DEF o
      <4>2. QED BY <1>4, <1>5, <2>1, <3>2, <4>1 DEF PieceInMemory
    <3>3. QED BY <3>1, <3>2
  <2>3. ASSUME NEW k \in 1 .. Len(ps), k # m PROVE PieceInMemory(stored, ps[k])
    <3>1. PieceInMemory(blks, ps[k]) BY DEF Sound, PiecesInMemory
    <3>2. CASE ps[k].block # j BY <1>1, <1>9, <3>1, <3>2 DEF PieceInMemory
    <3>3. CASE ps[k].block = j
      <4> SUFFICES ASSUME NEW i \in 1 .. Len(ps[k].contents)
                   PROVE  f.data[ps[k].at + i - 1] = ps[k].contents[i]
        BY <1>9, <3>3 DEF PieceInMemory
      <4>1. End(ps[k]) <= ps[m].at \/ End(ps[m]) <= ps[k].at
        BY <2>3, <3>3 DEF Sound, PiecesApart
      <4>2. ps[k].at + i - 1 \in 0 .. blks[j].size - 1 BY <1>3, <3>3
      <4>3. ps[k].at + i - 1 # o
        <5>1. /\ ps[k].at + i - 1 \in Nat /\ ps[k].at <= ps[k].at + i - 1
              /\ ps[k].at + i - 1 < End(ps[k])
          BY <1>3
        <5>2. o \in Nat /\ ps[m].at <= o /\ o < End(ps[m]) BY <1>3 DEF o
        <5>3. /\ End(ps[k]) \in Nat /\ End(ps[m]) \in Nat
              /\ ps[k].at \in Nat /\ ps[m].at \in Nat
          BY <1>1, PlacedShape
        <5>4. QED BY <4>1, <5>1, <5>2, <5>3
      <4>4. QED BY <1>4, <3>1, <3>3, <4>2, <4>3 DEF PieceInMemory
    <3>4. QED BY <3>2, <3>3
  <2>4. QED BY <1>8, <2>2, <2>3 DEF PiecesInMemory
<1>16. Sound(stored, active, changed) BY <1>12, <1>13, <1>14, <1>15 DEF Sound
<1>17. QED BY <1>6, <1>16 DEF stored, changed, piece, f, c, o

LEMMA SoundAfterReset ==
  ASSUME NEW blks, NEW active, NEW ps, Sound(blks, active, ps)
  PROVE  Sound(ResetBlocks(blks), 1, <<>>)
<1> DEFINE r == ResetBlocks(blks)
<1>1. blks \in Seq(Block) /\ active \in 1 .. Len(blks) BY DEF Sound, BlocksSound
<1>2. ASSUME NEW b \in Block
      PROVE  [b EXCEPT !.head = 0] \in Block /\ [b EXCEPT !.head = 0].head = 0
  BY DEF Block
<1>3. r \in Seq(Block) /\ Len(r) = Len(blks) /\ \A j \in 1 .. Len(blks) : r[j].head = 0
  <2>1. Len(blks) \in Nat /\ \A j \in 1 .. Len(blks) : blks[j] \in Block BY <1>1
  <2>2. /\ DOMAIN r = 1 .. Len(blks)
        /\ \A j \in 1 .. Len(blks) : r[j] \in Block /\ r[j].head = 0
    BY <1>2, <2>1 DEF ResetBlocks
  <2>3. r \in [1 .. Len(blks) -> Block] BY <2>2 DEF ResetBlocks
  <2>4. r \in Seq(Block) /\ Len(r) = Len(blks) BY <2>1, <2>3, LenProperties
  <2>5. QED BY <2>2, <2>4
<1> HIDE DEF r
<1>4. BlocksSound(r, 1) BY <1>1, <1>3 DEF BlocksSound
<1>5. PiecesBelow(r, 1, <<>>) /\ PiecesApart(<<>>) /\ PiecesInMemory(r, <<>>)
  BY DEF PiecesBelow, PiecesApart, PiecesInMemory
<1>6. QED BY <1>4, <1>5 DEF Sound, r

-----------------------------------------------------------------------------
(* The pieces of a call.                                                   *)

PieceShape == [passed : Seq(Cell), copied : Nat, parent : Nat, slot : Nat]

\* The pieces of a call are parts of what was passed, and each follows the
\* one that points to it from a cell that is copied.
WellFormed(r) ==
  /\ r \in Seq(PieceShape)
  /\ \A k \in 1 .. Len(r) :
       /\ r[k].copied <= Len(r[k].passed)
       /\ r[k].parent < k
       /\ r[k].parent > 0 => r[k].slot \in 1 .. r[r[k].parent].copied

LEMMA CellsAre ==
  /\ Application \in Cell /\ Undefined \in Cell /\ Nul \in Cell
  /\ \A n \in Nat : Value(n) \in Cell
  /\ \A j, at \in Nat : Pointer(j, at) \in Cell
BY DEF Cell, Value, Pointer, Nul

LEMMA OnePiece ==
  ASSUME NEW p \in PieceShape, p.copied <= Len(p.passed), p.parent = 0
  PROVE  WellFormed(<<p>>)
BY DEF WellFormed

LEMMA TwoPieces ==
  ASSUME NEW p \in PieceShape, p.copied <= Len(p.passed), p.parent = 0,
         NEW q \in PieceShape, q.copied <= Len(q.passed), q.parent = 1,
         q.slot \in 1 .. p.copied
  PROVE  WellFormed(<<p, q>>)
BY DEF WellFormed

LEMMA ThreePieces ==
  ASSUME NEW p \in PieceShape, p.copied <= Len(p.passed), p.parent = 0,
         NEW q \in PieceShape, q.copied <= Len(q.passed), q.parent = 1,
         q.slot \in 1 .. p.copied,
         NEW r \in PieceShape, r.copied <= Len(r.passed), r.parent = 2,
         r.slot \in 1 .. q.copied
  PROVE  WellFormed(<<p, q, r>>)
BY DEF WellFormed

LEMMA RecordsAreWellFormed ==
  ASSUME NEW c \in Calls
  PROVE  WellFormed(Record(c))
<1> DEFINE d == c.data
           pointer == Piece(<<Application>>, 1, 0, 0)
           counted == Piece(<<Value(Len(d)), Application>>, 2, 0, 0)
<1>1. /\ d \in Seq(Cell) /\ Len(d) \in Nat
      /\ c.shape \in {"scalars", "array", "nested", "label", "untyped"}
      /\ c.shape = "nested" => Len(d) >= 1
  BY CallsAssumption
<1>2. /\ <<Application>> \in Seq(Cell) /\ <<Value(Len(d)), Application>> \in Seq(Cell)
      /\ Append(d, Nul) \in Seq(Cell) /\ Len(Append(d, Nul)) = Len(d) + 1
  BY <1>1, CellsAre
<1> HIDE DEF d
<1>3. /\ pointer \in PieceShape /\ pointer.copied = 1 /\ pointer.parent = 0
      /\ pointer.passed = <<Application>>
      /\ counted \in PieceShape /\ counted.copied = 2 /\ counted.parent = 0
      /\ counted.passed = <<Value(Len(d)), Application>>
      /\ Arguments(<<Application>>) = pointer
      /\ Arguments(<<Value(Len(d)), Application>>) = counted
  <2>1. Arguments(<<Application>>) = pointer
    BY DEF Arguments
  <2>2. Arguments(<<Value(Len(d)), Application>>) = counted
    BY DEF Arguments
  <2>3. /\ pointer \in PieceShape /\ pointer.copied = 1 /\ pointer.parent = 0
        /\ pointer.passed = <<Application>>
    BY <1>2 DEF Piece, PieceShape
  <2>4. /\ counted \in PieceShape /\ counted.copied = 2 /\ counted.parent = 0
        /\ counted.passed = <<Value(Len(d)), Application>>
    BY <1>2 DEF Piece, PieceShape
  <2>5. QED BY <2>1, <2>2, <2>3, <2>4
<1> HIDE DEF pointer, counted
<1>4. CASE c.shape = "scalars"
  <2> DEFINE p == Piece(d, Len(d), 0, 0)
  <2>1. p \in PieceShape /\ p.passed = d /\ p.copied = Len(d) /\ p.parent = 0
    BY <1>1 DEF Piece, PieceShape
  <2>2. Record(c) = <<p>>
    BY <1>4 DEF Record, RecordScalars, Arguments, d
  <2> HIDE DEF p
  <2>3. WellFormed(<<p>>) BY <1>1, <2>1, OnePiece
  <2>4. QED BY <2>2, <2>3
<1>5. CASE c.shape = "array"
  <2> DEFINE q == Piece(d, Len(d), 1, 2)
  <2>1. /\ q \in PieceShape /\ q.passed = d /\ q.copied = Len(d)
        /\ q.parent = 1 /\ q.slot = 2
    BY <1>1 DEF Piece, PieceShape
  <2>2. Record(c) = <<counted, q>>
    BY <1>3, <1>5 DEF Record, RecordArray, d
  <2> HIDE DEF q
  <2>3. counted.copied <= Len(counted.passed) /\ q.copied <= Len(q.passed)
        /\ q.slot \in 1 .. counted.copied
    BY <1>1, <1>3, <2>1
  <2>4. WellFormed(<<counted, q>>) BY <1>3, <2>1, <2>3, TwoPieces
  <2>5. QED BY <2>2, <2>4
<1>6. CASE c.shape = "nested"
  <2> DEFINE q == Piece(<<Value(Len(d)), Application>>, 2, 1, 1)
             r == Piece(d, 1, 2, 2)
  <2>1. /\ q \in PieceShape /\ q.passed = <<Value(Len(d)), Application>>
        /\ q.copied = 2 /\ q.parent = 1 /\ q.slot = 1
    BY <1>2 DEF Piece, PieceShape
  <2>2. /\ r \in PieceShape /\ r.passed = d /\ r.copied = 1
        /\ r.parent = 2 /\ r.slot = 2
    BY <1>1 DEF Piece, PieceShape
  <2>3. Record(c) = <<pointer, q, r>>
    BY <1>3, <1>6 DEF Record, RecordNested, d
  <2> HIDE DEF q, r
  <2>4. /\ pointer.copied <= Len(pointer.passed) /\ q.copied <= Len(q.passed)
        /\ r.copied <= Len(r.passed)
        /\ q.slot \in 1 .. pointer.copied /\ r.slot \in 1 .. q.copied
    BY <1>1, <1>3, <1>6, <2>1, <2>2
  <2>5. WellFormed(<<pointer, q, r>>)
    BY <1>3, <2>1, <2>2, <2>4, ThreePieces
  <2>6. QED BY <2>3, <2>5
<1>7. CASE c.shape = "label"
  <2> DEFINE q == Piece(<<Application>>, 1, 1, 1)
             r == Piece(Append(d, Nul), Len(d), 2, 1)
  <2>1. /\ q \in PieceShape /\ q.passed = <<Application>>
        /\ q.copied = 1 /\ q.parent = 1 /\ q.slot = 1
    BY <1>2 DEF Piece, PieceShape
  <2>2. /\ r \in PieceShape /\ r.passed = Append(d, Nul) /\ r.copied = Len(d)
        /\ r.parent = 2 /\ r.slot = 1
    BY <1>1, <1>2 DEF Piece, PieceShape
  <2>3. Record(c) = <<pointer, q, r>>
    BY <1>3, <1>7 DEF Record, RecordLabel, d
  <2> HIDE DEF q, r
  <2>4. /\ pointer.copied <= Len(pointer.passed) /\ q.copied <= Len(q.passed)
        /\ r.copied <= Len(r.passed)
        /\ q.slot \in 1 .. pointer.copied /\ r.slot \in 1 .. q.copied
    BY <1>1, <1>2, <1>3, <2>1, <2>2
  <2>5. WellFormed(<<pointer, q, r>>)
    BY <1>3, <2>1, <2>2, <2>4, ThreePieces
  <2>6. QED BY <2>3, <2>5
<1>8. CASE c.shape = "untyped"
  <2>1. WellFormed(<<counted>>) BY <1>3, OnePiece
  <2>2. Record(c) = <<counted>> BY <1>3, <1>8 DEF Record, RecordUntyped, d
  <2>3. QED BY <2>1, <2>2
<1>9. QED BY <1>1, <1>4, <1>5, <1>6, <1>7, <1>8
-----------------------------------------------------------------------------
(* The call under way.                                                     *)

\* The length of piece n of the recording, copied or still to be copied.
LengthAt(left, ps, n) ==
  IF n <= Len(ps) THEN Len(ps[n].contents) ELSE left[n - Len(ps)].copied

\* What is left to be copied is stored in pieces that are copied before it.
Pending(left, first, ps) ==
  /\ left \in Seq(PieceShape) /\ first \in Nat
  /\ \A i \in 1 .. Len(left) :
       /\ left[i].copied <= Len(left[i].passed)
       /\ left[i].parent > 0 =>
            /\ first + left[i].parent \in 1 .. Len(ps) + i - 1
            /\ left[i].slot \in 1 .. LengthAt(left, ps, first + left[i].parent)

LEMMA PendingAtCall ==
  ASSUME NEW r, WellFormed(r), NEW ps \in Seq(Placed)
  PROVE  Pending(r, Len(ps), ps)
<1>1. r \in Seq(PieceShape) /\ Len(ps) \in Nat /\ Len(r) \in Nat BY DEF WellFormed
<1> SUFFICES ASSUME NEW i \in 1 .. Len(r)
             PROVE  /\ r[i].copied <= Len(r[i].passed)
                    /\ r[i].parent > 0 =>
                         /\ Len(ps) + r[i].parent \in 1 .. Len(ps) + i - 1
                         /\ r[i].slot \in 1 .. LengthAt(r, ps, Len(ps) + r[i].parent)
  BY <1>1 DEF Pending
<1>2. r[i].parent \in Nat
  <2>1. r[i] \in PieceShape BY <1>1
  <2>2. QED BY <2>1 DEF PieceShape
<1>3. /\ r[i].copied <= Len(r[i].passed) /\ r[i].parent < i
      /\ r[i].parent > 0 => r[i].slot \in 1 .. r[r[i].parent].copied
  BY DEF WellFormed
<1>4. ASSUME r[i].parent > 0
      PROVE  LengthAt(r, ps, Len(ps) + r[i].parent) = r[r[i].parent].copied
  BY <1>1, <1>2, <1>4 DEF LengthAt
<1>5. ASSUME r[i].parent > 0
      PROVE  Len(ps) + r[i].parent \in 1 .. Len(ps) + i - 1
  BY <1>1, <1>2, <1>3, <1>5
<1>6. QED BY <1>3, <1>4, <1>5

LEMMA PendingAfterCopy ==
  ASSUME NEW left, NEW first, NEW ps \in Seq(Placed), NEW more \in Seq(Placed),
         Pending(left, first, ps), left # <<>>, Len(more) = Len(ps) + 1,
         \A k \in 1 .. Len(ps) : Len(more[k].contents) = Len(ps[k].contents),
         Len(more[Len(ps) + 1].contents) = left[1].copied
  PROVE  Pending(Tail(left), first, more)
<1> DEFINE rest == Tail(left)
<1>1. left \in Seq(PieceShape) /\ first \in Nat /\ Len(ps) \in Nat BY DEF Pending
<1>2. /\ rest \in Seq(PieceShape) /\ Len(left) \in Nat /\ Len(left) >= 1
      /\ Len(rest) = Len(left) - 1
      /\ \A i \in 1 .. Len(rest) : rest[i] = left[i + 1]
  BY <1>1
<1> HIDE DEF rest
<1> SUFFICES ASSUME NEW i \in 1 .. Len(rest)
             PROVE  /\ rest[i].copied <= Len(rest[i].passed)
                    /\ rest[i].parent > 0 =>
                         /\ first + rest[i].parent \in 1 .. Len(more) + i - 1
                         /\ rest[i].slot \in
                              1 .. LengthAt(rest, more, first + rest[i].parent)
  BY <1>1, <1>2 DEF Pending, rest
<1>3. i + 1 \in 1 .. Len(left) /\ rest[i] = left[i + 1] BY <1>2
<1>4. rest[i].parent \in Nat
  <2>1. rest[i] \in PieceShape BY <1>2
  <2>2. QED BY <2>1 DEF PieceShape
<1>5. rest[i].copied <= Len(rest[i].passed) BY <1>3 DEF Pending
<1>6. ASSUME rest[i].parent > 0
      PROVE  /\ first + rest[i].parent \in 1 .. Len(more) + i - 1
             /\ rest[i].slot \in 1 .. LengthAt(rest, more, first + rest[i].parent)
  <2> DEFINE n == first + rest[i].parent
  <2>1. /\ n \in 1 .. Len(ps) + (i + 1) - 1
        /\ rest[i].slot \in 1 .. LengthAt(left, ps, n)
    BY <1>3, <1>6 DEF Pending
  <2> HIDE DEF n
  <2>2. n \in 1 .. Len(more) + i - 1 BY <1>1, <2>1
  <2>3. LengthAt(rest, more, n) = LengthAt(left, ps, n)
    <3>1. CASE n <= Len(ps)
      BY <1>1, <2>1, <3>1 DEF LengthAt
    <3>2. CASE n = Len(ps) + 1
      BY <1>1, <3>2 DEF LengthAt
    <3>3. CASE n > Len(ps) + 1
      <4>1. n - Len(more) \in 1 .. Len(rest) /\ (n - Len(more)) + 1 = n - Len(ps)
        BY <1>1, <1>2, <2>2, <3>3
      <4>2. rest[n - Len(more)] = left[n - Len(ps)] BY <1>2, <4>1
      <4>3. QED BY <1>1, <2>1, <3>3, <4>2 DEF LengthAt
    <3>4. QED BY <1>1, <2>1, <3>1, <3>2, <3>3
  <2>4. QED BY <2>1, <2>2, <2>3 DEF n
<1>7. QED BY <1>5, <1>6

-----------------------------------------------------------------------------
(* The inductive invariant.                                                *)

CallSound ==
  /\ call = [left |-> call.left, passed |-> call.passed, first |-> call.first,
             busy |-> call.busy]
  /\ Pending(call.left, call.first, pieces)
  /\ ~call.busy => call.left = <<>>

Inv == Sound(blocks_, active_block_, pieces) /\ CallSound

LEMMA PiecesAreASequence ==
  ASSUME NEW blks, NEW active, NEW ps, Sound(blks, active, ps)
  PROVE  blks \in Seq(Block) /\ active \in 1 .. Len(blks) /\ ps \in Seq(Placed)
BY DEF Sound, BlocksSound, PiecesBelow

\* A pointer is stored in cell slot of piece m.
WithCell(s, m, slot, v) == [s EXCEPT ![m].contents[slot] = v]

LEMMA AppendExcept ==
  ASSUME NEW s \in Seq(Placed), NEW e \in Placed, NEW m \in 1 .. Len(s),
         NEW slot \in 1 .. Len(s[m].contents), NEW v \in Cell
  PROVE  /\ Append(WithCell(s, m, slot, v), e) = WithCell(Append(s, e), m, slot, v)
         /\ Append(WithCell(s, m, slot, v), e) \in Seq(Placed)
         /\ Len(Append(WithCell(s, m, slot, v), e)) = Len(s) + 1
         /\ Append(WithCell(s, m, slot, v), e)[Len(s) + 1] = e
         /\ \A k \in 1 .. Len(s) :
              Len(Append(WithCell(s, m, slot, v), e)[k].contents) = Len(s[k].contents)
<1> DEFINE c == [s[m].contents EXCEPT ![slot] = v]
           piece == [s[m] EXCEPT !.contents = c]
           changed == [s EXCEPT ![m] = piece]
           more == Append(s, e)
           both == [more EXCEPT ![m] = piece]
<1>1. s[m] \in Placed /\ s[m].contents \in Seq(Cell) BY PlacedShape
<1>2. c \in Seq(Cell) /\ Len(c) = Len(s[m].contents) BY <1>1
<1> HIDE DEF c
<1>3. piece \in Placed /\ piece.contents = c BY <1>1, <1>2 DEF Placed
<1>4. changed = WithCell(s, m, slot, v) /\ both = WithCell(more, m, slot, v)
  BY <1>1 DEF c, WithCell
<1> HIDE DEF piece
<1>5. /\ changed \in Seq(Placed) /\ Len(changed) = Len(s) /\ changed[m] = piece
      /\ \A k \in 1 .. Len(s) : k # m => changed[k] = s[k]
  BY <1>3
<1>6. both = Append(changed, e)
  <2>1. /\ more \in Seq(Placed) /\ Len(more) = Len(s) + 1
        /\ \A k \in 1 .. Len(s) : more[k] = s[k]
        /\ more[Len(s) + 1] = e
    BY AppendProperties
  <2> HIDE DEF more
  <2>2. /\ both \in Seq(Placed) /\ Len(both) = Len(s) + 1 /\ both[m] = piece
        /\ \A k \in 1 .. Len(s) + 1 : k # m => both[k] = more[k]
    BY <1>3, <2>1
  <2>3. /\ Append(changed, e) \in Seq(Placed) /\ Len(Append(changed, e)) = Len(s) + 1
        /\ \A k \in 1 .. Len(s) : Append(changed, e)[k] = changed[k]
        /\ Append(changed, e)[Len(s) + 1] = e
    BY <1>5, AppendProperties
  <2> HIDE DEF both, changed
  <2>4. \A k \in 1 .. Len(s) + 1 : both[k] = Append(changed, e)[k]
    <3>1. Append(changed, e)[m] = both[m] BY <1>5, <2>2, <2>3
    <3>2. ASSUME NEW k \in 1 .. Len(s), k # m PROVE both[k] = Append(changed, e)[k]
      <4>1. both[k] = s[k] BY <2>1, <2>2, <3>2
      <4>2. Append(changed, e)[k] = s[k] BY <1>5, <2>3, <3>2
      <4>3. QED BY <4>1, <4>2
    <3>3. both[Len(s) + 1] = Append(changed, e)[Len(s) + 1]
      <4>1. Len(s) + 1 # m /\ Len(s) + 1 \in 1 .. Len(s) + 1 OBVIOUS
      <4>2. QED BY <2>1, <2>2, <2>3, <4>1
    <3>4. \A k \in 1 .. Len(s) + 1 : k \in 1 .. Len(s) \/ k = Len(s) + 1 OBVIOUS
    <3>5. QED BY <3>1, <3>2, <3>3, <3>4
  <2>5. QED BY <2>2, <2>3, <2>4, SeqEqual
<1>7. /\ Append(changed, e) \in Seq(Placed) /\ Len(Append(changed, e)) = Len(s) + 1
      /\ \A k \in 1 .. Len(s) : Append(changed, e)[k] = changed[k]
      /\ Append(changed, e)[Len(s) + 1] = e
  BY <1>5, AppendProperties
<1> HIDE DEF both, changed, more
<1>8. \A k \in 1 .. Len(s) : Len(Append(changed, e)[k].contents) = Len(s[k].contents)
  BY <1>2, <1>3, <1>5, <1>7
<1>9. QED BY <1>4, <1>6, <1>7, <1>8 DEF more

\* A piece in a block that has room for it, and its address in its parent.
LEMMA CopyKeeps ==
  ASSUME Inv, call.left # <<>>, NEW blks, Sound(blks, active_block_, pieces),
         NEW j \in active_block_ .. Len(blks),
         Fits(blks[j], Len(Contents(Head(call.left)))), CopyInto(blks, j)
  PROVE  /\ Sound(blocks_', active_block_', pieces')
         /\ Pending(Tail(call.left), call.first, pieces')
<1> DEFINE piece == Head(call.left)
           c == Contents(piece)
           at == Rounded(blks[j])
           new == [block |-> j, at |-> at, contents |-> c]
           filled == [blks EXCEPT ![j] = Filled(@, c)]
           more == Append(pieces, new)
           m == call.first + piece.parent
           v == Pointer(j, at)
<1>1. /\ blks \in Seq(Block) /\ active_block_ \in 1 .. Len(blks)
      /\ pieces \in Seq(Placed) /\ j \in 1 .. Len(blks)
  BY PiecesAreASequence
<1>2. /\ call.left \in Seq(PieceShape) /\ Len(call.left) \in Nat /\ Len(call.left) >= 1
      /\ piece = call.left[1] /\ piece \in PieceShape /\ call.first \in Nat
  BY DEF Inv, CallSound, Pending
<1>3. piece.copied <= Len(piece.passed) BY <1>2 DEF Inv, CallSound, Pending
<1>4. /\ piece.passed \in Seq(Cell) /\ piece.copied \in Nat /\ piece.parent \in Nat
  BY <1>2 DEF PieceShape
<1> HIDE DEF piece
<1>5. c \in Seq(Cell) /\ Len(c) = piece.copied
  BY <1>3, <1>4 DEF Contents
<1>6. Fits(blks[j], Len(c)) BY DEF c, piece
<1>7. at \in Nat /\ v \in Cell BY <1>1, RoundedUp, CellsAre
<1> HIDE DEF c, at, v
<1>8. new \in Placed /\ new.contents = c BY <1>1, <1>5, <1>7 DEF Placed
<1>9. Sound(filled, j, more) BY <1>5, <1>6, SoundWithPiece DEF at
<1> HIDE DEF new
<1>10. /\ more \in Seq(Placed) /\ Len(more) = Len(pieces) + 1
       /\ \A k \in 1 .. Len(pieces) : more[k] = pieces[k]
       /\ more[Len(pieces) + 1] = new
  BY <1>1, <1>8, AppendProperties
<1>11. CASE piece.parent = 0
  <2>1. active_block_' = j /\ blocks_' = filled /\ pieces' = more
    BY <1>11 DEF CopyInto, piece, c, at, new
  <2> HIDE DEF more
  <2>2. Pending(Tail(call.left), call.first, more)
    BY <1>1, <1>2, <1>5, <1>8, <1>10, PendingAfterCopy DEF Inv, CallSound
  <2>3. QED BY <1>9, <2>1, <2>2
<1>12. CASE piece.parent > 0
  <2> DEFINE changed == WithCell(pieces, m, piece.slot, v)
             all == Append(changed, new)
             stored == [filled EXCEPT
                          ![pieces[m].block].data[pieces[m].at + piece.slot - 1] = v]
  <2>1. /\ active_block_' = j /\ blocks_' = stored /\ pieces' = all
    <3>1. piece.parent # 0 BY <1>4, <1>12
    <3>2. QED BY <3>1, Zenon DEF CopyInto, WithCell, piece, c, at, new, v
  <2>2. m \in 1 .. Len(pieces) /\ piece.slot \in 1 .. Len(pieces[m].contents)
    <3>1. /\ m \in 1 .. Len(pieces) + 1 - 1
          /\ piece.slot \in 1 .. LengthAt(call.left, pieces, m)
      BY <1>2, <1>12 DEF Inv, CallSound, Pending
    <3>2. m \in 1 .. Len(pieces) BY <1>1, <3>1
    <3>3. QED BY <1>1, <3>1, <3>2 DEF LengthAt
  <2> HIDE DEF m
  <2>3. /\ all = WithCell(more, m, piece.slot, v)
        /\ all \in Seq(Placed) /\ Len(all) = Len(pieces) + 1
        /\ all[Len(pieces) + 1] = new
        /\ \A k \in 1 .. Len(pieces) : Len(all[k].contents) = Len(pieces[k].contents)
    <3>1. pieces \in Seq(Placed) /\ new \in Placed /\ v \in Cell BY <1>1, <1>7, <1>8
    <3> HIDE DEF v, new, piece
    <3> DEFINE slot == piece.slot
    <3>2. slot \in 1 .. Len(pieces[m].contents) BY <2>2
    <3> HIDE DEF slot
    <3>3. /\ Append(WithCell(pieces, m, slot, v), new)
               = WithCell(Append(pieces, new), m, slot, v)
          /\ Append(WithCell(pieces, m, slot, v), new) \in Seq(Placed)
          /\ Len(Append(WithCell(pieces, m, slot, v), new)) = Len(pieces) + 1
          /\ Append(WithCell(pieces, m, slot, v), new)[Len(pieces) + 1] = new
          /\ \A k \in 1 .. Len(pieces) :
               Len(Append(WithCell(pieces, m, slot, v), new)[k].contents)
                 = Len(pieces[k].contents)
      BY <2>2, <3>1, <3>2, AppendExcept
    <3>4. QED BY <3>3, Zenon DEF slot
  <2>4. m \in 1 .. Len(more) /\ more[m] = pieces[m] BY <1>1, <1>10, <2>2
  <2> HIDE DEF all, changed, filled, more
  <2>5. Sound(stored, j, all)
    <3>1. piece.slot \in 1 .. Len(more[m].contents) BY <2>2, <2>4
    <3>2. Sound([filled EXCEPT ![more[m].block].data[more[m].at + piece.slot - 1] = v], j,
                WithCell(more, m, piece.slot, v))
      BY <1>7, <1>9, <2>4, <3>1, SoundWithPointer DEF WithCell
    <3>3. QED BY <2>3, <2>4, <3>2
  <2> HIDE DEF stored
  <2>6. Pending(Tail(call.left), call.first, all)
    BY <1>1, <1>2, <1>5, <1>8, <2>3, PendingAfterCopy DEF Inv, CallSound
  <2>7. QED BY <2>1, <2>5, <2>6
<1>13. QED BY <1>4, <1>11, <1>12

LEMMA HeadIsCopied ==
  ASSUME Pending(call.left, call.first, pieces), call.left # <<>>
  PROVE  Len(Contents(Head(call.left))) \in Nat
<1>1. /\ call.left \in Seq(PieceShape) /\ Head(call.left) \in PieceShape
      /\ Head(call.left) = call.left[1] /\ 1 \in 1 .. Len(call.left)
  BY DEF Pending
<1>2. Head(call.left).copied <= Len(Head(call.left).passed) BY <1>1 DEF Pending
<1>3. Head(call.left).passed \in Seq(Cell) /\ Head(call.left).copied \in Nat
  BY <1>1 DEF PieceShape
<1>4. QED BY <1>2, <1>3 DEF Contents

LEMMA InitInv == Init => Inv
<1> SUFFICES ASSUME Init PROVE Inv OBVIOUS
<1>1. PICK base \in Bases : blocks_ = <<NewBlock(kDefaultBlockSize, base)>>
  BY DEF Init
<1> DEFINE b == NewBlock(kDefaultBlockSize, base)
<1>2. b \in Block /\ b.head = 0 BY FirstBlockIsSound
<1> HIDE DEF b
<1>3. Sound(<<b>>, 1, <<>>)
  BY <1>2 DEF Sound, BlocksSound, PiecesBelow, PiecesApart, PiecesInMemory
<1>4. Sound(blocks_, active_block_, pieces) BY <1>1, <1>3 DEF Init, b
<1>5. CallSound BY DEF Init, Idle, CallSound, Pending
<1>6. QED BY <1>4, <1>5 DEF Inv

LEMMA NextInv == Inv /\ [Next]_vars => Inv'
<1> SUFFICES ASSUME Inv, [Next]_vars PROVE Inv' OBVIOUS
<1>1. ASSUME NEW c \in Calls, TrackPre(c) PROVE Inv'
  <2>1. Sound(blocks_, active_block_, pieces)'
    BY <1>1 DEF TrackPre, memory, Inv
  <2>2. pieces \in Seq(Placed) BY PiecesAreASequence DEF Inv
  <2>3. Pending(Record(c), Len(pieces), pieces)
    BY <2>2, RecordsAreWellFormed, PendingAtCall
  <2>4. /\ call' = [left |-> Record(c), passed |-> c, first |-> Len(pieces), busy |-> TRUE]
        /\ pieces' = pieces
    BY <1>1 DEF TrackPre
  <2>5. CallSound' BY <2>3, <2>4 DEF CallSound
  <2>6. QED BY <2>1, <2>5 DEF Inv
<1>2. ASSUME CopyPiece PROVE Inv'
  <2> DEFINE size == Len(Contents(Head(call.left)))
  <2>1. call.left # <<>> BY <1>2 DEF CopyPiece
  <2>2. Sound(blocks_', active_block_', pieces')
        /\ Pending(Tail(call.left), call.first, pieces')
    <3>1. ASSUME NEW j \in 1 .. Len(blocks_),
                 IsTarget(blocks_, active_block_, size, j), CopyInto(blocks_, j)
          PROVE  Sound(blocks_', active_block_', pieces')
                 /\ Pending(Tail(call.left), call.first, pieces')
      <4>1. j \in active_block_ .. Len(blocks_) /\ Fits(blocks_[j], size)
        BY <3>1 DEF IsTarget
      <4>2. QED BY <2>1, <3>1, <4>1, CopyKeeps DEF Inv
    <3>2. ASSUME NEW base \in Bases,
                 CopyInto(Append(blocks_, NewBlock(NewBlockSize(size), base)),
                          Len(blocks_) + 1)
          PROVE  Sound(blocks_', active_block_', pieces')
                 /\ Pending(Tail(call.left), call.first, pieces')
      <4> DEFINE b == NewBlock(NewBlockSize(size), base)
                 more == Append(blocks_, b)
      <4>1. size \in Nat BY <2>1, HeadIsCopied DEF Inv, CallSound
      <4>2. b \in Block /\ b.head = 0 /\ Fits(b, size) BY <4>1, NewBlockFits
      <4> HIDE DEF b
      <4>3. /\ Sound(more, active_block_, pieces)
            /\ blocks_ \in Seq(Block) /\ active_block_ \in 1 .. Len(blocks_)
        BY <4>2, SoundWithBlock, PiecesAreASequence DEF Inv
      <4>4. Len(more) = Len(blocks_) + 1 /\ more[Len(blocks_) + 1] = b
        BY <4>2, <4>3, AppendProperties
      <4>5. CopyInto(more, Len(blocks_) + 1) BY <3>2 DEF b
      <4> HIDE DEF more
      <4>6. Len(blocks_) + 1 \in active_block_ .. Len(more) BY <4>3, <4>4
      <4>7. QED BY <2>1, <4>2, <4>3, <4>4, <4>5, <4>6, CopyKeeps
    <3>3. QED BY <1>2, <3>1, <3>2 DEF CopyPiece
  <2>3. call' = [left |-> Tail(call.left), passed |-> call.passed, first |-> call.first,
                 busy |-> call.busy]
    <3>1. call' = [call EXCEPT !.left = Tail(@)] BY <1>2 DEF CopyPiece
    <3>2. call = [left |-> call.left, passed |-> call.passed, first |-> call.first,
                  busy |-> call.busy]
      BY DEF Inv, CallSound
    <3> DEFINE shape(l, p, f, b) == [left |-> l, passed |-> p, first |-> f, busy |-> b]
    <3>3. ASSUME NEW l, NEW p, NEW f, NEW b, call = shape(l, p, f, b)
          PROVE  call' = shape(Tail(l), p, f, b)
      BY <3>1, <3>3
    <3>4. QED BY <3>2, <3>3
  <2>4. call.busy BY <2>1 DEF Inv, CallSound
  <2>5. CallSound' BY <2>2, <2>3, <2>4 DEF CallSound
  <2>6. QED BY <2>2, <2>5 DEF Inv
<1>3. ASSUME PushCommand PROVE Inv'
  <2>1. Sound(blocks_, active_block_, pieces)'
    BY <1>3 DEF PushCommand, memory, Inv
  <2>2. call' = Idle BY <1>3 DEF PushCommand
  <2>3. CallSound' BY <2>2 DEF Idle, CallSound, Pending
  <2>4. QED BY <2>1, <2>3 DEF Inv
<1>4. ASSUME Reset PROVE Inv'
  <2>1. Sound(blocks_, active_block_, pieces)'
    BY <1>4, SoundAfterReset DEF Reset, FirstBlock, Inv
  <2>2. /\ call' = call /\ call.left = <<>> /\ call.first \in Nat
        /\ call = [left |-> call.left, passed |-> call.passed, first |-> call.first,
                   busy |-> call.busy]
    BY <1>4 DEF Reset, Inv, CallSound, Pending
  <2>3. Pending(<<>>, call.first, pieces') BY <2>2 DEF Pending
  <2>4. CallSound' BY <2>2, <2>3 DEF CallSound
  <2>5. QED BY <2>1, <2>4 DEF Inv
<1>5. CASE UNCHANGED vars BY <1>5 DEF vars, memory, Inv, CallSound
<1>6. QED BY <1>1, <1>2, <1>3, <1>4, <1>5 DEF Next

LEMMA CellsOf ==
  ASSUME NEW piece \in Placed
  PROVE  Cells(piece) = piece.at .. End(piece) - 1
<1> DEFINE a == piece.at
           n == Len(piece.contents)
<1>1. a \in Nat /\ n \in Nat /\ End(piece) = a + n BY PlacedShape
<1>2. Cells(piece) = a .. a + n - 1 BY DEF Cells
<1> HIDE DEF a, n
<1>3. a + n - 1 = (a + n) - 1 BY <1>1
<1>4. QED BY <1>1, <1>2, <1>3 DEF a

LEMMA InvKeepsPieces == Inv => PiecesKept
<1> SUFFICES ASSUME Inv PROVE PiecesKept OBVIOUS
<1>1. pieces \in Seq(Placed) BY PiecesAreASequence DEF Inv
<1>2. PiecesDisjoint
  <2> SUFFICES ASSUME NEW k \in 1 .. Len(pieces), NEW l \in 1 .. Len(pieces), k # l,
                      pieces[k].block = pieces[l].block
               PROVE  Cells(pieces[k]) \cap Cells(pieces[l]) = {}
    BY DEF PiecesDisjoint
  <2>1. End(pieces[k]) <= pieces[l].at \/ End(pieces[l]) <= pieces[k].at
    BY DEF Inv, Sound, PiecesApart
  <2>2. pieces[k] \in Placed /\ pieces[l] \in Placed BY <1>1
  <2>3. /\ pieces[k].at \in Nat /\ Len(pieces[k].contents) \in Nat
        /\ End(pieces[k]) = pieces[k].at + Len(pieces[k].contents)
        /\ pieces[l].at \in Nat /\ Len(pieces[l].contents) \in Nat
        /\ End(pieces[l]) = pieces[l].at + Len(pieces[l].contents)
        /\ End(pieces[k]) \in Nat /\ End(pieces[l]) \in Nat
    BY <2>2, PlacedShape
  <2>4. /\ Cells(pieces[k]) = pieces[k].at .. End(pieces[k]) - 1
        /\ Cells(pieces[l]) = pieces[l].at .. End(pieces[l]) - 1
    BY <2>2, CellsOf
  <2> DEFINE i == pieces[k].at
             j == pieces[l].at
             e == End(pieces[k])
             f == End(pieces[l])
  <2>5. i \in Nat /\ j \in Nat /\ e \in Nat /\ f \in Nat /\ (e <= j \/ f <= i)
    BY <2>1, <2>3, <2>4
  <2> HIDE DEF i, j, e, f
  <2>6. (i .. e - 1) \cap (j .. f - 1) = {} BY <2>5
  <2>7. QED BY <2>4, <2>6 DEF i, j, e, f
<1>3. PiecesIntact BY DEF Inv, Sound, PiecesInMemory, PieceInMemory, PiecesIntact
<1>4. QED BY <1>2, <1>3 DEF PiecesKept

LEMMA InvIsTypeCorrect == Inv => TypeOK
<1> SUFFICES ASSUME Inv PROVE TypeOK OBVIOUS
<1>1. /\ blocks_ \in Seq(Block) /\ active_block_ \in 1 .. Len(blocks_)
      /\ pieces \in Seq(Placed)
  BY PiecesAreASequence DEF Inv
<1>2. ASSUME NEW j \in 1 .. Len(blocks_)
      PROVE  /\ blocks_[j].size \in Nat /\ blocks_[j].head \in 0 .. blocks_[j].size
             /\ DOMAIN blocks_[j].data = 0 .. blocks_[j].size - 1
             /\ j > active_block_ => blocks_[j].head = 0
  <2>1. blocks_[j] \in Block BY <1>1
  <2>2. j > active_block_ => blocks_[j].head = 0 BY DEF Inv, Sound, BlocksSound
  <2>3. QED BY <2>1, <2>2 DEF Block
<1>3. ASSUME NEW k \in 1 .. Len(pieces)
      PROVE  /\ pieces[k].block \in 1 .. active_block_ /\ pieces[k].at >= 0
             /\ pieces[k].at + Len(pieces[k].contents) <= blocks_[pieces[k].block].head
  <2>1. /\ pieces[k].block \in 1 .. active_block_
        /\ End(pieces[k]) <= blocks_[pieces[k].block].head
    BY DEF Inv, Sound, PiecesBelow
  <2>2. pieces[k] \in Placed BY <1>1
  <2>3. pieces[k].at \in Nat BY <2>2, PlacedShape
  <2>4. QED BY <2>1, <2>3 DEF End
<1>4. Len(blocks_) >= 1 BY <1>1
<1>5. QED BY <1>1, <1>2, <1>3, <1>4 DEF TypeOK

LEMMA AlwaysInv == Spec => []Inv
<1>1. Init => Inv BY InitInv
<1>2. Inv /\ [Next]_vars => Inv' BY NextInv
<1>3. QED BY <1>1, <1>2, PTL DEF Spec

\* Heads stay in their blocks, and what was allocated lies below them (Alloc,
\* Reset of LinearAllocator), for every block size and alignment.
THEOREM RecorderTypeCorrect == Spec => []TypeOK
<1>1. Inv => TypeOK BY InvIsTypeCorrect
<1>2. QED BY <1>1, AlwaysInv, PTL

\* What was recorded stays apart and unchanged until the next Reset
\* (TrackPreX, LinearAllocator::Alloc): for every sequence of calls, block
\* size, alignment and address of a block.
THEOREM RecordingsAreKept == Spec => []PiecesKept
<1>1. Inv => PiecesKept BY InvKeepsPieces
<1>2. QED BY <1>1, AlwaysInv, PTL

-----------------------------------------------------------------------------
(* What a dump prints.                                                     *)

PointerTo(piece) == Pointer(piece.block, piece.at)

\* The first n pieces of a call are in the recording after the first base ones,
\* each with the address of the next one where that one has been stored.
Copied(r, base, ps, n) ==
  /\ base \in Nat /\ n \in 0 .. Len(r) /\ base + n <= Len(ps)
  /\ \A k \in 1 .. n :
       ps[base + k].contents =
         IF k < n /\ r[k + 1].parent = k
         THEN [Contents(r[k]) EXCEPT ![r[k + 1].slot] = PointerTo(ps[base + k + 1])]
         ELSE Contents(r[k])

\* Of the call under way, what is not left has been copied.
CallPassed ==
  call.busy =>
    LET r == Record(call.passed)
        n == Len(pieces) - call.first
    IN /\ call.passed \in Calls
       /\ Copied(r, call.first, pieces, n)
       /\ Len(call.left) = Len(r) - n
       /\ \A i \in 1 .. Len(call.left) : call.left[i] = r[n + i]

Command == [id : Nat, passed : Calls, parameters : Nat \ {0}]

\* A command's pieces lie before those of the call under way.
CommandPassed(command) ==
  LET r == Record(command.passed) IN
  /\ Copied(r, command.parameters - 1, pieces, Len(r))
  /\ call.busy => command.parameters - 1 + Len(r) <= call.first

CommandsPassed ==
  /\ commands_ \in Seq(Command)
  /\ \A k \in 1 .. Len(commands_) : CommandPassed(commands_[k])

PassedInv == Inv /\ CallPassed /\ CommandsPassed

LEMMA WholeSubSeq ==
  ASSUME NEW S, NEW s \in Seq(S)
  PROVE  SubSeq(s, 1, Len(s)) = s
OBVIOUS

LEMMA FirstSubSeq ==
  ASSUME NEW S, NEW s \in Seq(S), Len(s) >= 1
  PROVE  SubSeq(s, 1, 1) = <<s[1]>>
<1>1. s[1] \in S /\ <<s[1]>> \in Seq(S) /\ Len(<<s[1]>>) = 1 OBVIOUS
<1>2. SubSeq(s, 1, 1) \in Seq(S) /\ Len(SubSeq(s, 1, 1)) = 1 /\ SubSeq(s, 1, 1)[1] = s[1]
  OBVIOUS
<1>3. \A i \in 1 .. 1 : SubSeq(s, 1, 1)[i] = <<s[1]>>[i] BY <1>2
<1>4. QED BY <1>1, <1>2, <1>3, SeqEqual

\* What is copied of each piece of a call, and where its address goes.
LEMMA RecordedParts ==
  ASSUME NEW c \in Calls
  PROVE  LET r == Record(c)
             d == c.data
             counted == <<Value(Len(d)), Application>>
         IN /\ c.shape = "scalars" => Len(r) = 1 /\ Contents(r[1]) = d /\ r[1].parent = 0
            /\ c.shape = "array" =>
                 /\ Len(r) = 2 /\ Contents(r[1]) = counted /\ Contents(r[2]) = d
                 /\ r[1].parent = 0 /\ r[2].parent = 1 /\ r[2].slot = 2
            /\ c.shape = "nested" =>
                 /\ Len(r) = 3 /\ Contents(r[1]) = <<Application>> /\ Contents(r[2]) = counted
                 /\ Contents(r[3]) = <<d[1]>>
                 /\ r[1].parent = 0 /\ r[2].parent = 1 /\ r[2].slot = 1
                 /\ r[3].parent = 2 /\ r[3].slot = 2
            /\ c.shape = "label" =>
                 /\ Len(r) = 3 /\ Contents(r[1]) = <<Application>>
                 /\ Contents(r[2]) = <<Application>> /\ Contents(r[3]) = d
                 /\ r[1].parent = 0 /\ r[2].parent = 1 /\ r[2].slot = 1
                 /\ r[3].parent = 2 /\ r[3].slot = 1
            /\ c.shape = "untyped" => Len(r) = 1 /\ r[1].parent = 0
<1> DEFINE d == c.data
           counted == <<Value(Len(d)), Application>>
<1>1. /\ d \in Seq(Cell) /\ Len(d) \in Nat /\ SubSeq(d, 1, Len(d)) = d
      /\ c.shape = "nested" => Len(d) >= 1
  BY CallsAssumption
<1>2. /\ SubSeq(<<Application>>, 1, 1) = <<Application>>
      /\ SubSeq(counted, 1, 2) = counted
      /\ Len(counted) = 2 /\ Len(<<Application>>) = 1
  <2>1. <<Application>> \in Seq(Cell) /\ Len(<<Application>>) = 1 BY CellsAre
  <2>2. counted \in Seq(Cell) /\ Len(counted) = 2 BY <1>1, CellsAre
  <2> HIDE DEF counted
  <2>3. QED BY <2>1, <2>2, WholeSubSeq
<1>3. SubSeq(Append(d, Nul), 1, Len(d)) = d
  <2>1. Append(d, Nul) \in Seq(Cell) /\ Len(Append(d, Nul)) = Len(d) + 1
        /\ \A i \in 1 .. Len(d) : Append(d, Nul)[i] = d[i]
    BY <1>1, CellsAre
  <2> DEFINE a == Append(d, Nul)
  <2> HIDE DEF a
  <2>2. SubSeq(a, 1, Len(d)) \in Seq(Cell) /\ Len(SubSeq(a, 1, Len(d))) = Len(d)
        /\ \A i \in 1 .. Len(d) : SubSeq(a, 1, Len(d))[i] = d[i]
    BY <1>1, <2>1 DEF a
  <2>3. QED BY <1>1, <2>2, SeqEqual DEF a
<1>4. c.shape = "nested" => SubSeq(d, 1, 1) = <<d[1]>> BY <1>1, FirstSubSeq
<1> HIDE DEF d, counted
<1>5. CASE c.shape = "scalars"
  <2>1. Record(c) = <<Piece(d, Len(d), 0, 0)>>
    BY <1>5 DEF Record, RecordScalars, Arguments, d
  <2>2. QED BY <1>1, <1>5, <2>1 DEF Contents, Piece, d
<1>6. CASE c.shape = "array"
  <2>1. Record(c) = <<Piece(counted, 2, 0, 0), Piece(d, Len(d), 1, 2)>>
    BY <1>2, <1>6 DEF Record, RecordArray, Arguments, d, counted
  <2>2. QED BY <1>1, <1>2, <1>6, <2>1 DEF Contents, Piece, d, counted
<1>7. CASE c.shape = "nested"
  <2>1. Record(c) = <<Piece(<<Application>>, 1, 0, 0), Piece(counted, 2, 1, 1),
                      Piece(d, 1, 2, 2)>>
    BY <1>2, <1>7 DEF Record, RecordNested, Arguments, d, counted
  <2>2. SubSeq(d, 1, 1) = <<d[1]>> BY <1>4, <1>7
  <2> DEFINE p == Piece(<<Application>>, 1, 0, 0)
             q == Piece(counted, 2, 1, 1)
             t == Piece(d, 1, 2, 2)
  <2>3. p.parent = 0 /\ Contents(p) = <<Application>> BY <1>2 DEF Piece, Contents
  <2>4. q.parent = 1 /\ q.slot = 1 /\ Contents(q) = counted BY <1>2 DEF Piece, Contents
  <2>5. t.parent = 2 /\ t.slot = 2 /\ Contents(t) = <<d[1]>> BY <2>2 DEF Piece, Contents
  <2> HIDE DEF p, q, t
  <2>6. Record(c) = <<p, q, t>> BY <2>1 DEF p, q, t
  <2>7. QED BY <1>7, <2>3, <2>4, <2>5, <2>6 DEF d, counted
<1>8. CASE c.shape = "label"
  <2> DEFINE a == Append(d, Nul)
  <2>1. Record(c) = <<Piece(<<Application>>, 1, 0, 0), Piece(<<Application>>, 1, 1, 1),
                      Piece(a, Len(d), 2, 1)>>
    BY <1>2, <1>8 DEF Record, RecordLabel, Arguments, d
  <2>2. SubSeq(a, 1, Len(d)) = d BY <1>3
  <2> HIDE DEF a
  <2>3. QED BY <1>1, <1>2, <1>8, <2>1, <2>2 DEF Contents, Piece, d
<1>9. CASE c.shape = "untyped"
  <2>1. Record(c) = <<Piece(counted, 2, 0, 0)>>
    BY <1>2, <1>9 DEF Record, RecordUntyped, Arguments, d, counted
  <2>2. QED BY <1>9, <2>1 DEF Piece
<1>10. c.shape \in {"scalars", "array", "nested", "label", "untyped"} BY CallsAssumption
<1>11. QED BY <1>5, <1>6, <1>7, <1>8, <1>9, <1>10

\* Each piece is the first or belongs to the one before it.
LEMMA PiecesAreChained ==
  ASSUME NEW c \in Calls
  PROVE  /\ Len(Record(c)) \in Nat
         /\ \A k \in 1 .. Len(Record(c)) : Record(c)[k].parent \in {0, k - 1}
<1>1. c.shape \in {"scalars", "array", "nested", "label", "untyped"} BY CallsAssumption
<1> DEFINE r == Record(c)
<1>2. /\ c.shape = "scalars" => Len(r) = 1 /\ r[1].parent = 0
      /\ c.shape = "array" => Len(r) = 2 /\ r[1].parent = 0 /\ r[2].parent = 1
      /\ c.shape = "nested" =>
           Len(r) = 3 /\ r[1].parent = 0 /\ r[2].parent = 1 /\ r[3].parent = 2
      /\ c.shape = "label" =>
           Len(r) = 3 /\ r[1].parent = 0 /\ r[2].parent = 1 /\ r[3].parent = 2
      /\ c.shape = "untyped" => Len(r) = 1 /\ r[1].parent = 0
  BY RecordedParts
<1> HIDE DEF r
<1>3. QED BY <1>1, <1>2 DEF r

-----------------------------------------------------------------------------
(* A copy.                                                                 *)

\* CopyInto appends one piece, and stores its address in its parent.
LEMMA CopyAppends ==
  ASSUME Inv, call.left # <<>>, NEW blks, NEW j \in Nat, Rounded(blks[j]) \in Nat,
         CopyInto(blks, j)
  PROVE  LET piece == Head(call.left)
             parent == call.first + piece.parent
             new == pieces'[Len(pieces) + 1]
         IN /\ piece \in PieceShape
            /\ pieces' \in Seq(Placed) /\ Len(pieces') = Len(pieces) + 1
            /\ new.contents = Contents(piece)
            /\ piece.parent > 0 =>
                 parent \in 1 .. Len(pieces) /\ piece.slot \in 1 .. Len(pieces[parent].contents)
            /\ \A k \in 1 .. Len(pieces) :
                 /\ pieces'[k].block = pieces[k].block /\ pieces'[k].at = pieces[k].at
                 /\ pieces'[k].contents =
                      IF piece.parent > 0 /\ k = parent
                      THEN [pieces[k].contents EXCEPT ![piece.slot] = PointerTo(new)]
                      ELSE pieces[k].contents
<1> DEFINE piece == Head(call.left)
           c == Contents(piece)
           at == Rounded(blks[j])
           new == [block |-> j, at |-> at, contents |-> c]
           m == call.first + piece.parent
           v == Pointer(j, at)
           n == Len(pieces)
<1>1. pieces \in Seq(Placed) /\ n \in Nat BY PiecesAreASequence DEF Inv
<1>2. /\ call.left \in Seq(PieceShape) /\ Len(call.left) \in Nat /\ Len(call.left) >= 1
      /\ piece = call.left[1] /\ piece \in PieceShape /\ call.first \in Nat
  BY DEF Inv, CallSound, Pending
<1>3. piece.copied <= Len(piece.passed) BY <1>2 DEF Inv, CallSound, Pending
<1>4. /\ piece.passed \in Seq(Cell) /\ piece.copied \in Nat /\ piece.parent \in Nat
  BY <1>2 DEF PieceShape
<1>5. ASSUME piece.parent > 0
      PROVE  m \in 1 .. n /\ piece.slot \in 1 .. Len(pieces[m].contents)
  <2>1. /\ m \in 1 .. n + 1 - 1
        /\ piece.slot \in 1 .. LengthAt(call.left, pieces, m)
    BY <1>2, <1>5 DEF Inv, CallSound, Pending
  <2>2. m \in 1 .. n BY <1>1, <2>1
  <2>3. QED BY <1>1, <2>1, <2>2 DEF LengthAt
<1> HIDE DEF piece
<1>6. c \in Seq(Cell) BY <1>3, <1>4 DEF Contents
<1> HIDE DEF c
<1>7. new \in Placed /\ new.contents = c /\ PointerTo(new) = v /\ v \in Cell
  BY <1>6, CellsAre DEF Placed, PointerTo
<1> HIDE DEF at, new, v
<1>8. CASE piece.parent = 0
  <2>1. pieces' = Append(pieces, new) BY <1>8 DEF CopyInto, piece, c, at, new
  <2>2. /\ pieces' \in Seq(Placed) /\ Len(pieces') = n + 1 /\ pieces'[n + 1] = new
        /\ \A k \in 1 .. n : pieces'[k] = pieces[k]
    BY <1>1, <1>7, <2>1, AppendProperties
  <2>3. QED BY <1>2, <1>7, <1>8, <2>2 DEF c, piece
<1>9. CASE piece.parent > 0
  <2> DEFINE changed == [pieces[m].contents EXCEPT ![piece.slot] = v]
             owner == [pieces[m] EXCEPT !.contents = changed]
             all == [pieces EXCEPT ![m] = owner]
  <2>1. pieces' = Append([pieces EXCEPT ![m].contents[piece.slot] = v], new)
    <3>1. piece.parent # 0 BY <1>4, <1>9
    <3>2. QED BY <3>1, Zenon DEF CopyInto, piece, c, at, new, v
  <2>2. m \in 1 .. n /\ piece.slot \in 1 .. Len(pieces[m].contents) BY <1>5, <1>9
  <2> HIDE DEF m
  <2>3. pieces[m] \in Placed /\ pieces[m].contents \in Seq(Cell)
    BY <1>1, <2>2, PlacedShape
  <2>4. changed \in Seq(Cell) BY <1>7, <2>2, <2>3
  <2>5. [pieces EXCEPT ![m].contents[piece.slot] = v] = all BY <2>2, <2>3
  <2> HIDE DEF changed
  <2>6. /\ owner \in Placed /\ owner.contents = changed
        /\ owner.block = pieces[m].block /\ owner.at = pieces[m].at
    BY <2>3, <2>4 DEF Placed
  <2> HIDE DEF owner
  <2>7. /\ all \in Seq(Placed) /\ Len(all) = n
        /\ \A k \in 1 .. n : all[k] = IF k = m THEN owner ELSE pieces[k]
    BY <1>1, <2>2, <2>6
  <2> HIDE DEF all
  <2>8. /\ pieces' \in Seq(Placed) /\ Len(pieces') = n + 1 /\ pieces'[n + 1] = new
        /\ \A k \in 1 .. n : pieces'[k] = all[k]
    <3>1. pieces' = Append(all, new) BY <2>1, <2>5, Zenon
    <3>2. new \in Placed BY <1>7
    <3> HIDE DEF n
    <3>3. /\ Append(all, new) \in Seq(Placed) /\ Len(Append(all, new)) = Len(all) + 1
          /\ Append(all, new)[Len(all) + 1] = new
          /\ \A k \in 1 .. Len(all) : Append(all, new)[k] = all[k]
      BY <2>7, <3>2, AppendProperties
    <3>4. QED BY <2>7, <3>1, <3>3
  <2> HIDE DEF n
  <2>9. ASSUME NEW k \in 1 .. n
        PROVE  /\ pieces'[k].block = pieces[k].block /\ pieces'[k].at = pieces[k].at
               /\ pieces'[k].contents =
                    IF piece.parent > 0 /\ k = m
                    THEN [pieces[k].contents EXCEPT ![piece.slot] = PointerTo(new)]
                    ELSE pieces[k].contents
    <3>1. CASE k = m BY <1>7, <1>9, <2>6, <2>7, <2>8, <3>1 DEF changed
    <3>2. CASE k # m BY <2>7, <2>8, <3>2
    <3>3. QED BY <3>1, <3>2
  <2>10. new.contents = Contents(piece) BY <1>7 DEF c
  <2>11. QED BY <1>2, <2>2, <2>8, <2>9, <2>10 DEF piece, n, m
<1>10. QED BY <1>4, <1>8, <1>9

\* What is in the memory of a call stays copied if its pieces stay as they are.
LEMMA StaysCopied ==
  ASSUME NEW r, NEW base, NEW n, NEW ps, NEW qs, Copied(r, base, ps, n),
         Len(ps) \in Nat, Len(qs) \in Nat, Len(ps) <= Len(qs),
         \A k \in 1 .. n : /\ qs[base + k].block = ps[base + k].block
                           /\ qs[base + k].at = ps[base + k].at
                           /\ qs[base + k].contents = ps[base + k].contents
  PROVE  Copied(r, base, qs, n)
<1>1. base \in Nat /\ n \in 0 .. Len(r) /\ base + n <= Len(ps) BY DEF Copied
<1>2. ASSUME NEW k \in 1 .. n
      PROVE  qs[base + k].contents =
               IF k < n /\ r[k + 1].parent = k
               THEN [Contents(r[k]) EXCEPT ![r[k + 1].slot] = PointerTo(qs[base + k + 1])]
               ELSE Contents(r[k])
  <2>1. ps[base + k].contents =
          IF k < n /\ r[k + 1].parent = k
          THEN [Contents(r[k]) EXCEPT ![r[k + 1].slot] = PointerTo(ps[base + k + 1])]
          ELSE Contents(r[k])
    BY DEF Copied
  <2>2. k < n => PointerTo(qs[base + k + 1]) = PointerTo(ps[base + k + 1])
    <3>1. k < n => k + 1 \in 1 .. n /\ base + (k + 1) = base + k + 1 BY <1>1
    <3>2. QED BY <3>1 DEF PointerTo
  <2>3. QED BY <2>1, <2>2
<1>3. n \in Int /\ base + n <= Len(qs) BY <1>1
<1>4. QED BY <1>1, <1>2, <1>3 DEF Copied

\* CopyPiece takes the first piece that is left, and leaves the rest of the call.
LEMMA CallAfterCopy ==
  ASSUME Inv, CopyPiece
  PROVE  /\ call'.left = Tail(call.left) /\ call'.passed = call.passed
         /\ call'.first = call.first /\ call'.busy = call.busy
         /\ call.left # <<>> /\ commands_' = commands_
<1>1. call' = [call EXCEPT !.left = Tail(@)] BY DEF CopyPiece
<1>2. call = [left |-> call.left, passed |-> call.passed, first |-> call.first,
              busy |-> call.busy]
  BY DEF Inv, CallSound
<1> DEFINE shape(l, p, f, b) == [left |-> l, passed |-> p, first |-> f, busy |-> b]
<1>3. ASSUME NEW l, NEW p, NEW f, NEW b, call = shape(l, p, f, b)
      PROVE  call' = shape(Tail(l), p, f, b)
  BY <1>1, <1>3
<1>4. call' = shape(Tail(call.left), call.passed, call.first, call.busy) BY <1>2, <1>3
<1>5. QED BY <1>4 DEF CopyPiece

\* What one copy does to the recording, whichever block it goes to.
PieceCopied ==
  LET piece == Head(call.left)
      parent == call.first + piece.parent
      new == pieces'[Len(pieces) + 1]
  IN /\ piece \in PieceShape
     /\ pieces' \in Seq(Placed) /\ Len(pieces') = Len(pieces) + 1
     /\ new.contents = Contents(piece)
     /\ piece.parent > 0 =>
          parent \in 1 .. Len(pieces) /\ piece.slot \in 1 .. Len(pieces[parent].contents)
     /\ \A k \in 1 .. Len(pieces) :
          /\ pieces'[k].block = pieces[k].block /\ pieces'[k].at = pieces[k].at
          /\ pieces'[k].contents =
               IF piece.parent > 0 /\ k = parent
               THEN [pieces[k].contents EXCEPT ![piece.slot] = PointerTo(new)]
               ELSE pieces[k].contents

LEMMA CopyPieceCopies ==
  ASSUME Inv, CopyPiece
  PROVE  PieceCopied
<1> DEFINE size == Len(Contents(Head(call.left)))
<1>1. call.left # <<>> BY DEF CopyPiece
<1>2. ASSUME NEW j \in 1 .. Len(blocks_),
             IsTarget(blocks_, active_block_, size, j), CopyInto(blocks_, j)
      PROVE  PieceCopied
  <2>1. blocks_ \in Seq(Block) BY PiecesAreASequence DEF Inv
  <2>2. j \in Nat /\ blocks_[j] \in Block BY <2>1
  <2>3. Rounded(blocks_[j]) \in Nat BY <2>2, RoundedUp
  <2>4. QED BY <1>1, <1>2, <2>2, <2>3, CopyAppends DEF PieceCopied
<1>3. ASSUME NEW base \in Bases,
             CopyInto(Append(blocks_, NewBlock(NewBlockSize(size), base)),
                      Len(blocks_) + 1)
      PROVE  PieceCopied
  <2> DEFINE b == NewBlock(NewBlockSize(size), base)
             more == Append(blocks_, b)
  <2>1. size \in Nat BY <1>1, HeadIsCopied DEF Inv, CallSound
  <2>2. b \in Block BY <2>1, NewBlockFits
  <2> HIDE DEF b
  <2>3. blocks_ \in Seq(Block) BY PiecesAreASequence DEF Inv
  <2>4. Len(blocks_) + 1 \in Nat /\ more[Len(blocks_) + 1] = b
    BY <2>2, <2>3, AppendProperties
  <2>5. CopyInto(more, Len(blocks_) + 1) BY <1>3 DEF b
  <2> HIDE DEF more
  <2>6. Rounded(more[Len(blocks_) + 1]) \in Nat BY <2>2, <2>4, RoundedUp
  <2>7. QED BY <1>1, <2>4, <2>5, <2>6, CopyAppends DEF PieceCopied
<1>4. QED BY <1>2, <1>3 DEF CopyPiece

\* The piece that is copied is the next one of its call, and is first or belongs
\* to the one before.
LEMMA NextOfCall ==
  ASSUME Inv, CallPassed, call.left # <<>>
  PROVE  LET r == Record(call.passed)
             n == Len(pieces) - call.first
         IN /\ call.busy /\ call.passed \in Calls /\ call.first \in Nat
            /\ n \in Nat /\ n + 1 \in 1 .. Len(r) /\ Len(r) \in Nat
            /\ Head(call.left) = r[n + 1] /\ r[n + 1].parent \in {0, n}
            /\ Len(Tail(call.left)) = Len(r) - (n + 1)
            /\ \A i \in 1 .. Len(Tail(call.left)) :
                 Tail(call.left)[i] = r[(n + 1) + i]
<1> DEFINE r == Record(call.passed)
           n == Len(pieces) - call.first
<1>1. call.busy BY DEF Inv, CallSound
<1>2. /\ call.passed \in Calls /\ Copied(r, call.first, pieces, n)
      /\ Len(call.left) = Len(r) - n
      /\ \A i \in 1 .. Len(call.left) : call.left[i] = r[n + i]
  BY <1>1 DEF CallPassed
<1>3. /\ call.left \in Seq(PieceShape) /\ Len(call.left) \in Nat /\ Len(call.left) >= 1
      /\ Head(call.left) = call.left[1] /\ call.first \in Nat
      /\ Len(Tail(call.left)) = Len(call.left) - 1
      /\ \A i \in 1 .. Len(call.left) - 1 : Tail(call.left)[i] = call.left[i + 1]
  BY DEF Inv, CallSound, Pending
<1>4. Len(r) \in Nat /\ \A k \in 1 .. Len(r) : r[k].parent \in {0, k - 1}
  BY <1>2, PiecesAreChained
<1> HIDE DEF r
<1>5. n \in 0 .. Len(r) BY <1>2 DEF Copied
<1> HIDE DEF n
<1>6. n \in Nat /\ n + 1 \in 1 .. Len(r) /\ (n + 1) - 1 = n BY <1>2, <1>3, <1>4, <1>5
<1>7. Head(call.left) = r[n + 1] BY <1>2, <1>3
<1>8. r[n + 1].parent \in {0, n} BY <1>4, <1>6
<1>9. ASSUME NEW i \in 1 .. Len(Tail(call.left))
      PROVE  Tail(call.left)[i] = r[(n + 1) + i]
  <2>1. i + 1 \in 1 .. Len(call.left) /\ n + (i + 1) = (n + 1) + i
        /\ i \in 1 .. Len(call.left) - 1
    BY <1>3, <1>6
  <2>2. QED BY <1>2, <1>3, <2>1
<1>10. Len(Tail(call.left)) = Len(r) - (n + 1) BY <1>2, <1>3, <1>4, <1>6
<1>11. QED BY <1>1, <1>2, <1>3, <1>4, <1>6, <1>7, <1>8, <1>9, <1>10 DEF r, n

\* A copy adds to the call under way, and leaves the commands before it alone.
LEMMA CopyKeepsPassed ==
  ASSUME PassedInv, CopyPiece
  PROVE  CallPassed' /\ CommandsPassed'
<1> DEFINE r == Record(call.passed)
           n == Len(pieces) - call.first
           first == call.first
           piece == Head(call.left)
           m == first + piece.parent
           new == pieces'[Len(pieces) + 1]
<1>1. /\ call'.left = Tail(call.left) /\ call'.passed = call.passed
      /\ call'.first = first /\ call'.busy = call.busy
      /\ call.left # <<>> /\ commands_' = commands_
  BY CallAfterCopy DEF PassedInv
<1>2. /\ call.busy /\ call.passed \in Calls /\ first \in Nat
      /\ n \in Nat /\ n + 1 \in 1 .. Len(r) /\ Len(r) \in Nat
      /\ piece = r[n + 1] /\ r[n + 1].parent \in {0, n}
      /\ Len(Tail(call.left)) = Len(r) - (n + 1)
      /\ \A i \in 1 .. Len(Tail(call.left)) : Tail(call.left)[i] = r[(n + 1) + i]
  BY <1>1, NextOfCall DEF PassedInv
<1>3. PieceCopied BY CopyPieceCopies DEF PassedInv
<1>4. /\ Len(pieces') = Len(pieces) + 1 /\ new.contents = Contents(piece)
      /\ \A k \in 1 .. Len(pieces) :
           /\ pieces'[k].block = pieces[k].block /\ pieces'[k].at = pieces[k].at
           /\ pieces'[k].contents =
                IF piece.parent > 0 /\ k = m
                THEN [pieces[k].contents EXCEPT ![piece.slot] = PointerTo(new)]
                ELSE pieces[k].contents
  BY <1>3 DEF PieceCopied
<1>5. Len(pieces) \in Nat
  <2>1. pieces \in Seq(Placed) BY PiecesAreASequence DEF PassedInv, Inv
  <2>2. QED BY <2>1
<1>6. Copied(r, first, pieces, n) BY <1>2 DEF PassedInv, CallPassed
<1>7. first + n = Len(pieces) /\ first + (n + 1) = Len(pieces) + 1
      /\ Len(pieces') - first = n + 1
  <2> HIDE DEF r, first, piece, new, m
  <2>1. first \in Nat /\ n = Len(pieces) - first BY <1>2 DEF first
  <2>2. Len(pieces') = Len(pieces) + 1 BY <1>4
  <2> HIDE DEF n
  <2>3. QED BY <1>5, <2>1, <2>2
<1> HIDE DEF n, r, first, piece, new
<1>8. piece.parent > 0 => piece.parent = n /\ n > 0 /\ m = first + n
  BY <1>2
<1> HIDE DEF m
<1>9. Copied(r, first, pieces', n + 1)
  <2> SUFFICES ASSUME NEW k \in 1 .. n + 1
               PROVE  pieces'[first + k].contents =
                        IF k < n + 1 /\ r[k + 1].parent = k
                        THEN [Contents(r[k]) EXCEPT
                                ![r[k + 1].slot] = PointerTo(pieces'[first + k + 1])]
                        ELSE Contents(r[k])
    <3>1. n + 1 \in 0 .. Len(r) /\ first + (n + 1) <= Len(pieces')
      BY <1>2, <1>4, <1>5, <1>7
    <3>2. QED BY <1>2, <3>1 DEF Copied
  <2>1. CASE k = n + 1
    <3>1. ~(k < n + 1) BY <1>2, <2>1
    <3>2. pieces'[first + k] = new BY <1>7, <2>1 DEF new
    <3>3. QED BY <1>2, <1>4, <2>1, <3>1, <3>2
  <2>2. CASE k \in 1 .. n
    <3>1. /\ first + k \in 1 .. Len(pieces) /\ k < n + 1
          /\ k < n => first + k + 1 \in 1 .. Len(pieces)
      BY <1>2, <1>5, <1>7, <2>2
    <3>2. pieces[first + k].contents =
            IF k < n /\ r[k + 1].parent = k
            THEN [Contents(r[k]) EXCEPT ![r[k + 1].slot] = PointerTo(pieces[first + k + 1])]
            ELSE Contents(r[k])
      BY <1>6, <2>2 DEF Copied
    <3>3. CASE k = n
      <4>1. pieces[first + k].contents = Contents(r[n]) BY <1>2, <3>2, <3>3
      <4>2. first + k + 1 = Len(pieces) + 1 BY <1>2, <1>7, <3>3
      <4>3. CASE piece.parent = 0
        <5>1. r[k + 1].parent # k BY <1>2, <2>2, <3>3, <4>3
        <5>2. ~(piece.parent > 0) BY <4>3
        <5>3. QED BY <1>4, <3>1, <3>3, <4>1, <5>1, <5>2
      <4>4. CASE piece.parent = n /\ n > 0
        <5>1. r[k + 1].parent = k /\ piece = r[k + 1] BY <1>2, <3>3, <4>4
        <5>2. piece.parent > 0 /\ first + k = m BY <1>8, <3>3, <4>4
        <5>3. new = pieces'[first + k + 1] BY <4>2 DEF new
        <5>4. QED BY <1>4, <3>1, <3>3, <4>1, <5>1, <5>2, <5>3
      <4>5. QED BY <1>2, <2>2, <3>3, <4>3, <4>4
    <3>4. CASE k # n
      <4>1. k < n /\ ~(piece.parent > 0 /\ first + k = m) BY <1>2, <1>8, <2>2, <3>4
      <4>2. pieces'[first + k].contents = pieces[first + k].contents BY <1>4, <3>1, <4>1
      <4>3. PointerTo(pieces'[first + k + 1]) = PointerTo(pieces[first + k + 1])
        BY <1>4, <3>1, <4>1 DEF PointerTo
      <4>4. QED BY <3>1, <3>2, <4>1, <4>2, <4>3
    <3>5. QED BY <3>3, <3>4
  <2>3. QED BY <1>2, <2>1, <2>2
<1>10. CallPassed'
  <2>1. Record(call'.passed) = r BY <1>1 DEF r
  <2>2. Len(pieces') - call'.first = n + 1 BY <1>1, <1>7 DEF first
  <2>3. QED BY <1>1, <1>2, <1>9, <2>1, <2>2 DEF CallPassed, first
<1>11. CommandsPassed'
  <2> SUFFICES ASSUME NEW k \in 1 .. Len(commands_) PROVE CommandPassed(commands_[k])'
    BY <1>1 DEF PassedInv, CommandsPassed
  <2> DEFINE command == commands_[k]
             rc == Record(command.passed)
             base == command.parameters - 1
  <2>1. /\ Copied(rc, base, pieces, Len(rc))
        /\ base + Len(rc) <= first
    BY <1>2 DEF PassedInv, CommandsPassed, CommandPassed, first
  <2>2. /\ base \in Nat /\ Len(rc) \in Nat
    <3>1. command \in Command BY DEF PassedInv, CommandsPassed
    <3>2. command.passed \in Calls /\ command.parameters \in Nat \ {0}
      BY <3>1 DEF Command
    <3>3. QED BY <3>2, PiecesAreChained
  <2> HIDE DEF rc, base
  <2>3. ASSUME NEW i \in 1 .. Len(rc)
        PROVE  /\ pieces'[base + i].block = pieces[base + i].block
               /\ pieces'[base + i].at = pieces[base + i].at
               /\ pieces'[base + i].contents = pieces[base + i].contents
    <3>1. base + i \in 1 .. Len(pieces) /\ ~(piece.parent > 0 /\ base + i = m)
      BY <1>2, <1>5, <1>7, <1>8, <2>1, <2>2
    <3>2. QED BY <1>4, <3>1
  <2>4. Copied(rc, base, pieces', Len(rc))
    <3>1. Len(pieces') \in Nat /\ Len(pieces) <= Len(pieces') BY <1>4, <1>5
    <3>2. QED BY <1>5, <2>1, <2>3, <3>1, StaysCopied
  <2>5. QED BY <1>1, <2>1, <2>4 DEF CommandPassed, rc, base, first
<1>12. QED BY <1>10, <1>11

LEMMA InitPassed == Init => PassedInv
<1> SUFFICES ASSUME Init PROVE PassedInv OBVIOUS
<1>1. Inv BY InitInv
<1>2. ~call.busy /\ commands_ = <<>> BY DEF Init, Idle
<1>3. CallPassed BY <1>2 DEF CallPassed
<1>4. CommandsPassed BY <1>2 DEF CommandsPassed
<1>5. QED BY <1>1, <1>3, <1>4 DEF PassedInv

LEMMA NextPassed == PassedInv /\ [Next]_vars => PassedInv'
<1> SUFFICES ASSUME PassedInv, [Next]_vars PROVE PassedInv' OBVIOUS
<1>1. Inv' BY NextInv DEF PassedInv
<1>2. pieces \in Seq(Placed) /\ Len(pieces) \in Nat
  BY PiecesAreASequence DEF PassedInv, Inv
<1>3. \A k \in 1 .. Len(commands_) :
        /\ commands_[k].passed \in Calls /\ commands_[k].parameters \in Nat \ {0}
        /\ Len(Record(commands_[k].passed)) \in Nat
  <2>1. \A k \in 1 .. Len(commands_) : commands_[k] \in Command
    BY DEF PassedInv, CommandsPassed
  <2>2. QED BY <2>1, PiecesAreChained DEF Command
<1>4. ASSUME NEW c \in Calls, TrackPre(c) PROVE PassedInv'
  <2>1. /\ call' = [left |-> Record(c), passed |-> c, first |-> Len(pieces), busy |-> TRUE]
        /\ pieces' = pieces /\ commands_' = commands_
    BY <1>4 DEF TrackPre
  <2>2. Len(Record(c)) \in Nat BY PiecesAreChained
  <2>3. Copied(Record(c), Len(pieces), pieces, 0) BY <1>2, <2>2 DEF Copied
  <2>4. CallPassed'
    <3> DEFINE r == Record(c)
    <3>1. /\ call'.left = r /\ call'.passed = c /\ call'.first = Len(pieces)
      BY <2>1
    <3>2. Len(pieces') - call'.first = 0 BY <1>2, <2>1, <3>1
    <3>3. Len(r) = Len(r) - 0 /\ \A i \in 1 .. Len(r) : r[i] = r[0 + i] BY <2>2
    <3>4. Copied(r, call'.first, pieces', 0) BY <2>1, <2>3, <3>1
    <3>5. Record(call'.passed) = r BY <3>1
    <3> HIDE DEF r
    <3>6. QED BY <3>1, <3>2, <3>3, <3>4, <3>5 DEF CallPassed
  <2>5. CommandsPassed'
    <3> SUFFICES ASSUME NEW k \in 1 .. Len(commands_) PROVE CommandPassed(commands_[k])'
      BY <2>1 DEF PassedInv, CommandsPassed
    <3> DEFINE p == commands_[k].parameters
               r == Record(commands_[k].passed)
    <3>1. Copied(r, p - 1, pieces, Len(r)) BY DEF PassedInv, CommandsPassed, CommandPassed
    <3>2. p - 1 + Len(r) <= Len(pieces) BY <3>1 DEF Copied
    <3> HIDE DEF p, r
    <3>3. call'.first = Len(pieces) /\ Copied(r, p - 1, pieces', Len(r)) BY <2>1, <3>1
    <3>4. commands_'[k] = commands_[k] BY <2>1
    <3>5. QED BY <3>2, <3>3, <3>4 DEF CommandPassed, p, r
  <2>6. QED BY <1>1, <2>4, <2>5 DEF PassedInv
<1>5. ASSUME CopyPiece PROVE PassedInv'
  BY <1>1, <1>5, CopyKeepsPassed DEF PassedInv
<1>6. ASSUME PushCommand PROVE PassedInv'
  <2> DEFINE r == Record(call.passed)
             n == Len(pieces) - call.first
             command == [id |-> Len(commands_) + 1, passed |-> call.passed,
                         parameters |-> call.first + 1]
  <2>1. /\ call.busy /\ call.left = <<>> /\ call' = Idle /\ pieces' = pieces
        /\ commands_' = Append(commands_, command)
    BY <1>6 DEF PushCommand
  <2>2. /\ call.passed \in Calls /\ Copied(r, call.first, pieces, n)
        /\ Len(r) - n = 0
    BY <2>1 DEF PassedInv, CallPassed
  <2>3. Len(r) \in Nat BY <2>2, PiecesAreChained
  <2>4. call.first \in Nat BY DEF PassedInv, Inv, CallSound, Pending
  <2>5. n = Len(r) /\ n \in Int BY <1>2, <2>2, <2>3, <2>4
  <2>6. Copied(r, call.first, pieces, Len(r)) BY <2>2, <2>5
  <2>7. ~call'.busy BY <2>1 DEF Idle
  <2>8. CallPassed' BY <2>7 DEF CallPassed
  <2>9. /\ command \in Command /\ command.passed = call.passed
        /\ command.parameters - 1 = call.first
    <3>1. commands_ \in Seq(Command) BY DEF PassedInv, CommandsPassed
    <3>2. Len(commands_) + 1 \in Nat BY <3>1
    <3>3. call.first + 1 \in Nat \ {0} /\ (call.first + 1) - 1 = call.first BY <2>4
    <3>4. QED BY <2>2, <3>2, <3>3 DEF Command
  <2> HIDE DEF n, r, command
  <2>10. /\ commands_' \in Seq(Command) /\ Len(commands_') = Len(commands_) + 1
         /\ \A k \in 1 .. Len(commands_) : commands_'[k] = commands_[k]
         /\ commands_'[Len(commands_) + 1] = command /\ Len(commands_) \in Nat
    <3>1. commands_ \in Seq(Command) BY DEF PassedInv, CommandsPassed
    <3>2. QED BY <2>1, <2>9, <3>1, AppendProperties
  <2>11. ASSUME NEW k \in 1 .. Len(commands_) PROVE CommandPassed(commands_[k])'
    <3>1. CommandPassed(commands_[k]) BY DEF PassedInv, CommandsPassed
    <3>2. commands_'[k] = commands_[k] BY <2>10
    <3>3. QED BY <2>1, <2>7, <3>1, <3>2, Zenon DEF CommandPassed
  <2>12. ASSUME NEW k, k = Len(commands_) + 1 PROVE CommandPassed(commands_[k])'
    <3>1. commands_'[k] = command BY <2>10, <2>12
    <3>2. Copied(Record(command.passed), command.parameters - 1, pieces', Len(r))
      BY <2>1, <2>6, <2>9 DEF r
    <3>3. Record(command.passed) = r BY <2>9 DEF r
    <3>4. QED BY <2>7, <3>1, <3>2, <3>3 DEF CommandPassed
  <2>13. CommandsPassed' BY <2>10, <2>11, <2>12 DEF CommandsPassed
  <2>14. QED BY <1>1, <2>8, <2>13 DEF PassedInv
<1>7. ASSUME Reset PROVE PassedInv'
  <2>1. ~call'.busy /\ commands_' = <<>> BY <1>7 DEF Reset
  <2>2. CallPassed' BY <2>1 DEF CallPassed
  <2>3. CommandsPassed' BY <2>1 DEF CommandsPassed
  <2>4. QED BY <1>1, <2>2, <2>3 DEF PassedInv
<1>8. CASE UNCHANGED vars
  <2>1. pieces' = pieces /\ call' = call /\ commands_' = commands_ BY <1>8 DEF vars
  <2>2. CallPassed' BY <2>1 DEF PassedInv, CallPassed
  <2>3. CommandsPassed' BY <2>1 DEF PassedInv, CommandsPassed, CommandPassed
  <2>4. QED BY <1>1, <2>2, <2>3 DEF PassedInv
<1>9. QED BY <1>4, <1>5, <1>6, <1>7, <1>8 DEF Next

-----------------------------------------------------------------------------
(* The dump.                                                               *)

\* A cell is read where it was stored.
LEMMA ReadOfPiece ==
  ASSUME Inv, NEW k \in 1 .. Len(pieces), NEW i \in 1 .. Len(pieces[k].contents)
  PROVE  Read(PointerTo(pieces[k]), i) = pieces[k].contents[i]
<1> DEFINE b == blocks_[pieces[k].block]
           piece == pieces[k]
<1>1. piece \in Placed /\ piece.block \in 1 .. Len(blocks_) /\ End(piece) <= b.head
  BY DEF Inv, Sound, BlocksSound, PiecesBelow
<1>2. b \in Block BY <1>1 DEF Inv, Sound, BlocksSound
<1>3. b.data[piece.at + i - 1] = piece.contents[i]
  BY DEF Inv, Sound, PiecesInMemory, PieceInMemory
<1>4. DOMAIN b.data = 0 .. b.size - 1 BY <1>2 DEF Block
<1>5. PointerTo(piece)[2] = piece.block /\ PointerTo(piece)[3] = piece.at
  BY DEF PointerTo, Pointer
<1> HIDE DEF b, piece
<1>6. /\ piece.at \in Nat /\ Len(piece.contents) \in Nat /\ b.size \in Nat
      /\ piece.at + Len(piece.contents) <= b.size
  BY <1>1, <1>2, EndsInBlock
<1>7. piece.at + i - 1 \in 0 .. b.size - 1 BY <1>6, CellOfPiece DEF piece
<1>8. Read(PointerTo(piece), i) = b.data[piece.at + i - 1]
  BY <1>4, <1>5, <1>7 DEF Read, b, piece
<1>9. QED BY <1>3, <1>8 DEF piece

LEMMA ReadArrayOfPiece ==
  ASSUME Inv, NEW k \in 1 .. Len(pieces), NEW d \in Seq(Cell), pieces[k].contents = d
  PROVE  ReadArray(PointerTo(pieces[k]), Len(d)) = d
<1>1. \A i \in 1 .. Len(d) : Read(PointerTo(pieces[k]), i) = d[i] BY ReadOfPiece
<1>2. d = [i \in 1 .. Len(d) |-> d[i]] OBVIOUS
<1>3. ReadArray(PointerTo(pieces[k]), Len(d)) = [i \in 1 .. Len(d) |-> d[i]]
  BY <1>1 DEF ReadArray
<1>4. QED BY <1>2, <1>3

LEMMA ReadArrayIsASequence ==
  ASSUME NEW address, NEW n \in Nat
  PROVE  /\ Len(ReadArray(address, n)) = n
         /\ ReadArray(address, n) \in Seq({Read(address, i) : i \in 1 .. n})
         /\ \A i \in 1 .. n : ReadArray(address, n)[i] = Read(address, i)
<1> DEFINE S == {Read(address, i) : i \in 1 .. n}
           s == ReadArray(address, n)
<1>1. s \in [1 .. n -> S] BY DEF ReadArray
<1>2. \A i \in 1 .. n : s[i] = Read(address, i) BY DEF ReadArray
<1> HIDE DEF s, S
<1>3. s \in Seq(S) /\ Len(s) = n BY <1>1
<1>4. QED BY <1>2, <1>3 DEF s, S

\* A string is read up to a NUL that is not before its end.
LEMMA ReadStringOfPiece ==
  ASSUME Inv, NEW k \in 1 .. Len(pieces), NEW d \in Seq(Cell), pieces[k].contents = d,
         \A i \in 1 .. Len(d) : d[i] # Nul
  PROVE  IsPrefix(d, ReadString(PointerTo(pieces[k])))
<1> DEFINE b == blocks_[pieces[k].block]
           a == PointerTo(pieces[k])
           size == b.size - pieces[k].at
           ends == {i \in 0 .. size : i = size \/ Read(a, i + 1) = Nul}
           n == CHOOSE e \in ends : \A m \in ends : e <= m
<1>1. /\ pieces[k] \in Placed /\ pieces[k].block \in 1 .. Len(blocks_)
      /\ End(pieces[k]) <= b.head
  BY DEF Inv, Sound, BlocksSound, PiecesBelow
<1>2. b \in Block BY <1>1 DEF Inv, Sound, BlocksSound
<1>3. size \in Nat /\ Len(d) \in Nat /\ Len(d) <= size
  <2> DEFINE piece == pieces[k]
  <2>1. piece \in Placed /\ End(piece) <= b.head /\ piece.contents = d BY <1>1
  <2> HIDE DEF piece, b
  <2>2. /\ piece.at \in Nat /\ Len(piece.contents) \in Nat /\ b.size \in Nat
        /\ End(piece) = piece.at + Len(piece.contents) /\ End(piece) <= b.size
    BY <1>2, <2>1, EndsInBlock
  <2>3. b.size - piece.at \in Nat /\ Len(d) <= b.size - piece.at BY <2>1, <2>2
  <2>4. QED BY <2>1, <2>2, <2>3 DEF piece
<1>4. ReadString(a) = ReadArray(a, n)
  <2>1. a[2] = pieces[k].block /\ a[3] = pieces[k].at BY DEF PointerTo, Pointer
  <2> HIDE DEF a
  <2>2. QED BY <2>1 DEF ReadString
<1>5. \A i \in 1 .. Len(d) : Read(a, i) = d[i] BY ReadOfPiece
<1> HIDE DEF a, b, size
<1>6. \A e \in ends : e \in Nat /\ Len(d) <= e
  <2> SUFFICES ASSUME NEW e \in ends, e < Len(d) PROVE FALSE BY <1>3
  <2>1. e + 1 \in 1 .. Len(d) /\ e # size BY <1>3
  <2>2. Read(a, e + 1) = Nul BY <2>1
  <2>3. QED BY <1>5, <2>1, <2>2
<1>7. size \in ends BY <1>3
<1> HIDE DEF ends
<1>8. \E e \in ends : \A m \in ends : e <= m
  <2>1. ends \subseteq Nat /\ ends # {} BY <1>6, <1>7
  <2>2. PICK e \in ends : \A m \in ends : ~(<<m, e>> \in OpToRel(<, Nat))
    BY <2>1, NatLessThanWellFounded, WFMin
  <2>3. \A m \in ends : ~(m < e) BY <2>1, <2>2 DEF OpToRel
  <2>4. QED BY <2>1, <2>3
<1>9. n \in ends BY <1>8
<1> HIDE DEF n
<1>10. n \in Nat /\ Len(d) <= n BY <1>6, <1>9
<1> DEFINE s == ReadArray(a, n)
           S == {Read(a, i) : i \in 1 .. n}
<1>11. s \in Seq(S) /\ Len(s) = n /\ \A i \in 1 .. n : s[i] = Read(a, i)
  BY <1>10, ReadArrayIsASequence
<1>12. \A i \in 1 .. Len(d) : s[i] = d[i] BY <1>3, <1>5, <1>10, <1>11
<1> HIDE DEF s, S
<1>13. SubSeq(d, 1, Len(d)) = SubSeq(s, 1, Len(d))
  <2>1. /\ SubSeq(s, 1, Len(d)) \in Seq(S) /\ Len(SubSeq(s, 1, Len(d))) = Len(d)
        /\ \A i \in 1 .. Len(d) : SubSeq(s, 1, Len(d))[i] = s[i]
    BY <1>3, <1>10, <1>11
  <2>2. SubSeq(d, 1, Len(d)) = d BY WholeSubSeq
  <2>3. SubSeq(s, 1, Len(d)) = d BY <1>3, <1>12, <2>1, SeqEqual
  <2>4. QED BY <2>2, <2>3
<1>14. IsPrefix(d, s) BY <1>10, <1>11, <1>13 DEF IsPrefix
<1>15. QED BY <1>4, <1>14 DEF s, a

\* The pieces of a command, from the first one, with the addresses in them.
LEMMA OnePieceCopied ==
  ASSUME NEW r, Len(r) = 1, NEW p \in Nat \ {0}, Len(pieces) \in Nat,
         Copied(r, p - 1, pieces, Len(r))
  PROVE  p \in 1 .. Len(pieces) /\ pieces[p].contents = Contents(r[1])
<1>1. p - 1 + 1 <= Len(pieces) /\ p - 1 + 1 = p BY DEF Copied
<1>2. 1 \in 1 .. Len(r) /\ ~(1 < Len(r)) OBVIOUS
<1>3. pieces[p - 1 + 1].contents = Contents(r[1]) BY <1>2 DEF Copied
<1>4. QED BY <1>1, <1>3

LEMMA TwoPiecesCopied ==
  ASSUME NEW r, Len(r) = 2, r[2].parent = 1, NEW p \in Nat \ {0}, Len(pieces) \in Nat,
         Copied(r, p - 1, pieces, Len(r))
  PROVE  /\ p \in 1 .. Len(pieces) /\ p + 1 \in 1 .. Len(pieces)
         /\ pieces[p].contents =
              [Contents(r[1]) EXCEPT ![r[2].slot] = PointerTo(pieces[p + 1])]
         /\ pieces[p + 1].contents = Contents(r[2])
<1>1. /\ p - 1 + 2 <= Len(pieces) /\ p - 1 + 1 = p /\ p - 1 + 2 = p + 1
      /\ p - 1 + 1 + 1 = p + 1 /\ 1 + 1 = 2
  BY DEF Copied
<1>2. 1 \in 1 .. Len(r) /\ 1 < Len(r) /\ 2 \in 1 .. Len(r) /\ ~(2 < Len(r)) OBVIOUS
<1>3. pieces[p - 1 + 1].contents =
        [Contents(r[1]) EXCEPT ![r[1 + 1].slot] = PointerTo(pieces[p - 1 + 1 + 1])]
  BY <1>1, <1>2 DEF Copied
<1>4. pieces[p - 1 + 2].contents = Contents(r[2]) BY <1>2 DEF Copied
<1>5. QED BY <1>1, <1>3, <1>4

LEMMA ThreePiecesCopied ==
  ASSUME NEW r, Len(r) = 3, r[2].parent = 1, r[3].parent = 2, NEW p \in Nat \ {0},
         Len(pieces) \in Nat, Copied(r, p - 1, pieces, Len(r))
  PROVE  /\ p \in 1 .. Len(pieces) /\ p + 1 \in 1 .. Len(pieces)
         /\ p + 2 \in 1 .. Len(pieces)
         /\ pieces[p].contents =
              [Contents(r[1]) EXCEPT ![r[2].slot] = PointerTo(pieces[p + 1])]
         /\ pieces[p + 1].contents =
              [Contents(r[2]) EXCEPT ![r[3].slot] = PointerTo(pieces[p + 2])]
         /\ pieces[p + 2].contents = Contents(r[3])
<1>1. /\ p - 1 + 3 <= Len(pieces) /\ p - 1 + 1 = p /\ p - 1 + 2 = p + 1
      /\ p - 1 + 3 = p + 2 /\ p - 1 + 1 + 1 = p + 1 /\ p - 1 + 2 + 1 = p + 2
      /\ 1 + 1 = 2 /\ 2 + 1 = 3
  BY DEF Copied
<1>2. /\ 1 \in 1 .. Len(r) /\ 1 < Len(r) /\ 2 \in 1 .. Len(r) /\ 2 < Len(r)
      /\ 3 \in 1 .. Len(r) /\ ~(3 < Len(r))
  OBVIOUS
<1>3. pieces[p - 1 + 1].contents =
        [Contents(r[1]) EXCEPT ![r[1 + 1].slot] = PointerTo(pieces[p - 1 + 1 + 1])]
  BY <1>1, <1>2 DEF Copied
<1>4. pieces[p - 1 + 2].contents =
        [Contents(r[2]) EXCEPT ![r[2 + 1].slot] = PointerTo(pieces[p - 1 + 2 + 1])]
  BY <1>1, <1>2 DEF Copied
<1>5. pieces[p - 1 + 3].contents = Contents(r[3]) BY <1>2 DEF Copied
<1>6. QED BY <1>1, <1>3, <1>4, <1>5

\* A structure of a pointer, and one of a count and a pointer.
LEMMA PointerStored ==
  ASSUME NEW a, NEW v
  PROVE  [<<a>> EXCEPT ![1] = v] = <<v>>
OBVIOUS

LEMMA SecondStored ==
  ASSUME NEW a, NEW b, NEW v
  PROVE  [<<a, b>> EXCEPT ![2] = v] = <<a, v>>
OBVIOUS

LEMMA ReadOne ==
  ASSUME Inv, NEW k \in 1 .. Len(pieces), NEW a, pieces[k].contents = <<a>>
  PROVE  Read(PointerTo(pieces[k]), 1) = a
<1>1. 1 \in 1 .. Len(pieces[k].contents) OBVIOUS
<1>2. Read(PointerTo(pieces[k]), 1) = pieces[k].contents[1] BY <1>1, ReadOfPiece
<1>3. QED BY <1>2

LEMMA ReadTwo ==
  ASSUME Inv, NEW k \in 1 .. Len(pieces), NEW a, NEW b, pieces[k].contents = <<a, b>>
  PROVE  Read(PointerTo(pieces[k]), 1) = a /\ Read(PointerTo(pieces[k]), 2) = b
<1>1. 1 \in 1 .. Len(pieces[k].contents) /\ 2 \in 1 .. Len(pieces[k].contents) OBVIOUS
<1>2. /\ Read(PointerTo(pieces[k]), 1) = pieces[k].contents[1]
      /\ Read(PointerTo(pieces[k]), 2) = pieces[k].contents[2]
  BY <1>1, ReadOfPiece
<1>3. QED BY <1>2

\* What a dump prints of a command is what was passed.
LEMMA PrintedIsPassed ==
  ASSUME PassedInv, NEW k \in 1 .. Len(commands_)
  PROVE  LET command == commands_[k]
             printed == Printed(command)
             passed == command.passed.data
         IN CASE command.passed.shape \in {"scalars", "array"} -> printed = passed
              [] command.passed.shape = "nested" ->
                   Len(printed) = Len(passed) /\ printed[1] = passed[1]
              [] command.passed.shape = "label" -> IsPrefix(passed, printed)
              [] command.passed.shape = "untyped" -> TRUE
<1> DEFINE command == commands_[k]
           c == command.passed
           d == c.data
           p == command.parameters
           r == Record(c)
           args == Pointer(pieces[p].block, pieces[p].at)
           counted == <<Value(Len(d)), Application>>
           P(n) == PointerTo(pieces[n])
<1>1. c \in Calls /\ p \in Nat \ {0} /\ Copied(r, p - 1, pieces, Len(r))
  <2>1. command \in Command /\ CommandPassed(command) BY DEF PassedInv, CommandsPassed
  <2>2. QED BY <2>1 DEF Command, CommandPassed
<1>2. /\ d \in Seq(Cell) /\ Len(d) \in Nat
      /\ c.shape \in {"scalars", "array", "nested", "label", "untyped"}
      /\ c.shape = "nested" => Len(d) >= 1
      /\ c.shape = "label" => \A i \in 1 .. Len(d) : d[i] # Nul
  <2> HIDE DEF c
  <2>1. QED BY <1>1, CallsAssumption
<1>3. Inv /\ Len(pieces) \in Nat
  <2>1. pieces \in Seq(Placed) BY PiecesAreASequence DEF PassedInv, Inv
  <2>2. QED BY <2>1 DEF PassedInv
<1>4. args = P(p) BY DEF PointerTo
<1>5. Count(Value(Len(d))) = Len(d) BY DEF Count, Value
<1> HIDE DEF command, c, d, p, r, args
<1>6. CASE c.shape = "scalars"
  <2>1. Len(r) = 1 /\ Contents(r[1]) = d BY <1>1, <1>6, RecordedParts DEF r, d
  <2>2. p \in 1 .. Len(pieces) /\ pieces[p].contents = d
    BY <1>1, <1>3, <2>1, OnePieceCopied
  <2>3. ReadArray(P(p), Len(d)) = d BY <1>2, <1>3, <2>2, ReadArrayOfPiece
  <2>4. Printed(command) = ReadArray(args, Len(d)) BY <1>6 DEF Printed, args, d, c, p
  <2>5. Printed(command) = d BY <1>4, <2>3, <2>4
  <2>6. QED BY <1>6, <2>5 DEF d, c, command
<1>7. CASE c.shape = "array"
  <2>1. /\ Len(r) = 2 /\ Contents(r[1]) = counted /\ Contents(r[2]) = d
        /\ r[2].parent = 1 /\ r[2].slot = 2
    BY <1>1, <1>7, RecordedParts DEF r, d
  <2>2. /\ p \in 1 .. Len(pieces) /\ p + 1 \in 1 .. Len(pieces)
        /\ pieces[p].contents = [Contents(r[1]) EXCEPT ![r[2].slot] = P(p + 1)]
        /\ pieces[p + 1].contents = Contents(r[2])
    BY <1>1, <1>3, <2>1, TwoPiecesCopied
  <2> HIDE DEF P
  <2>3. pieces[p].contents = <<Value(Len(d)), P(p + 1)>>
    <3>1. pieces[p].contents = [counted EXCEPT ![2] = P(p + 1)] BY <2>1, <2>2, Zenon
    <3>2. QED BY <3>1, SecondStored
  <2>4. pieces[p + 1].contents = d BY <2>1, <2>2
  <2>5. Read(args, 1) = Value(Len(d)) /\ Read(args, 2) = P(p + 1)
    BY <1>3, <1>4, <2>2, <2>3, ReadTwo DEF P
  <2>6. ReadArray(P(p + 1), Len(d)) = d BY <1>2, <1>3, <2>2, <2>4, ReadArrayOfPiece DEF P
  <2>7. Printed(command) = ReadArray(Read(args, 2), Count(Read(args, 1)))
    BY <1>7 DEF Printed, args, c, p
  <2>8. Printed(command) = d BY <1>5, <2>5, <2>6, <2>7
  <2>9. QED BY <1>7, <2>8 DEF d, c, command
<1>8. CASE c.shape = "nested"
  <2>1. /\ Len(r) = 3 /\ Contents(r[1]) = <<Application>> /\ Contents(r[2]) = counted
        /\ Contents(r[3]) = <<d[1]>>
        /\ r[2].parent = 1 /\ r[2].slot = 1 /\ r[3].parent = 2 /\ r[3].slot = 2
    BY <1>1, <1>8, RecordedParts DEF r, d
  <2>2. /\ p \in 1 .. Len(pieces) /\ p + 1 \in 1 .. Len(pieces)
        /\ p + 2 \in 1 .. Len(pieces)
        /\ pieces[p].contents = [Contents(r[1]) EXCEPT ![r[2].slot] = P(p + 1)]
        /\ pieces[p + 1].contents = [Contents(r[2]) EXCEPT ![r[3].slot] = P(p + 2)]
        /\ pieces[p + 2].contents = Contents(r[3])
    BY <1>1, <1>3, <2>1, ThreePiecesCopied
  <2> HIDE DEF P
  <2>3. pieces[p].contents = <<P(p + 1)>>
    <3>1. pieces[p].contents = [<<Application>> EXCEPT ![1] = P(p + 1)]
      BY <2>1, <2>2, Zenon
    <3>2. QED BY <3>1, PointerStored
  <2>4. pieces[p + 1].contents = <<Value(Len(d)), P(p + 2)>>
    <3>1. pieces[p + 1].contents = [counted EXCEPT ![2] = P(p + 2)] BY <2>1, <2>2, Zenon
    <3>2. QED BY <3>1, SecondStored
  <2>5. pieces[p + 2].contents = <<d[1]>> BY <2>1, <2>2, Zenon
  <2>6. Read(args, 1) = P(p + 1) BY <1>3, <1>4, <2>2, <2>3, ReadOne DEF P
  <2>7. Read(P(p + 1), 1) = Value(Len(d)) /\ Read(P(p + 1), 2) = P(p + 2)
    BY <1>3, <2>2, <2>4, ReadTwo DEF P
  <2>8. Read(P(p + 2), 1) = d[1] BY <1>3, <2>2, <2>5, ReadOne DEF P
  <2>9. Printed(command) =
          ReadArray(Read(Read(args, 1), 2), Count(Read(Read(args, 1), 1)))
    BY <1>8 DEF Printed, args, c, p
  <2>10. Printed(command) = ReadArray(P(p + 2), Len(d))
    BY <1>5, <2>6, <2>7, <2>9, Zenon
  <2>11. /\ Len(ReadArray(P(p + 2), Len(d))) = Len(d)
         /\ ReadArray(P(p + 2), Len(d))[1] = Read(P(p + 2), 1)
    <3>1. 1 \in 1 .. Len(d) BY <1>2, <1>8
    <3>2. QED BY <1>2, <3>1, ReadArrayIsASequence
  <2>12. Len(Printed(command)) = Len(d) /\ Printed(command)[1] = d[1]
    BY <2>8, <2>10, <2>11, Zenon
  <2>13. QED BY <1>8, <2>12 DEF d, c, command
<1>9. CASE c.shape = "label"
  <2>1. /\ Len(r) = 3 /\ Contents(r[1]) = <<Application>>
        /\ Contents(r[2]) = <<Application>> /\ Contents(r[3]) = d
        /\ r[2].parent = 1 /\ r[2].slot = 1 /\ r[3].parent = 2 /\ r[3].slot = 1
    BY <1>1, <1>9, RecordedParts DEF r, d
  <2>2. /\ p \in 1 .. Len(pieces) /\ p + 1 \in 1 .. Len(pieces)
        /\ p + 2 \in 1 .. Len(pieces)
        /\ pieces[p].contents = [Contents(r[1]) EXCEPT ![r[2].slot] = P(p + 1)]
        /\ pieces[p + 1].contents = [Contents(r[2]) EXCEPT ![r[3].slot] = P(p + 2)]
        /\ pieces[p + 2].contents = Contents(r[3])
    BY <1>1, <1>3, <2>1, ThreePiecesCopied
  <2> HIDE DEF P
  <2>3. pieces[p].contents = <<P(p + 1)>>
    <3>1. pieces[p].contents = [<<Application>> EXCEPT ![1] = P(p + 1)]
      BY <2>1, <2>2, Zenon
    <3>2. QED BY <3>1, PointerStored
  <2>4. pieces[p + 1].contents = <<P(p + 2)>>
    <3>1. pieces[p + 1].contents = [<<Application>> EXCEPT ![1] = P(p + 2)]
      BY <2>1, <2>2, Zenon
    <3>2. QED BY <3>1, PointerStored
  <2>5. pieces[p + 2].contents = d BY <2>1, <2>2
  <2>6. Read(args, 1) = P(p + 1) BY <1>3, <1>4, <2>2, <2>3, ReadOne DEF P
  <2>7. Read(P(p + 1), 1) = P(p + 2) BY <1>3, <2>2, <2>4, ReadOne DEF P
  <2>8. Printed(command) = ReadString(Read(Read(args, 1), 1))
    BY <1>9 DEF Printed, args, c, p
  <2>9. IsPrefix(d, ReadString(P(p + 2)))
    BY <1>2, <1>3, <1>9, <2>2, <2>5, ReadStringOfPiece DEF P
  <2>10. IsPrefix(d, Printed(command)) BY <2>6, <2>7, <2>8, <2>9
  <2>11. QED BY <1>9, <2>10 DEF d, c, command
<1>10. CASE c.shape = "untyped" BY <1>10 DEF c, command
<1>11. QED BY <1>2, <1>6, <1>7, <1>8, <1>9, <1>10

LEMMA AlwaysPassed == Spec => []PassedInv
<1>1. Init => PassedInv BY InitPassed
<1>2. PassedInv /\ [Next]_vars => PassedInv' BY NextPassed
<1>3. QED BY <1>1, <1>2, PTL DEF Spec

LEMMA PassedIsPrinted == PassedInv => ParametersArePassed
<1> SUFFICES ASSUME PassedInv, NEW command \in ToSet(commands_)
             PROVE  LET printed == Printed(command)
                        passed == command.passed.data
                    IN CASE command.passed.shape \in {"scalars", "array"} ->
                              printed = passed
                         [] command.passed.shape = "nested" ->
                              Len(printed) = Len(passed) /\ printed[1] = passed[1]
                         [] command.passed.shape = "label" -> IsPrefix(passed, printed)
                         [] command.passed.shape = "untyped" -> TRUE
  BY DEF ParametersArePassed
<1>1. PICK k \in 1 .. Len(commands_) : command = commands_[k]
  <2>1. commands_ \in Seq(Command) BY DEF PassedInv, CommandsPassed
  <2>2. QED BY <2>1 DEF ToSet
<1>2. QED BY <1>1, PrintedIsPassed

\* Of a recorded command, a dump prints the scalars and arrays that were passed,
\* the first element of an array in a structure, and a string that begins with
\* the label (TrackPreX, RecordCmdX, PrintCommandParameters), for every set of
\* calls, block size and alignment: what points from one piece to the next leads
\* there until the next Reset.  The rest of such an array, the end of the string
\* and untyped data are printed from memory that is no copy: nothing is said.
THEOREM ParametersStayPassed == Spec => []ParametersArePassed
<1>1. PassedInv => ParametersArePassed BY PassedIsPrinted
<1>2. QED BY <1>1, AlwaysPassed, PTL

-----------------------------------------------------------------------------
(* Where a recording goes.  A place is the active block and its head; the  *)
(* blocks after it are empty.  The places of a recording depend on nothing *)
(* but the sizes of its pieces and the sizes and addresses of the blocks.  *)

Place == [block : Nat \ {0}, head : Nat]

RoundedAt(b, h) == h + ((kAlignment - ((b.base + h) % kAlignment)) % kAlignment)

FitsAt(b, h, size) == RoundedAt(b, h) + size <= b.size

HeadAt(place, k) == IF k = place.block THEN place.head ELSE 0

\* An allocation that needs no new block, from one place to the next.
Takes(blks, from, size, to) ==
  /\ to.block \in from.block .. Len(blks)
  /\ FitsAt(blks[to.block], HeadAt(from, to.block), size)
  /\ \A k \in from.block .. to.block - 1 : ~FitsAt(blks[k], HeadAt(from, k), size)
  /\ to.head = RoundedAt(blks[to.block], HeadAt(from, to.block)) + size

\* The places of pieces of these sizes, one after the other from a Reset on.
Path(blks, sizes, p) ==
  /\ p \in [0 .. Len(sizes) -> Place]
  /\ p[0] = [block |-> 1, head |-> 0]
  /\ \A k \in 1 .. Len(sizes) : Takes(blks, p[k - 1], sizes[k], p[k])

\* The same blocks, and perhaps more; contents and heads may differ.
SameShape(blks, more) ==
  /\ Len(blks) \in Nat /\ Len(more) \in Nat /\ Len(blks) <= Len(more)
  /\ \A k \in 1 .. Len(blks) : more[k].size = blks[k].size /\ more[k].base = blks[k].base

PlaceIn(blks, active) == [block |-> active, head |-> blks[active].head]

Begins(s, t) == Len(s) <= Len(t) /\ \A k \in 1 .. Len(s) : t[k] = s[k]

\* This recording and the earlier ones have their places in the blocks there
\* are, and this one is where an earlier one was that began as it does.
PlacesInv ==
  /\ Inv
  /\ \E p : Path(blocks_, Sizes, p) /\ p[Len(pieces)] = PlaceIn(blocks_, active_block_)
  /\ \A s \in past :
       /\ s \in Seq(Nat)
       /\ \E p : /\ Path(blocks_, s, p)
                 /\ Begins(Sizes, s) => p[Len(pieces)] = PlaceIn(blocks_, active_block_)

LEMMA TakesInMore ==
  ASSUME NEW blks, NEW more, SameShape(blks, more), NEW from \in Place, NEW to \in Place,
         NEW size, Takes(blks, from, size, to)
  PROVE  Takes(more, from, size, to)
<1>1. /\ from.block \in Nat \ {0} /\ to.block \in from.block .. Len(blks)
      /\ Len(blks) \in Nat /\ Len(more) \in Nat /\ Len(blks) <= Len(more)
  BY DEF Place, Takes, SameShape
<1>2. ASSUME NEW k \in from.block .. to.block
      PROVE  more[k].size = blks[k].size /\ more[k].base = blks[k].base
  <2>1. k \in 1 .. Len(blks) BY <1>1
  <2>2. QED BY <2>1 DEF SameShape
<1>3. to.block \in from.block .. to.block /\ to.block \in from.block .. Len(more)
  BY <1>1
<1>4. \A k \in from.block .. to.block - 1 : k \in from.block .. to.block BY <1>1
<1>5. /\ FitsAt(more[to.block], HeadAt(from, to.block), size)
      /\ to.head = RoundedAt(more[to.block], HeadAt(from, to.block)) + size
  <2>1. /\ FitsAt(blks[to.block], HeadAt(from, to.block), size)
        /\ to.head = RoundedAt(blks[to.block], HeadAt(from, to.block)) + size
    BY DEF Takes
  <2>2. more[to.block].size = blks[to.block].size /\ more[to.block].base = blks[to.block].base
    BY <1>2, <1>3
  <2>3. QED BY <2>1, <2>2, Zenon DEF FitsAt, RoundedAt
<1>6. ASSUME NEW k \in from.block .. to.block - 1
      PROVE  ~FitsAt(more[k], HeadAt(from, k), size)
  <2>1. ~FitsAt(blks[k], HeadAt(from, k), size) BY DEF Takes
  <2>2. more[k].size = blks[k].size /\ more[k].base = blks[k].base BY <1>2, <1>4
  <2>3. QED BY <2>1, <2>2, Zenon DEF FitsAt, RoundedAt
<1>7. QED BY <1>3, <1>5, <1>6 DEF Takes

LEMMA PathInMore ==
  ASSUME NEW blks, NEW more, SameShape(blks, more), NEW s, Len(s) \in Nat, NEW p,
         Path(blks, s, p)
  PROVE  Path(more, s, p)
<1>1. ASSUME NEW k \in 1 .. Len(s) PROVE Takes(more, p[k - 1], s[k], p[k])
  <2>1. k \in 0 .. Len(s) /\ k - 1 \in 0 .. Len(s) OBVIOUS
  <2>2. Takes(blks, p[k - 1], s[k], p[k]) /\ p[k - 1] \in Place /\ p[k] \in Place
    BY <2>1 DEF Path
  <2>3. QED BY <2>2, TakesInMore
<1>2. QED BY <1>1 DEF Path

\* Where an allocation goes is determined.
LEMMA TakesOnce ==
  ASSUME NEW blks, Len(blks) \in Nat, NEW from \in Place, NEW a \in Place, NEW b \in Place,
         NEW size, Takes(blks, from, size, a), Takes(blks, from, size, b)
  PROVE  a = b
<1>1. /\ from.block \in Nat /\ a.block \in from.block .. Len(blks)
      /\ b.block \in from.block .. Len(blks)
  BY DEF Place, Takes
<1>2. ~(a.block < b.block)
  <2> SUFFICES ASSUME a.block < b.block PROVE FALSE OBVIOUS
  <2>1. a.block \in from.block .. b.block - 1 BY <1>1
  <2>2. QED BY <2>1 DEF Takes
<1>3. ~(b.block < a.block)
  <2> SUFFICES ASSUME b.block < a.block PROVE FALSE OBVIOUS
  <2>1. b.block \in from.block .. a.block - 1 BY <1>1
  <2>2. QED BY <2>1 DEF Takes
<1>4. a.block = b.block BY <1>1, <1>2, <1>3
<1>5. a.head = b.head BY <1>4, Zenon DEF Takes
<1>6. QED BY <1>4, <1>5 DEF Place

\* One more piece on a path.
LEMMA PathWithPiece ==
  ASSUME NEW blks, NEW s, Len(s) \in Nat, NEW p, Path(blks, s, p), NEW t,
         Len(t) = Len(s) + 1, \A k \in 1 .. Len(s) : t[k] = s[k],
         NEW to \in Place, Takes(blks, p[Len(s)], t[Len(t)], to)
  PROVE  \E q : Path(blks, t, q) /\ q[Len(t)] = to
<1> DEFINE n == Len(s)
           q == [k \in 0 .. n + 1 |-> IF k = n + 1 THEN to ELSE p[k]]
<1>1. /\ p \in [0 .. n -> Place] /\ p[0] = [block |-> 1, head |-> 0]
      /\ \A k \in 1 .. n : Takes(blks, p[k - 1], s[k], p[k])
  BY DEF Path
<1> HIDE DEF n
<1>2. n \in Nat /\ n = Len(s) /\ Len(t) = n + 1 BY DEF n
<1>3. q \in [0 .. n + 1 -> Place] /\ q[n + 1] = to /\ \A k \in 0 .. n : q[k] = p[k]
  BY <1>1, <1>2
<1> HIDE DEF q
<1>4. ASSUME NEW k \in 1 .. n + 1 PROVE Takes(blks, q[k - 1], t[k], q[k])
  <2>1. CASE k = n + 1
    <3>1. k - 1 = n /\ n \in 0 .. n BY <1>2, <2>1
    <3>2. QED BY <1>2, <1>3, <2>1, <3>1
  <2>2. CASE k \in 1 .. n
    <3>1. k \in 0 .. n /\ k - 1 \in 0 .. n BY <1>2, <2>2
    <3>2. q[k] = p[k] /\ q[k - 1] = p[k - 1] /\ t[k] = s[k] BY <1>2, <1>3, <2>2, <3>1
    <3>3. QED BY <1>1, <2>2, <3>2
  <2>3. QED BY <1>2, <2>1, <2>2
<1>5. q[0] = [block |-> 1, head |-> 0] BY <1>1, <1>2, <1>3
<1>6. Path(blks, t, q) BY <1>2, <1>3, <1>4, <1>5 DEF Path
<1>7. QED BY <1>2, <1>3, <1>6

\* The head of every block that can still be used is the one of its place.
LEMMA HeadsOfPlace ==
  ASSUME NEW blks, NEW active, BlocksSound(blks, active), NEW k \in active .. Len(blks)
  PROVE  /\ HeadAt(PlaceIn(blks, active), k) = blks[k].head
         /\ RoundedAt(blks[k], HeadAt(PlaceIn(blks, active), k)) = Rounded(blks[k])
         /\ \A size : FitsAt(blks[k], HeadAt(PlaceIn(blks, active), k), size)
                        <=> Fits(blks[k], size)
<1>1. active \in 1 .. Len(blks) /\ blks \in Seq(Block) BY DEF BlocksSound
<1>2. HeadAt(PlaceIn(blks, active), k) = blks[k].head
  <2>1. CASE k = active BY <2>1 DEF HeadAt, PlaceIn
  <2>2. CASE k # active
    <3>1. k > active /\ k \in 1 .. Len(blks) BY <1>1, <2>2
    <3>2. blks[k].head = 0 BY <3>1 DEF BlocksSound
    <3>3. QED BY <2>2, <3>2 DEF HeadAt, PlaceIn
  <2>3. QED BY <2>1, <2>2
<1>3. QED BY <1>2, Zenon DEF RoundedAt, Rounded, FitsAt, Fits

LEMMA PlaceIsTyped ==
  ASSUME NEW blks, NEW active, BlocksSound(blks, active)
  PROVE  PlaceIn(blks, active) \in Place
<1>1. active \in 1 .. Len(blks) /\ blks \in Seq(Block) BY DEF BlocksSound
<1>2. blks[active] \in Block BY <1>1
<1>3. active \in Nat \ {0} /\ blks[active].head \in Nat BY <1>1, <1>2, BlockShape
<1>4. QED BY <1>3 DEF Place, PlaceIn

LEMMA BeginsShorter ==
  ASSUME NEW s, NEW t, NEW u, Len(s) \in Nat, Len(u) \in Nat, Len(t) = Len(s) + 1,
         \A k \in 1 .. Len(s) : t[k] = s[k], Begins(t, u)
  PROVE  Begins(s, u) /\ Len(t) \in 1 .. Len(u) /\ u[Len(t)] = t[Len(t)]
BY DEF Begins

LEMMA PrefixBegins ==
  ASSUME NEW s \in Seq(Nat), NEW t \in Seq(Nat), IsPrefix(s, t)
  PROVE  Begins(s, t)
<1>1. Len(s) <= Len(t) /\ SubSeq(s, 1, Len(s)) = SubSeq(t, 1, Len(s)) BY DEF IsPrefix
<1>2. SubSeq(s, 1, Len(s)) = s BY WholeSubSeq
<1>3. \A k \in 1 .. Len(s) : SubSeq(t, 1, Len(s))[k] = t[k] BY <1>1
<1>4. QED BY <1>1, <1>2, <1>3 DEF Begins

-----------------------------------------------------------------------------
(* What a step does to the blocks and to the sizes of a recording.         *)

\* A copy moves the head of the block it goes to, and nothing else of a block.
CopyMoves(blks, size) ==
  /\ SameShape(blks, blocks_') /\ Len(blocks_') = Len(blks)
  /\ PlaceIn(blks, active_block_) \in Place /\ PlaceIn(blocks_', active_block_') \in Place
  /\ Takes(blks, PlaceIn(blks, active_block_), size, PlaceIn(blocks_', active_block_'))

LEMMA StoringKeepsHeads ==
  ASSUME NEW s, NEW j \in DOMAIN s, s[j] = [size |-> s[j].size, base |-> s[j].base,
                                           head |-> s[j].head, data |-> s[j].data],
         NEW o, NEW v
  PROVE  LET t == [s EXCEPT ![j].data[o] = v] IN
         \A k \in DOMAIN s :
           t[k].size = s[k].size /\ t[k].base = s[k].base /\ t[k].head = s[k].head
<1> DEFINE d == [s[j].data EXCEPT ![o] = v]
           b == [size |-> s[j].size, base |-> s[j].base, head |-> s[j].head, data |-> d]
           t == [s EXCEPT ![j].data[o] = v]
<1>1. [s[j] EXCEPT !.data[o] = v] = b
  <2> DEFINE shape(m, n, h, x) == [size |-> m, base |-> n, head |-> h, data |-> x]
  <2>1. ASSUME NEW m, NEW n, NEW h, NEW x, s[j] = shape(m, n, h, x)
        PROVE  [s[j] EXCEPT !.data[o] = v] = shape(m, n, h, [x EXCEPT ![o] = v])
    BY <2>1
  <2>2. s[j] = shape(s[j].size, s[j].base, s[j].head, s[j].data) OBVIOUS
  <2> HIDE DEF shape
  <2>3. [s[j] EXCEPT !.data[o] = v] = shape(s[j].size, s[j].base, s[j].head, d)
    BY <2>1, <2>2
  <2>4. QED BY <2>3 DEF shape
<1>2. b.size = s[j].size /\ b.base = s[j].base /\ b.head = s[j].head OBVIOUS
<1>3. t = [s EXCEPT ![j] = [s[j] EXCEPT !.data[o] = v]] OBVIOUS
<1>4. t = [s EXCEPT ![j] = b] BY <1>1, <1>3
<1> HIDE DEF b, t
<1>5. \A k \in DOMAIN s : t[k] = IF k = j THEN b ELSE s[k] BY <1>4
<1>6. QED BY <1>2, <1>5 DEF t

LEMMA ParentIsAPiece ==
  ASSUME Inv, call.left # <<>>, Head(call.left).parent # 0
  PROVE  call.first + Head(call.left).parent \in 1 .. Len(pieces)
<1> DEFINE piece == Head(call.left)
           n == Len(pieces)
<1>1. pieces \in Seq(Placed) /\ n \in Nat BY PiecesAreASequence DEF Inv
<1>2. /\ call.left \in Seq(PieceShape) /\ Len(call.left) \in Nat /\ Len(call.left) >= 1
      /\ piece = call.left[1] /\ piece \in PieceShape /\ call.first \in Nat
  BY DEF Inv, CallSound, Pending
<1>3. piece.parent > 0 BY <1>2 DEF PieceShape
<1>4. call.first + piece.parent \in 1 .. n + 1 - 1
  BY <1>2, <1>3 DEF Inv, CallSound, Pending
<1> HIDE DEF n
<1>5. QED BY <1>1, <1>4 DEF n

LEMMA CopyMovesHead ==
  ASSUME Inv, call.left # <<>>, NEW blks, Sound(blks, active_block_, pieces), NEW j,
         IsTarget(blks, active_block_, Len(Contents(Head(call.left))), j),
         CopyInto(blks, j), Inv'
  PROVE  CopyMoves(blks, Len(Contents(Head(call.left))))
<1> DEFINE piece == Head(call.left)
           c == Contents(piece)
           at == Rounded(blks[j])
           f == Filled(blks[j], c)
           filled == [blks EXCEPT ![j] = f]
           m == call.first + piece.parent
           o == pieces[m].at + piece.slot - 1
<1>1. /\ blks \in Seq(Block) /\ active_block_ \in 1 .. Len(blks)
      /\ pieces \in Seq(Placed) /\ BlocksSound(blks, active_block_)
  BY PiecesAreASequence DEF Sound
<1>2. /\ j \in active_block_ .. Len(blks) /\ Fits(blks[j], Len(c))
      /\ \A k \in active_block_ .. j - 1 : ~Fits(blks[k], Len(c))
  BY DEF IsTarget
<1>3. c \in Seq(Cell) /\ piece \in PieceShape /\ call.first \in Nat /\ piece.parent \in Nat
  <2>1. /\ call.left \in Seq(PieceShape) /\ Len(call.left) >= 1
        /\ piece = call.left[1] /\ piece \in PieceShape /\ call.first \in Nat
    BY DEF Inv, CallSound, Pending
  <2>2. piece.copied <= Len(piece.passed) BY <2>1 DEF Inv, CallSound, Pending
  <2>3. /\ piece.passed \in Seq(Cell) /\ piece.copied \in Nat /\ piece.parent \in Nat
    BY <2>1 DEF PieceShape
  <2> HIDE DEF piece
  <2>4. QED BY <2>1, <2>2, <2>3 DEF Contents
<1>4. j \in 1 .. Len(blks) /\ blks[j] \in Block BY <1>1, <1>2
<1> HIDE DEF piece, c
<1>5. f \in Block /\ f.size = blks[j].size /\ f.head = at + Len(c)
  BY <1>2, <1>3, <1>4, FilledBlock
<1>6. f.base = blks[j].base BY <1>4 DEF Filled, Block
<1> HIDE DEF f, at
<1>7. /\ filled \in Seq(Block) /\ Len(filled) = Len(blks) /\ filled[j] = f
      /\ \A k \in 1 .. Len(blks) : k # j => filled[k] = blks[k]
  BY <1>1, <1>4, <1>5
<1>8. /\ active_block_' = j /\ Len(blocks_') = Len(blks)
      /\ \A k \in 1 .. Len(blks) : /\ blocks_'[k].size = filled[k].size
                                   /\ blocks_'[k].base = filled[k].base
                                   /\ blocks_'[k].head = filled[k].head
  <2>1. CASE piece.parent = 0
    <3>1. active_block_' = j /\ blocks_' = filled
      BY <2>1, Zenon DEF CopyInto, piece, c, f
    <3>2. QED BY <1>7, <3>1
  <2>2. CASE piece.parent # 0
    <3> DEFINE v == Pointer(j, at)
               i == pieces[m].block
    <3>1. active_block_' = j /\ blocks_' = [filled EXCEPT ![i].data[o] = v]
      BY <2>2, Zenon DEF CopyInto, piece, c, f, at
    <3>2. i \in 1 .. Len(blks)
      <4>1. m \in 1 .. Len(pieces) BY <2>2, ParentIsAPiece DEF piece
      <4> HIDE DEF m
      <4>2. pieces[m].block \in 1 .. active_block_
        BY <4>1 DEF Sound, PiecesBelow
      <4>3. QED BY <1>1, <4>2
    <3> HIDE DEF i, v, o, m, filled
    <3>3. DOMAIN filled = 1 .. Len(blks) /\ filled[i] \in Block BY <1>1, <1>7, <3>2
    <3>4. filled[i] = [size |-> filled[i].size, base |-> filled[i].base,
                       head |-> filled[i].head, data |-> filled[i].data]
      BY <3>3 DEF Block
    <3>5. /\ \A k \in 1 .. Len(blks) :
               /\ blocks_'[k].size = filled[k].size /\ blocks_'[k].base = filled[k].base
               /\ blocks_'[k].head = filled[k].head
      BY <3>1, <3>2, <3>3, <3>4, StoringKeepsHeads
    <3>6. Len(blocks_') = Len(blks)
      <4>1. DOMAIN blocks_' = DOMAIN filled BY <3>1
      <4>2. blocks_' \in Seq(Block) BY PiecesAreASequence DEF Inv
      <4>3. QED BY <1>1, <3>3, <4>1, <4>2
    <3>7. QED BY <3>1, <3>5, <3>6
  <2>3. QED BY <2>1, <2>2
<1> HIDE DEF filled
<1>9. SameShape(blks, blocks_')
  <2>1. ASSUME NEW k \in 1 .. Len(blks)
        PROVE  blocks_'[k].size = blks[k].size /\ blocks_'[k].base = blks[k].base
    <3>1. CASE k = j BY <1>5, <1>6, <1>7, <1>8, <3>1
    <3>2. CASE k # j BY <1>7, <1>8, <3>2
    <3>3. QED BY <3>1, <3>2
  <2>2. QED BY <1>1, <1>8, <2>1 DEF SameShape
<1> DEFINE here == PlaceIn(blks, active_block_)
           there == PlaceIn(blocks_', active_block_')
<1>10. here \in Place BY <1>1, PlaceIsTyped
<1>11. there \in Place
  <2>1. BlocksSound(blocks_', active_block_') BY DEF Inv, Sound
  <2>2. QED BY <2>1, PlaceIsTyped
<1>12. there.block = j /\ there.head = at + Len(c)
  BY <1>4, <1>5, <1>7, <1>8 DEF PlaceIn
<1>13. here.block = active_block_ BY DEF PlaceIn
<1> HIDE DEF here, there
<1>14. /\ RoundedAt(blks[j], HeadAt(here, j)) = at
       /\ FitsAt(blks[j], HeadAt(here, j), Len(c))
  BY <1>1, <1>2, HeadsOfPlace DEF here, at
<1>15. ASSUME NEW k \in active_block_ .. j - 1
       PROVE  ~FitsAt(blks[k], HeadAt(here, k), Len(c))
  <2>1. k \in active_block_ .. Len(blks) BY <1>1, <1>2
  <2>2. QED BY <1>1, <1>2, <2>1, HeadsOfPlace DEF here
<1>16. Takes(blks, here, Len(c), there)
  BY <1>2, <1>12, <1>13, <1>14, <1>15 DEF Takes
<1>17. QED BY <1>8, <1>9, <1>10, <1>11, <1>16 DEF CopyMoves, here, there, c, piece

\* The copied piece is put where it takes its place, of the blocks there were or
\* in a new one that no other had room for.
LEMMA CopyTakes ==
  ASSUME Inv, CopyPiece, Inv'
  PROVE  LET size == Len(Contents(Head(call.left)))
             here == PlaceIn(blocks_, active_block_)
             there == PlaceIn(blocks_', active_block_')
         IN /\ here \in Place /\ there \in Place
            /\ SameShape(blocks_, blocks_') /\ Takes(blocks_', here, size, there)
            /\ Len(blocks_') = Len(blocks_) \/ NoneFits(blocks_, active_block_, size)
<1> DEFINE size == Len(Contents(Head(call.left)))
           here == PlaceIn(blocks_, active_block_)
           there == PlaceIn(blocks_', active_block_')
           Taken == /\ here \in Place /\ there \in Place
                    /\ SameShape(blocks_, blocks_') /\ Takes(blocks_', here, size, there)
                    /\ Len(blocks_') = Len(blocks_) \/ NoneFits(blocks_, active_block_, size)
<1>1. call.left # <<>> BY DEF CopyPiece
<1>2. /\ blocks_ \in Seq(Block) /\ active_block_ \in 1 .. Len(blocks_)
      /\ Sound(blocks_, active_block_, pieces)
  BY PiecesAreASequence DEF Inv
<1>3. ASSUME NEW j \in 1 .. Len(blocks_),
             IsTarget(blocks_, active_block_, size, j), CopyInto(blocks_, j)
      PROVE  Taken
  <2>1. CopyMoves(blocks_, size) BY <1>1, <1>2, <1>3, CopyMovesHead
  <2> HIDE DEF size
  <2>2. Takes(blocks_', here, size, there) BY <2>1, TakesInMore DEF CopyMoves
  <2>3. QED BY <2>1, <2>2 DEF CopyMoves
<1>4. ASSUME NEW base \in Bases, NoneFits(blocks_, active_block_, size),
             CopyInto(Append(blocks_, NewBlock(NewBlockSize(size), base)),
                      Len(blocks_) + 1)
      PROVE  Taken
  <2> DEFINE b == NewBlock(NewBlockSize(size), base)
             more == Append(blocks_, b)
             last == Len(blocks_) + 1
  <2>1. size \in Nat BY <1>1, HeadIsCopied DEF Inv, CallSound
  <2>2. b \in Block /\ b.head = 0 /\ Fits(b, size) BY <2>1, NewBlockFits
  <2> HIDE DEF b
  <2>3. Sound(more, active_block_, pieces) BY <1>2, <2>2, SoundWithBlock
  <2>4. /\ Len(more) = last /\ more[last] = b
        /\ \A k \in 1 .. Len(blocks_) : more[k] = blocks_[k]
    BY <1>2, <2>2, AppendProperties
  <2>5. CopyInto(more, last) BY <1>4 DEF b
  <2> HIDE DEF more
  <2>6. IsTarget(more, active_block_, size, last)
    <3>1. last \in active_block_ .. Len(more) BY <1>2, <2>4
    <3>2. ASSUME NEW k \in active_block_ .. last - 1 PROVE ~Fits(more[k], size)
      <4>1. k \in active_block_ .. Len(blocks_) /\ k \in 1 .. Len(blocks_) BY <1>2
      <4>2. ~Fits(blocks_[k], size) BY <1>4, <4>1 DEF NoneFits
      <4>3. QED BY <2>4, <4>1, <4>2
    <3>3. QED BY <2>2, <2>4, <3>1, <3>2 DEF IsTarget
  <2>7. CopyMoves(more, size) BY <1>1, <2>3, <2>5, <2>6, CopyMovesHead
  <2> HIDE DEF size
  <2>8. PlaceIn(more, active_block_) = here BY <1>2, <2>4 DEF PlaceIn
  <2>9. SameShape(blocks_, blocks_')
    <3>1. /\ SameShape(more, blocks_') /\ Len(blocks_') = last BY <2>4, <2>7 DEF CopyMoves
    <3>2. ASSUME NEW k \in 1 .. Len(blocks_)
          PROVE  /\ blocks_'[k].size = blocks_[k].size
                 /\ blocks_'[k].base = blocks_[k].base
      <4>1. k \in 1 .. Len(more) /\ more[k] = blocks_[k] BY <1>2, <2>4
      <4>2. QED BY <3>1, <4>1 DEF SameShape
    <3>3. QED BY <1>2, <3>1, <3>2 DEF SameShape
  <2>10. Takes(blocks_', here, size, there) BY <2>7, <2>8, TakesInMore DEF CopyMoves
  <2>11. QED BY <1>4, <2>7, <2>8, <2>9, <2>10 DEF CopyMoves
<1>5. Taken BY <1>3, <1>4 DEF CopyPiece
<1>6. QED BY <1>5

LEMMA SizesOfPieces ==
  ASSUME Inv
  PROVE  /\ Sizes \in Seq(Nat) /\ Len(Sizes) = Len(pieces) /\ Len(pieces) \in Nat
         /\ \A k \in 1 .. Len(pieces) : Sizes[k] = Len(pieces[k].contents)
<1>1. pieces \in Seq(Placed) BY PiecesAreASequence DEF Inv
<1>2. \A k \in 1 .. Len(pieces) : Len(pieces[k].contents) \in Nat BY <1>1, PlacedShape
<1>3. QED BY <1>1, <1>2 DEF Sizes

LEMMA ExceptKeepsLength ==
  ASSUME NEW S, NEW s \in Seq(S), NEW x, NEW v
  PROVE  Len([s EXCEPT ![x] = v]) = Len(s)
<1>1. DOMAIN [s EXCEPT ![x] = v] = 1 .. Len(s) /\ Len(s) \in Nat OBVIOUS
<1>2. QED BY <1>1

LEMMA CopyAddsSize ==
  ASSUME Inv, CopyPiece, Inv'
  PROVE  /\ Len(pieces') = Len(pieces) + 1
         /\ Len(Sizes') = Len(Sizes) + 1
         /\ \A k \in 1 .. Len(Sizes) : Sizes'[k] = Sizes[k]
         /\ Sizes'[Len(pieces) + 1] = Len(Contents(Head(call.left)))
<1> DEFINE n == Len(pieces)
           piece == Head(call.left)
           m == call.first + piece.parent
<1>1. /\ n \in Nat /\ Len(Sizes) = n
      /\ \A k \in 1 .. n : Sizes[k] = Len(pieces[k].contents)
  BY SizesOfPieces
<1>2. /\ Len(pieces') \in Nat /\ Len(Sizes') = Len(pieces')
      /\ \A k \in 1 .. Len(pieces') : Sizes'[k] = Len(pieces'[k].contents)
  BY PiecesAreASequence DEF Inv, Sizes
<1>3. PieceCopied BY CopyPieceCopies
<1> DEFINE new == pieces'[n + 1]
<1>4. /\ Len(pieces') = n + 1 /\ new.contents = Contents(piece)
      /\ \A k \in 1 .. n :
           pieces'[k].contents =
             IF piece.parent > 0 /\ k = m
             THEN [pieces[k].contents EXCEPT ![piece.slot] = PointerTo(new)]
             ELSE pieces[k].contents
  BY <1>3 DEF PieceCopied
<1>5. pieces \in Seq(Placed) BY PiecesAreASequence DEF Inv
<1> HIDE DEF n, m, piece, new
<1>6. ASSUME NEW k \in 1 .. n PROVE Len(pieces'[k].contents) = Len(pieces[k].contents)
  <2>1. pieces[k].contents \in Seq(Cell) BY <1>5, PlacedShape DEF n
  <2>2. CASE piece.parent > 0 /\ k = m
    <3>1. pieces'[k].contents = [pieces[k].contents EXCEPT ![piece.slot] = PointerTo(new)]
      BY <1>4, <2>2
    <3>2. QED BY <2>1, <3>1, ExceptKeepsLength
  <2>3. CASE ~(piece.parent > 0 /\ k = m) BY <1>4, <2>3
  <2>4. QED BY <2>2, <2>3
<1>7. ASSUME NEW k \in 1 .. n PROVE Sizes'[k] = Sizes[k]
  <2>1. k \in 1 .. n + 1 BY <1>1
  <2>2. QED BY <1>1, <1>2, <1>4, <1>6, <2>1
<1>8. Sizes'[n + 1] = Len(Contents(piece))
  <2>1. n + 1 \in 1 .. n + 1 BY <1>1
  <2>2. QED BY <1>2, <1>4, <2>1 DEF new
<1>9. QED BY <1>1, <1>2, <1>4, <1>7, <1>8 DEF n, piece

LEMMA ResetKeepsShape ==
  ASSUME Inv, Reset, Inv'
  PROVE  /\ SameShape(blocks_, blocks_') /\ Len(blocks_') = Len(blocks_)
         /\ PlaceIn(blocks_', active_block_') = [block |-> 1, head |-> 0]
         /\ Len(pieces') = 0 /\ Len(Sizes') = 0
<1>1. blocks_ \in Seq(Block) /\ Len(blocks_) \in Nat /\ 1 \in 1 .. Len(blocks_)
  BY PiecesAreASequence DEF Inv
<1>2. /\ blocks_' = [j \in 1 .. Len(blocks_) |-> [blocks_[j] EXCEPT !.head = 0]]
      /\ active_block_' = 1 /\ pieces' = <<>>
  BY DEF Reset, ResetBlocks, FirstBlock
<1>3. Len(blocks_') = Len(blocks_) BY <1>1, <1>2
<1>4. ASSUME NEW k \in 1 .. Len(blocks_)
      PROVE  /\ blocks_'[k].size = blocks_[k].size /\ blocks_'[k].base = blocks_[k].base
             /\ blocks_'[k].head = 0
  <2>1. blocks_[k] \in Block BY <1>1
  <2>2. blocks_'[k] = [blocks_[k] EXCEPT !.head = 0] BY <1>2
  <2>3. QED BY <2>1, <2>2 DEF Block
<1>5. SameShape(blocks_, blocks_') BY <1>1, <1>3, <1>4 DEF SameShape
<1>6. PlaceIn(blocks_', active_block_') = [block |-> 1, head |-> 0]
  BY <1>1, <1>2, <1>4 DEF PlaceIn
<1>7. Len(pieces') = 0 BY <1>2
<1>8. Len(Sizes') = 0 BY <1>7 DEF Sizes
<1>9. QED BY <1>3, <1>5, <1>6, <1>7, <1>8

LEMMA InitPlaces == Init => PlacesInv
<1> SUFFICES ASSUME Init PROVE PlacesInv OBVIOUS
<1>1. Inv BY InitInv
<1>2. PICK base \in Bases : blocks_ = <<NewBlock(kDefaultBlockSize, base)>>
  BY DEF Init
<1>3. active_block_ = 1 /\ pieces = <<>> /\ past = {} BY DEF Init
<1> DEFINE start == [block |-> 1, head |-> 0]
           p == [k \in 0 .. 0 |-> start]
<1>4. PlaceIn(blocks_, active_block_) = start
  <2>1. NewBlock(kDefaultBlockSize, base).head = 0 BY FirstBlockIsSound
  <2>2. QED BY <1>2, <1>3, <2>1 DEF PlaceIn
<1>5. Len(Sizes) = 0 BY <1>3 DEF Sizes
<1>6. start \in Place BY DEF Place
<1> HIDE DEF start
<1>7. p \in [0 .. 0 -> Place] /\ p[0] = start BY <1>6
<1>8. Path(blocks_, Sizes, p) BY <1>5, <1>7 DEF Path, start
<1>9. Len(pieces) = 0 BY <1>3
<1> HIDE DEF p
<1>10. QED BY <1>1, <1>3, <1>4, <1>7, <1>8, <1>9 DEF PlacesInv

\* The path of an earlier recording goes on to where this one now is.
LEMMA NextOfPath ==
  ASSUME PlacesInv, CopyPiece, Inv', NEW s \in Seq(Nat), NEW p, Path(blocks_, s, p),
         Begins(Sizes, s) => p[Len(pieces)] = PlaceIn(blocks_, active_block_),
         Begins(Sizes', s)
  PROVE  LET next == p[Len(pieces) + 1] IN
         /\ next \in Place
         /\ Takes(blocks_, PlaceIn(blocks_, active_block_),
                  Len(Contents(Head(call.left))), next)
<1> DEFINE n == Len(pieces)
           size == Len(Contents(Head(call.left)))
<1>1. /\ n \in Nat /\ Len(Sizes) = n /\ Len(s) \in Nat
  BY SizesOfPieces DEF PlacesInv
<1>2. /\ Len(Sizes') = n + 1 /\ \A k \in 1 .. n : Sizes'[k] = Sizes[k]
      /\ Sizes'[n + 1] = size
  BY <1>1, CopyAddsSize DEF PlacesInv
<1> HIDE DEF n, size
<1>3. Begins(Sizes, s) /\ n + 1 \in 1 .. Len(s) /\ s[n + 1] = size
  <2>1. /\ Begins(Sizes, s) /\ Len(Sizes') \in 1 .. Len(s)
        /\ s[Len(Sizes')] = Sizes'[Len(Sizes')]
    BY <1>1, <1>2, BeginsShorter
  <2>2. QED BY <1>2, <2>1
<1>4. p[n] = PlaceIn(blocks_, active_block_) BY <1>3 DEF n
<1>5. (n + 1) - 1 = n /\ n + 1 \in 0 .. Len(s) BY <1>1, <1>3
<1>6. Takes(blocks_, p[(n + 1) - 1], s[n + 1], p[n + 1]) /\ p[n + 1] \in Place
  BY <1>3, <1>5 DEF Path
<1>7. QED BY <1>3, <1>4, <1>5, <1>6 DEF n, size

LEMMA CopyKeepsPlaces ==
  ASSUME PlacesInv, CopyPiece, Inv'
  PROVE  PlacesInv'
<1> DEFINE n == Len(pieces)
           size == Len(Contents(Head(call.left)))
           here == PlaceIn(blocks_, active_block_)
           there == PlaceIn(blocks_', active_block_')
<1>1. /\ here \in Place /\ there \in Place
      /\ SameShape(blocks_, blocks_') /\ Takes(blocks_', here, size, there)
  BY CopyTakes DEF PlacesInv
<1>2. n \in Nat /\ Len(Sizes) = n BY SizesOfPieces DEF PlacesInv
<1>3. /\ Len(pieces') = n + 1 /\ Len(Sizes') = n + 1
      /\ \A k \in 1 .. n : Sizes'[k] = Sizes[k]
      /\ Sizes'[n + 1] = size
  BY <1>2, CopyAddsSize DEF PlacesInv
<1> HIDE DEF n, size, here, there
<1>4. \E q : Path(blocks_', Sizes', q) /\ q[Len(pieces')] = there
  <2>1. PICK p : Path(blocks_, Sizes, p) /\ p[n] = here
    BY DEF PlacesInv, n, here
  <2>2. Path(blocks_', Sizes, p) BY <1>1, <1>2, <2>1, PathInMore
  <2> DEFINE now == Sizes
             then == Sizes'
  <2>3. /\ Len(now) = n /\ Len(then) = Len(now) + 1
        /\ \A k \in 1 .. Len(now) : then[k] = now[k]
        /\ Path(blocks_', now, p) /\ Takes(blocks_', p[Len(now)], then[Len(then)], there)
    BY <1>1, <1>2, <1>3, <2>1, <2>2
  <2> HIDE DEF now, then
  <2>4. \E q : Path(blocks_', then, q) /\ q[Len(then)] = there
    BY <1>1, <1>2, <2>3, PathWithPiece
  <2>5. QED BY <1>3, <2>4 DEF then
<1>5. ASSUME NEW s \in past
      PROVE  /\ s \in Seq(Nat)
             /\ \E p : /\ Path(blocks_', s, p)
                       /\ Begins(Sizes', s) => p[Len(pieces')] = there
  <2>1. s \in Seq(Nat) BY DEF PlacesInv
  <2>2. PICK p : /\ Path(blocks_, s, p)
                 /\ Begins(Sizes, s) => p[n] = here
    BY DEF PlacesInv, n, here
  <2>3. Path(blocks_', s, p) BY <1>1, <2>1, <2>2, PathInMore
  <2>4. ASSUME Begins(Sizes', s) PROVE p[n + 1] = there
    <3>1. p[n + 1] \in Place /\ Takes(blocks_, here, size, p[n + 1])
      BY <2>1, <2>2, <2>4, NextOfPath DEF n, here, size
    <3>2. Takes(blocks_', here, size, p[n + 1]) BY <1>1, <3>1, TakesInMore
    <3>3. Len(blocks_') \in Nat BY <1>1 DEF SameShape
    <3>4. QED BY <1>1, <3>1, <3>2, <3>3, TakesOnce
  <2>5. QED BY <1>3, <2>1, <2>3, <2>4
<1>6. past' = past BY DEF CopyPiece
<1>7. QED BY <1>4, <1>5, <1>6 DEF PlacesInv, there

LEMMA ResetKeepsPlaces ==
  ASSUME PlacesInv, Reset, Inv'
  PROVE  PlacesInv'
<1> DEFINE start == [block |-> 1, head |-> 0]
<1>1. /\ SameShape(blocks_, blocks_') /\ PlaceIn(blocks_', active_block_') = start
      /\ Len(pieces') = 0 /\ Len(Sizes') = 0
  BY ResetKeepsShape DEF PlacesInv
<1> DEFINE p0 == [k \in 0 .. 0 |-> start]
<1>2. start \in Place BY DEF Place
<1>3. \A s, p : Path(blocks_, s, p) => p[0] = start BY DEF Path
<1>4. Path(blocks_', Sizes', p0) /\ p0[Len(pieces')] = start
  <2> HIDE DEF start
  <2>1. p0 \in [0 .. 0 -> Place] /\ p0[0] = start BY <1>2
  <2> HIDE DEF p0
  <2>2. QED BY <1>1, <2>1 DEF Path, start
<1> HIDE DEF start, p0
<1>5. ASSUME NEW s \in Seq(Nat), NEW p, Path(blocks_, s, p)
      PROVE  Path(blocks_', s, p) /\ p[Len(pieces')] = start
  BY <1>1, <1>3, <1>5, PathInMore
<1>6. past' = past \cup {Sizes} BY DEF Reset
<1>7. ASSUME NEW s \in past'
      PROVE  /\ s \in Seq(Nat)
             /\ \E p : Path(blocks_', s, p) /\ p[Len(pieces')] = start
  <2>1. CASE s \in past
    <3>1. s \in Seq(Nat) /\ \E p : Path(blocks_, s, p) BY <2>1 DEF PlacesInv
    <3>2. QED BY <1>5, <3>1
  <2>2. CASE s = Sizes
    <3>1. Sizes \in Seq(Nat) BY SizesOfPieces DEF PlacesInv
    <3>2. \E p : Path(blocks_, Sizes, p) BY DEF PlacesInv
    <3>3. QED BY <1>5, <2>2, <3>1, <3>2
  <2>3. QED BY <1>6, <2>1, <2>2
<1>8. \E p : Path(blocks_', Sizes', p) /\ p[Len(pieces')] = PlaceIn(blocks_', active_block_')
  BY <1>1, <1>4
<1>9. QED BY <1>1, <1>7, <1>8 DEF PlacesInv

LEMMA NextPlaces == PlacesInv /\ [Next]_vars => PlacesInv'
<1> SUFFICES ASSUME PlacesInv, [Next]_vars PROVE PlacesInv' OBVIOUS
<1>1. Inv' BY NextInv DEF PlacesInv
<1>2. ASSUME blocks_' = blocks_, active_block_' = active_block_, pieces' = pieces,
             past' = past
      PROVE  PlacesInv'
  <2>1. Sizes' = Sizes BY <1>2 DEF Sizes
  <2>2. QED BY <1>1, <1>2, <2>1 DEF PlacesInv
<1>3. ASSUME NEW c \in Calls, TrackPre(c) PROVE PlacesInv'
  BY <1>2, <1>3 DEF TrackPre, memory
<1>4. CASE CopyPiece BY <1>1, <1>4, CopyKeepsPlaces
<1>5. CASE PushCommand BY <1>2, <1>5 DEF PushCommand, memory
<1>6. CASE Reset BY <1>1, <1>6, ResetKeepsPlaces
<1>7. CASE UNCHANGED vars BY <1>2, <1>7 DEF vars, memory
<1>8. QED BY <1>3, <1>4, <1>5, <1>6, <1>7 DEF Next

\* A step of a recording that began as an earlier one makes no block: the
\* earlier one took a place here, and no block would have it.
LEMMA NoBlockForRepeated ==
  ASSUME PlacesInv, [Next]_vars, NEW s \in past, IsPrefix(Sizes', s)
  PROVE  Len(blocks_') = Len(blocks_)
<1>1. Inv /\ Inv' BY NextInv DEF PlacesInv
<1>2. CASE CopyPiece
  <2> DEFINE size == Len(Contents(Head(call.left)))
             here == PlaceIn(blocks_, active_block_)
             next(p) == p[Len(pieces) + 1]
  <2>1. Len(blocks_') = Len(blocks_) \/ NoneFits(blocks_, active_block_, size)
    BY <1>1, <1>2, CopyTakes
  <2>2. ~NoneFits(blocks_, active_block_, size)
    <3> SUFFICES ASSUME NoneFits(blocks_, active_block_, size) PROVE FALSE OBVIOUS
    <3>1. s \in Seq(Nat) BY DEF PlacesInv
    <3>2. PICK p : /\ Path(blocks_, s, p)
                   /\ Begins(Sizes, s) => p[Len(pieces)] = here
      BY DEF PlacesInv
    <3>3. Begins(Sizes', s)
      <4>1. Sizes' \in Seq(Nat)
        <5>1. pieces' \in Seq(Placed) BY <1>1, PiecesAreASequence DEF Inv
        <5>2. \A k \in 1 .. Len(pieces') : Len(pieces'[k].contents) \in Nat
          BY <5>1, PlacedShape
        <5>3. QED BY <5>1, <5>2 DEF Sizes
      <4>2. QED BY <3>1, <4>1, PrefixBegins
    <3>4. Takes(blocks_, here, size, next(p))
      BY <1>1, <1>2, <3>1, <3>2, <3>3, NextOfPath
    <3> DEFINE k == next(p).block
    <3>5. k \in here.block .. Len(blocks_) /\ FitsAt(blocks_[k], HeadAt(here, k), size)
      BY <3>4 DEF Takes
    <3>6. here.block = active_block_ BY DEF PlaceIn
    <3> HIDE DEF next, k, size
    <3>7. BlocksSound(blocks_, active_block_) BY <1>1 DEF Inv, Sound
    <3>8. Fits(blocks_[k], size) BY <3>5, <3>6, <3>7, HeadsOfPlace
    <3>9. QED BY <3>5, <3>6, <3>8 DEF NoneFits
  <2>3. QED BY <2>1, <2>2
<1>3. CASE Reset BY <1>1, <1>3, ResetKeepsShape
<1>4. ASSUME NEW c \in Calls, TrackPre(c) PROVE Len(blocks_') = Len(blocks_)
  BY <1>4 DEF TrackPre, memory
<1>5. CASE PushCommand BY <1>5 DEF PushCommand, memory
<1>6. CASE UNCHANGED vars BY <1>6 DEF vars, memory
<1>7. QED BY <1>2, <1>3, <1>4, <1>5, <1>6 DEF Next

\* An application that records the same commands again makes no new block
\* (Reset, Alloc): for every sequence of calls and recordings, block size,
\* alignment and address of a block.
THEOREM RerecordingsDoNotGrow == Spec => RerecordingDoesNotGrow
<1>1. Init => PlacesInv BY InitPlaces
<1>2. PlacesInv /\ [Next]_vars => PlacesInv' BY NextPlaces
<1>3. PlacesInv /\ [Next]_vars =>
        [(\E sizes \in past : IsPrefix(Sizes', sizes)) => Len(blocks_') = Len(blocks_)]_vars
  BY NoBlockForRepeated
<1>4. QED BY <1>1, <1>2, <1>3, PTL DEF Spec, RerecordingDoesNotGrow
=============================================================================
