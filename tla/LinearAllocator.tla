--------------------------- MODULE LinearAllocator ---------------------------
(***************************************************************************)
(* LinearAllocator (src/linear_allocator.h): memory in blocks, given out   *)
(* from the front of each, all taken back at once by Reset.  The operators *)
(* are on blocks and sequences of blocks; offsets and sizes are counted in *)
(* cells.                                                                  *)
(***************************************************************************)
EXTENDS Integers, Sequences

CONSTANTS kDefaultBlockSize, kAlignment,
          Bases   \* addresses, modulo kAlignment, that operator new returns

ASSUME AllocatorAssumption ==
  /\ kDefaultBlockSize \in Nat
  /\ kAlignment \in Nat \ {0}
  /\ Bases \subseteq 0 .. kAlignment - 1

\* What memory that operator new returns holds.
Undefined == <<"undefined">>

\* A Block: head is head_ - data_, base is data_ modulo kAlignment.
NewBlock(blocksize, base) ==
  [size |-> blocksize, base |-> base, head |-> 0,
   data |-> [o \in 0 .. blocksize - 1 |-> Undefined]]

\* Mutant: the head is not rounded up far enough to skip what is in use.
RoundedDown(block) == block.head - ((block.base + block.head) % kAlignment)

\* Block::Alloc: the head, rounded up to the alignment.
Rounded(block) ==
  block.head + ((kAlignment - ((block.base + block.head) % kAlignment)) % kAlignment)

\* Mutant: room is looked for at the head, before it is rounded up.
FitsUnrounded(block, size) == block.head + size <= block.size

Fits(block, size) == Rounded(block) + size <= block.size

\* LinearAllocator::Alloc takes the first block that has room at or after the
\* active one; those it skips are not tried again before Reset.
IsTarget(blocks, active, size, j) ==
  /\ j \in active .. Len(blocks)
  /\ Fits(blocks[j], size)
  /\ \A k \in active .. j - 1 : ~Fits(blocks[k], size)

NoneFits(blocks, active, size) ==
  \A k \in active .. Len(blocks) : ~Fits(blocks[k], size)

\* The size of a block that is made for an allocation.
NewBlockSize(size) ==
  IF size + kAlignment < kDefaultBlockSize THEN kDefaultBlockSize
  ELSE size + kAlignment

\* Mutant: the head moves on by what was asked for, not from the rounded head.
FilledShort(block, contents) ==
  LET at == Rounded(block) IN
  [block EXCEPT
     !.head = @ + Len(contents),
     !.data = [o \in DOMAIN block.data |->
                 IF o \in at .. at + Len(contents) - 1
                 THEN contents[o - at + 1] ELSE block.data[o]]]

\* The block after an allocation that is filled at once.
Filled(block, contents) ==
  LET at == Rounded(block) IN
  [block EXCEPT
     !.head = at + Len(contents),
     !.data = [o \in DOMAIN block.data |->
                 IF o \in at .. at + Len(contents) - 1
                 THEN contents[o - at + 1] ELSE block.data[o]]]

\* Mutant: only the active block is emptied.
ResetFirst(blocks) == [blocks EXCEPT ![1].head = 0]

\* Reset empties every block and leaves its contents.
ResetBlocks(blocks) == [j \in 1 .. Len(blocks) |-> [blocks[j] EXCEPT !.head = 0]]
=============================================================================
