--------------------------- MODULE CommandRecorder ---------------------------
(***************************************************************************)
(* The parameters of recorded commands (generated command_tracker,         *)
(* command_recorder and command_printer).                                  *)
(*                                                                         *)
(* TrackPreX copies what the application passed to vkCmdX into memory of   *)
(* the recorder, because a dump prints it long after the call.  The        *)
(* generated functions have five shapes, each a sequence of pieces: the    *)
(* arguments' structure, and what pointers in it lead to.  Copying a piece *)
(* allocates it, and stores its address in the piece that points to it; it *)
(* is a step here.  Between two recordings the blocks are emptied, not     *)
(* cleared, so that a read beyond a piece finds older recordings.          *)
(***************************************************************************)
EXTENDS LinearAllocator, SequencesExt

CONSTANTS
  Calls,        \* the vkCmd calls of the application
  MaxPieces,    \* bound: pieces copied in one recording
  MaxResets     \* bound: recordings of the command buffer

VARIABLES
  blocks_, active_block_,
  commands_,    \* the tracker's commands, with what was passed (history)
  call,         \* the vkCmd call under way and the pieces to be copied
  pieces,       \* history: what was allocated since Reset
  past,         \* history: the sizes of earlier recordings
  resets

memory == <<blocks_, active_block_>>
vars == <<memory, commands_, call, pieces, past, resets>>

\* A cell is a value, an address in a block, or a pointer of the application.
Value(n) == <<"value", n>>
Pointer(block, at) == <<"pointer", block, at>>
Application == <<"application">>

Nul == Value(0)

Cell == {Application, Undefined} \cup ({"value"} \X Nat) \cup ({"pointer"} \X Nat \X Nat)

\* An array that a structure points to is not empty, and a string ends with the
\* first NUL.
ASSUME CallsAssumption ==
  \A c \in Calls :
    /\ c \in [shape : {"scalars", "array", "nested", "label", "untyped"}, data : Seq(Cell)]
    /\ c.shape = "nested" => c.data # <<>>
    /\ c.shape = "label" => \A i \in DOMAIN c.data : c.data[i] # Nul

\* Read beyond the end of a block.
Outside == <<"outside">>

\* A piece: what is passed, how much of it is copied, and the piece of the
\* same call, and the cell in it, that points to it (none for the first).
Piece(passed, copied, parent, slot) ==
  [passed |-> passed, copied |-> copied, parent |-> parent, slot |-> slot]

Arguments(cells) == Piece(cells, Len(cells), 0, 0)

-----------------------------------------------------------------------------
(* RecordCmdX, by the shape of X.  A call passes a shape and its data.     *)

\* vkCmdDraw, vkCmdSetDeviceMask: no pointer.
RecordScalars(data) == <<Arguments(data)>>

\* Mutant: one element is copied, as CopyArray is called for a structure.
RecordArrayFirst(data) ==
  <<Arguments(<<Value(Len(data)), Application>>), Piece(data, 1, 1, 2)>>

\* vkCmdCopyBuffer, vkCmdExecuteCommands: a count and an array of values.
RecordArray(data) ==
  <<Arguments(<<Value(Len(data)), Application>>), Piece(data, Len(data), 1, 2)>>

\* vkCmdBeginRenderPass, vkCmdCopyBuffer2KHR: a structure with a count and an
\* array, of which CopyArray copies one element.
RecordNested(data) ==
  <<Arguments(<<Application>>),
    Piece(<<Value(Len(data)), Application>>, 2, 1, 1),
    Piece(data, 1, 2, 2)>>

\* vkCmdBeginDebugUtilsLabelEXT, vkCmdDebugMarkerBeginEXT: a structure with a
\* string, of which CopyArray copies strlen characters.
RecordLabel(data) ==
  <<Arguments(<<Application>>), Piece(<<Application>>, 1, 1, 1),
    Piece(Append(data, Nul), Len(data), 2, 1)>>

\* vkCmdPushConstants, vkCmdUpdateBuffer: untyped data is not copied.
RecordUntyped(data) == <<Arguments(<<Value(Len(data)), Application>>)>>

Record(c) ==
  CASE c.shape = "scalars" -> RecordScalars(c.data)
    [] c.shape = "array"   -> RecordArray(c.data)
    [] c.shape = "nested"  -> RecordNested(c.data)
    [] c.shape = "label"   -> RecordLabel(c.data)
    [] c.shape = "untyped" -> RecordUntyped(c.data)

-----------------------------------------------------------------------------

\* No call is under way; first is the number of pieces before it.
Idle == [left |-> <<>>, passed |-> [shape |-> "scalars", data |-> <<>>], first |-> 0,
         busy |-> FALSE]

Init ==
  /\ \E base \in Bases : blocks_ = <<NewBlock(kDefaultBlockSize, base)>>
  /\ active_block_ = 1
  /\ commands_ = <<>>
  /\ call = Idle
  /\ pieces = <<>>
  /\ past = {}
  /\ resets = 0

\* The application calls vkCmdX.
TrackPre(c) ==
  /\ ~call.busy
  /\ Len(pieces) + Len(Record(c)) <= MaxPieces  \* bound
  /\ call' = [left |-> Record(c), passed |-> c, first |-> Len(pieces), busy |-> TRUE]
  /\ UNCHANGED <<memory, commands_, pieces, past, resets>>

Contents(piece) == SubSeq(piece.passed, 1, piece.copied)

\* Alloc<T> or CopyArray: the piece is put in block j of blks, and its address
\* in its parent, if it has one.
CopyInto(blks, j) ==
  LET piece == Head(call.left)
      at == Rounded(blks[j])
      filled == [blks EXCEPT ![j] = Filled(@, Contents(piece))]
      new == [block |-> j, at |-> at, contents |-> Contents(piece)]
      parent == call.first + piece.parent
  IN
  /\ active_block_' = j
  /\ IF piece.parent = 0
       THEN blocks_' = filled /\ pieces' = Append(pieces, new)
       ELSE LET owner == pieces[parent] IN
            /\ blocks_' = [filled EXCEPT
                             ![owner.block].data[owner.at + piece.slot - 1] =
                               Pointer(j, at)]
            /\ pieces' = Append([pieces EXCEPT ![parent].contents[piece.slot] =
                                   Pointer(j, at)], new)

CopyPiece ==
  LET size == Len(Contents(Head(call.left))) IN
  /\ call.left # <<>>
  /\ \/ \E j \in 1 .. Len(blocks_) :
          IsTarget(blocks_, active_block_, size, j) /\ CopyInto(blocks_, j)
     \/ /\ NoneFits(blocks_, active_block_, size)
        /\ \E base \in Bases :
             CopyInto(Append(blocks_, NewBlock(NewBlockSize(size), base)),
                      Len(blocks_) + 1)
  /\ call' = [call EXCEPT !.left = Tail(@)]
  /\ UNCHANGED <<commands_, past, resets>>

\* The recorded command is appended: commands_.push_back(cmd).
PushCommand ==
  /\ call.busy /\ call.left = <<>>
  /\ commands_' = Append(commands_, [id |-> Len(commands_) + 1, passed |-> call.passed,
                                     parameters |-> call.first + 1])
  /\ call' = Idle
  /\ UNCHANGED <<memory, pieces, past, resets>>

Sizes == [k \in 1 .. Len(pieces) |-> Len(pieces[k].contents)]

FirstBlock == 1

\* CommandTracker::Reset, from vkBeginCommandBuffer or vkResetCommandBuffer.
Reset ==
  /\ ~call.busy
  /\ resets < MaxResets  \* bound
  /\ blocks_' = ResetBlocks(blocks_)
  /\ active_block_' = FirstBlock
  /\ commands_' = <<>>
  /\ pieces' = <<>>
  /\ past' = past \cup {Sizes}
  /\ resets' = resets + 1
  /\ UNCHANGED call

Next ==
  \/ \E c \in Calls : TrackPre(c)
  \/ CopyPiece \/ PushCommand \/ Reset

Spec == Init /\ [][Next]_vars

-----------------------------------------------------------------------------
(* PrintCommandParameters: the dump of a command, from the memory.         *)

\* Cell i of what starts at an address.
Read(address, i) ==
  LET data == blocks_[address[2]].data
  IN IF address[3] + i - 1 \in DOMAIN data THEN data[address[3] + i - 1] ELSE Outside

Count(cell) == cell[2]

ReadArray(address, n) == [i \in 1 .. n |-> Read(address, i)]

\* A string is printed up to the first NUL, wherever that is.
ReadString(address) ==
  LET size == blocks_[address[2]].size - address[3]
      ends == {i \in 0 .. size : i = size \/ Read(address, i + 1) = Nul}
  IN ReadArray(address, CHOOSE n \in ends : \A m \in ends : n <= m)

Printed(command) ==
  LET args == Pointer(pieces[command.parameters].block, pieces[command.parameters].at)
      first == Read(args, 1)
  IN CASE command.passed.shape = "scalars" -> ReadArray(args, Len(command.passed.data))
       [] command.passed.shape = "array"   -> ReadArray(Read(args, 2), Count(first))
       [] command.passed.shape = "nested"  ->
            ReadArray(Read(first, 2), Count(Read(first, 1)))
       [] command.passed.shape = "label"   -> ReadString(Read(first, 1))
       [] command.passed.shape = "untyped" -> <<Read(args, 2)>>

-----------------------------------------------------------------------------
(* What is checked.                                                        *)

Cells(piece) == piece.at .. piece.at + Len(piece.contents) - 1

\* Type invariant of the allocator: heads lie in their blocks, the active
\* block exists, what was allocated lies before the head of its block, and
\* blocks after the active one are empty.
TypeOK ==
  /\ Len(blocks_) >= 1 /\ active_block_ \in 1 .. Len(blocks_)
  /\ \A j \in 1 .. Len(blocks_) :
       /\ blocks_[j].size \in Nat /\ blocks_[j].head \in 0 .. blocks_[j].size
       /\ DOMAIN blocks_[j].data = 0 .. blocks_[j].size - 1
       /\ j > active_block_ => blocks_[j].head = 0
  /\ \A k \in 1 .. Len(pieces) :
       /\ pieces[k].block \in 1 .. active_block_
       /\ pieces[k].at >= 0
       /\ pieces[k].at + Len(pieces[k].contents) <= blocks_[pieces[k].block].head

\* "The block based approach means that re-allocation will not occur"
\* (linear_allocator.h): two pieces of a recording never share memory,
\* whatever was recorded and reset before.
PiecesDisjoint ==
  \A k, l \in 1 .. Len(pieces) :
    k # l /\ pieces[k].block = pieces[l].block =>
      Cells(pieces[k]) \cap Cells(pieces[l]) = {}

\* Every piece is still in its memory as it was copied: nothing recorded
\* later has written over it (CommandRecorder, LinearAllocator).
PiecesIntact ==
  \A k \in 1 .. Len(pieces) : \A i \in 1 .. Len(pieces[k].contents) :
    blocks_[pieces[k].block].data[pieces[k].at + i - 1] = pieces[k].contents[i]

\* What was recorded stays apart and unchanged until the next Reset.
PiecesKept == PiecesDisjoint /\ PiecesIntact

\* A dump prints what the application passed, however long ago, of scalars and
\* arrays; of an array inside a structure the first element; of a label its
\* characters, after which it runs on.  Untyped data is read from the
\* application's memory.
ParametersArePassed ==
  \A command \in ToSet(commands_) :
    LET printed == Printed(command)
        passed == command.passed.data
    IN CASE command.passed.shape \in {"scalars", "array"} -> printed = passed
         [] command.passed.shape = "nested" ->
              Len(printed) = Len(passed) /\ printed[1] = passed[1]
         [] command.passed.shape = "label" -> IsPrefix(passed, printed)
         [] command.passed.shape = "untyped" -> TRUE

\* An application that records the same commands again makes no new block:
\* as long as the sizes are those of an earlier recording, the recorder
\* finds room where it did (Reset, Alloc).
RerecordingDoesNotGrow ==
  [][(\E sizes \in past : IsPrefix(Sizes', sizes)) => Len(blocks_') = Len(blocks_)]_vars
=============================================================================
