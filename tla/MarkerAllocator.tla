--------------------------- MODULE MarkerAllocator ---------------------------
(***************************************************************************)
(* The marker sub-allocator of a Device (src/device.cc, src/device.h).     *)
(*                                                                         *)
(* A Marker is one 32-bit word (MarkerType::kUint32) or two adjacent words *)
(* (kUint64) of a host-visible buffer that the GPU writes with             *)
(* vkCmdWriteBufferMarkerAMD.  Device::AllocateMarker first looks in the   *)
(* list of recycled markers of the wanted type, under that list's mutex,   *)
(* and otherwise, under marker_buffers_mutex_, bumps current_marker_index_ *)
(* and acquires a new marker buffer when the current one is full.  The two *)
(* critical sections are separate steps here.  Addresses and offsets are   *)
(* counted in 32-bit words; buffers are numbered from 1.                   *)
(*                                                                         *)
(* An owner is one Marker object of the program: a command buffer's top or *)
(* bottom marker, a semaphore's value marker, and so on.                   *)
(***************************************************************************)
EXTENDS Integers, Sequences

CONSTANTS
  Owners,      \* the Marker objects that take markers from this device
  EventCount,  \* kBufferMarkerEventCount, the words of a marker buffer
  HeapSize,    \* kBuffermarkerHeapSize, in words
  Failures     \* the driver calls of AcquireMarkerBuffer that may fail

ASSUME EventCountAssumption ==
  EventCount \in Nat \ {0} /\ EventCount % 2 = 0

ASSUME HeapSizeAssumption == HeapSize \in Nat

ASSUME FailuresAssumption == Failures \subseteq {"create", "bind", "map"}

VARIABLES
  pc,                  \* the step of AllocateMarker each owner is at
  want,                \* the marker->type each owner asked for
  marker,              \* the Marker each owner holds (pc "held")
  recycled_markers,    \* recycled_markers_u32_ and recycled_markers_u64_
  marker_buffers,      \* marker_buffers_: the heap offset of each buffer
  current_marker_index,
  current_heap_offset,
  heap                 \* marker_buffers_heap_: "null", "live" or "freed"

bufferVars == <<marker_buffers, current_marker_index, current_heap_offset, heap>>
vars == <<pc, want, marker, recycled_markers, bufferVars>>

MarkerType == {"kUint32", "kUint64"}

Words(type) == IF type = "kUint32" THEN 1 ELSE 2

Marker == [type : MarkerType, buffer : Nat, offset : Nat]

\* A default-constructed Marker: VK_NULL_HANDLE and offset 0.
NullMarker == [type |-> "kUint32", buffer |-> 0, offset |-> 0]

Init ==
  /\ pc = [o \in Owners |-> "none"]
  /\ want = [o \in Owners |-> "kUint32"]
  /\ marker = [o \in Owners |-> NullMarker]
  /\ recycled_markers = [t \in MarkerType |-> <<>>]
  /\ marker_buffers = <<>>
  /\ current_marker_index = 0
  /\ current_heap_offset = 0
  /\ heap = "null"

-----------------------------------------------------------------------------
(* AllocateMarker, first critical section: the recycled list of the type.  *)

TakeRecycled(o, type) ==
  LET list == recycled_markers[type] IN
  /\ pc[o] = "none"
  /\ list # <<>>
  /\ pc' = [pc EXCEPT ![o] = "held"]
  /\ want' = [want EXCEPT ![o] = type]
  /\ marker' = [marker EXCEPT ![o] = list[Len(list)]]
  /\ recycled_markers' =
       [recycled_markers EXCEPT ![type] = SubSeq(list, 1, Len(list) - 1)]
  /\ UNCHANGED bufferVars

NothingRecycled(o, type) ==
  /\ pc[o] = "none"
  /\ recycled_markers[type] = <<>>
  /\ pc' = [pc EXCEPT ![o] = "bump"]
  /\ want' = [want EXCEPT ![o] = type]
  /\ UNCHANGED <<marker, recycled_markers, bufferVars>>

-----------------------------------------------------------------------------
(* AllocateMarker, second critical section: marker_buffers_mutex_.         *)

\* Mutant: the room check forgets the second word of a 64-bit marker.
BufferIndexIgnoringSecondWord(type) == current_marker_index \div EventCount

\* marker_buffer_index, numbered from 0 as in the code.
BufferIndex(type) == (current_marker_index + (Words(type) - 1)) \div EventCount

\* Mutant: the index advances by one word whatever the type.
CarveAdvancingOneWord(o, index) ==
  /\ marker' = [marker EXCEPT ![o] =
                  [type   |-> want[o],
                   buffer |-> Len(marker_buffers'),
                   offset |-> index % EventCount]]
  /\ current_marker_index' = index + 1
  /\ pc' = [pc EXCEPT ![o] = "held"]

\* The marker carved out of marker_buffers_.back() at position index.
Carve(o, index) ==
  /\ marker' = [marker EXCEPT ![o] =
                  [type   |-> want[o],
                   buffer |-> Len(marker_buffers'),
                   offset |-> index % EventCount]]
  /\ current_marker_index' = index + Words(want[o])
  /\ pc' = [pc EXCEPT ![o] = "held"]

\* The current buffer has room: no new buffer is acquired.
CarveFromCurrent(o) ==
  /\ pc[o] = "bump"
  /\ BufferIndex(want[o]) < Len(marker_buffers)
  /\ UNCHANGED <<marker_buffers, current_heap_offset, heap>>
  /\ Carve(o, current_marker_index)
  /\ UNCHANGED <<want, recycled_markers>>

OutOfSpace(o) ==
  /\ pc[o] = "bump"
  /\ BufferIndex(want[o]) >= Len(marker_buffers)

\* "Make sure current_marker_index_ is even": (x + 1) & -2.
RoundUpToEven(x) == ((x + 1) \div 2) * 2

\* Mutant: the end of the new buffer is not compared with the heap's end.
HeapOffsetExhausted == current_heap_offset >= HeapSize

HeapExhausted == current_heap_offset + EventCount >= HeapSize

\* AcquireMarkerBuffer succeeds: the first buffer also allocates and maps
\* the heap.
CarveFromNewBuffer(o) ==
  /\ OutOfSpace(o)
  /\ ~HeapExhausted
  /\ heap' = IF heap = "null" THEN "live" ELSE heap
  /\ marker_buffers' = Append(marker_buffers, current_heap_offset)
  /\ current_heap_offset' = current_heap_offset + EventCount
  /\ Carve(o, IF want[o] = "kUint64"
                THEN RoundUpToEven(current_marker_index)
                ELSE current_marker_index)
  /\ UNCHANGED <<want, recycled_markers>>

\* Mutant: a failure takes back an offset that was never advanced.
AcquireRollsBackTwice(o) ==
  /\ OutOfSpace(o)
  /\ HeapExhausted \/ "create" \in Failures
  /\ current_heap_offset' = current_heap_offset - EventCount
  /\ pc' = [pc EXCEPT ![o] = "none"]
  /\ UNCHANGED <<want, marker, recycled_markers, marker_buffers,
                 current_marker_index, heap>>

\* AcquireMarkerBuffer fails, after it has advanced current_heap_offset_:
\* AllocateMarker returns false and the owner is not tracked.  A failed
\* vkBindBufferMemory or vkMapMemory frees the heap but keeps its handle.
AcquireFails(o) ==
  /\ OutOfSpace(o)
  /\ \/ (HeapExhausted \/ "create" \in Failures) /\ UNCHANGED heap
     \/ ~HeapExhausted /\ "bind" \in Failures /\ heap' = "freed"
     \/ ~HeapExhausted /\ "map" \in Failures /\ marker_buffers = <<>>
        /\ heap' = "freed"
  /\ current_heap_offset' = IF current_heap_offset < HeapSize  \* bound
                              THEN current_heap_offset + EventCount
                              ELSE current_heap_offset
  /\ pc' = [pc EXCEPT ![o] = "none"]
  /\ UNCHANGED <<want, marker, recycled_markers, marker_buffers,
                 current_marker_index>>

\* FreeMarker pushes the marker on the list of the type it carries.
FreeMarker(o) ==
  /\ pc[o] = "held"
  /\ pc' = [pc EXCEPT ![o] = "none"]
  /\ marker' = [marker EXCEPT ![o] = NullMarker]
  /\ recycled_markers' =
       [recycled_markers EXCEPT ![marker[o].type] = Append(@, marker[o])]
  /\ UNCHANGED <<want, bufferVars>>

Next ==
  \E o \in Owners :
    \/ \E type \in MarkerType : TakeRecycled(o, type)
    \/ \E type \in MarkerType : NothingRecycled(o, type)
    \/ CarveFromCurrent(o)
    \/ CarveFromNewBuffer(o)
    \/ AcquireFails(o)
    \/ FreeMarker(o)

Spec == Init /\ [][Next]_vars

-----------------------------------------------------------------------------
\* Type invariant of the allocator's state.
TypeOK ==
  /\ pc \in [Owners -> {"none", "bump", "held"}]
  /\ want \in [Owners -> MarkerType]
  /\ marker \in [Owners -> Marker]
  /\ recycled_markers \in [MarkerType -> Seq(Marker)]
  /\ marker_buffers \in Seq(Nat)
  /\ current_marker_index \in Nat
  /\ current_heap_offset \in Nat
  /\ heap \in {"null", "live", "freed"}

Held == {o \in Owners : pc[o] = "held"}

\* The words that an owner reads and writes through its marker: as many as
\* the type it asked for, whatever the marker it was given.
Cells(o) ==
  LET first == marker[o].offset
  IN {<<marker[o].buffer, w>> : w \in first .. first + Words(want[o]) - 1}

\* Two owners never share a word of marker memory, through any interleaving
\* of AllocateMarker's two critical sections with FreeMarker: otherwise the
\* progress of one command buffer would overwrite that of another
\* (Device::AllocateMarker, FreeMarker).
LiveMarkersDisjoint ==
  \A o, q \in Held : o # q => Cells(o) \cap Cells(q) = {}

\* A marker lies inside a buffer that exists, its last word included: a
\* 64-bit marker never straddles the end of its buffer
\* (Device::AllocateMarker's index arithmetic).
LiveMarkersInBounds ==
  \A o \in Held :
    /\ marker[o].buffer \in 1 .. Len(marker_buffers)
    /\ marker[o].offset + Words(want[o]) <= EventCount

\* Each marker buffer has its own range of the heap, inside the heap, also
\* after failed attempts that advanced current_heap_offset_
\* (Device::AcquireMarkerBuffer, CreateHostBuffer).
BuffersDisjointInHeap ==
  \A i, j \in 1 .. Len(marker_buffers) :
    /\ marker_buffers[i] + EventCount < HeapSize
    /\ i < j => marker_buffers[i] + EventCount <= marker_buffers[j]
=============================================================================
