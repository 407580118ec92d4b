------------------------ MODULE MarkerAllocatorProofs ------------------------
(***************************************************************************)
(* For every set of owners, every even buffer size and every heap size, no *)
(* two live markers share a word and every live marker lies in a buffer.   *)
(***************************************************************************)
EXTENDS MarkerAllocator, SequenceTheorems, TLAPS

\* The words of the last marker buffer that have been handed out.
Used == current_marker_index - (Len(marker_buffers) - 1) * EventCount

\* current_marker_index_ points into the last buffer, or at its end.
IndexInLastBuffer ==
  IF marker_buffers = <<>> THEN current_marker_index = 0
                           ELSE Used \in 0 .. EventCount

\* The marker has been carved out of a buffer, below the current index.
Carved(m) ==
  /\ m.buffer \in 1 .. Len(marker_buffers)
  /\ m.offset + Words(m.type) <= EventCount
  /\ m.buffer = Len(marker_buffers) => m.offset + Words(m.type) <= Used

\* The words of two markers do not overlap.
Apart(m, n) ==
  \/ m.buffer # n.buffer
  \/ m.offset + Words(m.type) <= n.offset
  \/ n.offset + Words(n.type) <= m.offset

HeldCarved ==
  \A o \in Owners : pc[o] = "held" => marker[o].type = want[o] /\ Carved(marker[o])

RecycledCarved ==
  \A t \in MarkerType : \A i \in 1 .. Len(recycled_markers[t]) :
    recycled_markers[t][i].type = t /\ Carved(recycled_markers[t][i])

HeldApart ==
  \A o, q \in Owners :
    pc[o] = "held" /\ pc[q] = "held" /\ o # q => Apart(marker[o], marker[q])

HeldApartFromRecycled ==
  \A o \in Owners, t \in MarkerType : pc[o] = "held" =>
    \A i \in 1 .. Len(recycled_markers[t]) :
      Apart(marker[o], recycled_markers[t][i])

RecycledApart ==
  \A t, u \in MarkerType :
    \A i \in 1 .. Len(recycled_markers[t]), j \in 1 .. Len(recycled_markers[u]) :
      t # u \/ i # j => Apart(recycled_markers[t][i], recycled_markers[u][j])

\* The inductive invariant.
IInv ==
  /\ TypeOK
  /\ IndexInLastBuffer
  /\ HeldCarved
  /\ RecycledCarved
  /\ HeldApart
  /\ HeldApartFromRecycled
  /\ RecycledApart

-----------------------------------------------------------------------------
(* Arithmetic of the index.                                                *)

\* A quotient is below n exactly when its dividend is below n * EventCount.
LEMMA QuotientBelow ==
  ASSUME NEW x \in Nat, NEW n \in Nat
  PROVE  (x \div EventCount) < n <=> x < n * EventCount
  BY EventCountAssumption, SMT

\* The offset of a word of the buffer that starts at n * EventCount.
LEMMA OffsetInBuffer ==
  ASSUME NEW n \in Nat, NEW u \in 0 .. EventCount - 1
  PROVE  (n * EventCount + u) % EventCount = u
<1> DEFINE x == n * EventCount + u
           q == x \div EventCount
<1>1. n * EventCount \in Nat /\ (n + 1) * EventCount = n * EventCount + EventCount
  BY EventCountAssumption, SMT
<1>2. x \in Nat /\ n * EventCount <= x /\ x < (n + 1) * EventCount
  BY <1>1, EventCountAssumption, SMT
<1>3. q \in Nat /\ ~(q < n) /\ q < n + 1
  BY <1>2, QuotientBelow, EventCountAssumption, SMT
<1>4. q = n
  BY <1>3, SMT
<1>5. x = q * EventCount + (x % EventCount)
  BY <1>2, EventCountAssumption, SMT
<1>6. x % EventCount \in Int
  BY <1>2, EventCountAssumption, SMT
<1> QED
  BY <1>1, <1>4, <1>5, <1>6, SMT

\* Rounding up the end of a buffer, or the word before it, gives that end.
LEMMA RoundUpToBufferEnd ==
  ASSUME NEW n \in Nat, NEW x \in Nat,
         x = n * EventCount \/ x + 1 = n * EventCount
  PROVE  RoundUpToEven(x) = n * EventCount
<1>1. PICK k \in Nat : EventCount = 2 * k
  <2>1. EventCount = 2 * (EventCount \div 2) /\ EventCount \div 2 \in Nat
    BY EventCountAssumption, SMT
  <2> QED
    BY <2>1
<1>2. n * k \in Nat /\ n * EventCount = 2 * (n * k)
  BY <1>1, SMT
<1>3. (x + 1) \div 2 = n * k
  BY <1>2, SMT
<1> QED
  BY <1>2, <1>3, SMT DEF RoundUpToEven

-----------------------------------------------------------------------------
(* Where AllocateMarker carves.                                            *)

\* When the current buffer has room, the marker starts at its first unused
\* word and ends inside it.
LEMMA RoomInCurrent ==
  ASSUME TypeOK, IndexInLastBuffer, NEW type \in MarkerType,
         BufferIndex(type) < Len(marker_buffers)
  PROVE  /\ marker_buffers # <<>>
         /\ Used \in Nat
         /\ Used + Words(type) <= EventCount
         /\ current_marker_index % EventCount = Used
<1> DEFINE n == Len(marker_buffers)
<1>1. n \in Nat /\ current_marker_index \in Nat /\ Words(type) \in {1, 2}
  BY DEF TypeOK, Words
<1>2. current_marker_index + (Words(type) - 1) < n * EventCount
  BY <1>1, QuotientBelow DEF BufferIndex
<1>3. n # 0 /\ marker_buffers # <<>>
  <2>1. n * EventCount > 0 /\ n # 0
    BY <1>1, <1>2, EventCountAssumption, SMT
  <2> QED
    BY <2>1
<1>4. n * EventCount = (n - 1) * EventCount + EventCount /\ (n - 1) * EventCount \in Nat
  BY <1>1, <1>3, EventCountAssumption, SMT
<1>5. Used \in 0 .. EventCount
  BY <1>3 DEF IndexInLastBuffer
<1>6. Used + Words(type) <= EventCount
  BY <1>1, <1>2, <1>4, EventCountAssumption, SMT DEF Used
<1>7. Used \in 0 .. EventCount - 1
  BY <1>1, <1>5, <1>6, EventCountAssumption, SMT
<1>8. current_marker_index = (n - 1) * EventCount + Used
  BY <1>1, <1>4 DEF Used
<1>9. (n - 1) \in Nat
  BY <1>1, <1>3
<1>10. current_marker_index % EventCount = Used
  BY <1>7, <1>8, <1>9, OffsetInBuffer
<1> QED
  BY <1>3, <1>6, <1>7, <1>10

\* When it has none, rounding leaves the index at the end of the current
\* buffer, which is where the new one begins.
LEMMA NewBufferAtEnd ==
  ASSUME TypeOK, IndexInLastBuffer, NEW type \in MarkerType,
         BufferIndex(type) >= Len(marker_buffers)
  PROVE  (IF type = "kUint64" THEN RoundUpToEven(current_marker_index)
                              ELSE current_marker_index)
           = Len(marker_buffers) * EventCount
<1> DEFINE n == Len(marker_buffers)
           x == current_marker_index
<1>1. n \in Nat /\ x \in Nat /\ Words(type) \in {1, 2}
  BY DEF TypeOK, Words
<1>2. ~(x + (Words(type) - 1) < n * EventCount)
  <2>1. BufferIndex(type) \in Int
    BY <1>1, EventCountAssumption, SMT DEF BufferIndex
  <2> QED
    BY <2>1, <1>1, QuotientBelow DEF BufferIndex
<1>3. n * EventCount \in Nat
  BY <1>1, EventCountAssumption, SMT
<1>4. x <= n * EventCount
  <2>1. CASE marker_buffers = <<>>
    BY <2>1, <1>3 DEF IndexInLastBuffer
  <2>2. CASE marker_buffers # <<>>
    <3>1. Used \in 0 .. EventCount
      BY <2>2 DEF IndexInLastBuffer
    <3>2. n * EventCount = (n - 1) * EventCount + EventCount
          /\ (n - 1) * EventCount \in Int
      BY <1>1, EventCountAssumption, SMT
    <3> QED
      BY <3>1, <3>2, <1>1, <1>3, EventCountAssumption, SMT DEF Used
  <2> QED
    BY <2>1, <2>2
<1>5. CASE type = "kUint32"
  BY <1>1, <1>2, <1>3, <1>4, <1>5, SMT DEF Words
<1>6. CASE type = "kUint64"
  <2>1. x = n * EventCount \/ x + 1 = n * EventCount
    BY <1>1, <1>2, <1>3, <1>4, <1>6, SMT DEF Words
  <2> QED
    BY <2>1, <1>1, <1>6, RoundUpToBufferEnd
<1> QED
  BY <1>5, <1>6 DEF MarkerType

-----------------------------------------------------------------------------
(* The inductive steps.                                                    *)

LEMMA InitIInv == Init => IInv
  BY DEF Init, IInv, TypeOK, IndexInLastBuffer, HeldCarved, RecycledCarved,
         HeldApart, HeldApartFromRecycled, RecycledApart, MarkerType, Marker,
         NullMarker

\* What is left of a sequence when its last element is taken.
LEMMA PopLast ==
  ASSUME NEW S, NEW s \in Seq(S), s # <<>>
  PROVE  /\ Len(s) \in Nat \ {0}
         /\ s[Len(s)] \in S
         /\ SubSeq(s, 1, Len(s) - 1) \in Seq(S)
         /\ Len(SubSeq(s, 1, Len(s) - 1)) = Len(s) - 1
         /\ \A i \in 1 .. Len(s) - 1 : SubSeq(s, 1, Len(s) - 1)[i] = s[i]
<1>1. Len(s) \in Nat \ {0} /\ \A i \in 1 .. Len(s) : s[i] \in S
  BY EmptySeq, ElementOfSeq
<1> DEFINE n == Len(s) - 1
<1>2. n \in Int /\ 1 \in Int /\ \A i \in 1 .. n : s[i] \in S
  BY <1>1
<1>3. /\ SubSeq(s, 1, n) \in Seq(S)
      /\ Len(SubSeq(s, 1, n)) = IF 1 <= n THEN n - 1 + 1 ELSE 0
      /\ \A i \in 1 .. n - 1 + 1 : SubSeq(s, 1, n)[i] = s[1 + i - 1]
  <2> HIDE DEF n
  <2> QED
    BY <1>2, SubSeqProperties
<1>4. n \in Nat /\ n - 1 + 1 = n /\ \A i \in 1 .. n : 1 + i - 1 = i
  BY <1>1
<1>5. Len(SubSeq(s, 1, n)) = n
  <2> HIDE DEF n
  <2> QED
    BY <1>3, <1>4
<1>6. \A i \in 1 .. n : SubSeq(s, 1, n)[i] = s[i]
  <2> HIDE DEF n
  <2> QED
    BY <1>3, <1>4
<1> QED
  BY <1>1, <1>3, <1>5, <1>6

LEMMA TakeRecycledStep ==
  ASSUME IInv, NEW o \in Owners, NEW type \in MarkerType, TakeRecycled(o, type)
  PROVE  IInv'
<1> USE DEF IInv
<1> DEFINE list == recycled_markers[type]
<1>1. /\ list \in Seq(Marker) /\ Len(list) \in Nat \ {0}
      /\ list[Len(list)] \in Marker
      /\ list' = SubSeq(list, 1, Len(list) - 1)
      /\ list' \in Seq(Marker)
      /\ Len(list') = Len(list) - 1
      /\ \A i \in 1 .. Len(list') : list'[i] = list[i]
  <2>1. list \in Seq(Marker) /\ list # <<>>
    BY DEF TakeRecycled, TypeOK
  <2>2. list' = SubSeq(list, 1, Len(list) - 1)
    BY DEF TakeRecycled, TypeOK
  <2> QED
    BY <2>1, <2>2, PopLast
<1>2. ASSUME NEW t \in MarkerType, NEW i \in 1 .. Len(recycled_markers'[t])
      PROVE  /\ i \in 1 .. Len(recycled_markers[t])
             /\ recycled_markers'[t][i] = recycled_markers[t][i]
             /\ t # type \/ i # Len(list)
  <2>1. CASE t = type
    BY <2>1, <1>1
  <2>2. CASE t # type
    BY <2>2 DEF TakeRecycled, TypeOK
  <2> QED
    BY <2>1, <2>2
<1>3. UNCHANGED bufferVars /\ marker'[o] = list[Len(list)] /\ want'[o] = type
      /\ \A q \in Owners : q # o => marker'[q] = marker[q] /\ pc'[q] = pc[q]
                                     /\ want'[q] = want[q]
  BY DEF TakeRecycled, TypeOK
<1>4. TypeOK'
  BY <1>1 DEF TakeRecycled, TypeOK, bufferVars
<1>5. IndexInLastBuffer'
  BY <1>3 DEF IndexInLastBuffer, Used, bufferVars
<1>6. HeldCarved'
  BY <1>1, <1>3 DEF HeldCarved, RecycledCarved, Carved, Used, bufferVars
<1>7. RecycledCarved'
  <2> SUFFICES ASSUME NEW t \in MarkerType, NEW i \in 1 .. Len(recycled_markers'[t])
               PROVE  (recycled_markers[t][i].type = t /\ Carved(recycled_markers[t][i]))'
    BY DEF RecycledCarved
  <2> QED
    BY SMTT(60), <1>2, <1>3 DEF RecycledCarved, Carved, Used, bufferVars
<1>8. HeldApart'
  <2> SUFFICES ASSUME NEW p \in Owners, NEW q \in Owners, p # q,
                      pc'[p] = "held", pc'[q] = "held"
               PROVE  Apart(marker'[p], marker'[q])
    BY DEF HeldApart
  <2>1. CASE p = o
    BY SMTT(60), <2>1, <1>1, <1>3 DEF HeldApartFromRecycled, Apart
  <2>2. CASE q = o
    BY <2>2, <1>1, <1>3 DEF HeldApartFromRecycled, Apart
  <2>3. CASE p # o /\ q # o
    BY <2>3, <1>3 DEF HeldApart
  <2> QED
    BY <2>1, <2>2, <2>3
<1>9. HeldApartFromRecycled'
  <2> SUFFICES ASSUME NEW q \in Owners, NEW t \in MarkerType, pc'[q] = "held",
                      NEW i \in 1 .. Len(recycled_markers'[t])
               PROVE  Apart(marker'[q], recycled_markers'[t][i])
    BY DEF HeldApartFromRecycled
  <2>1. /\ i \in 1 .. Len(recycled_markers[t])
        /\ recycled_markers'[t][i] = recycled_markers[t][i]
        /\ t # type \/ i # Len(list)
    BY <1>2
  <2>2. CASE q = o
    BY <2>1, <2>2, <1>1, <1>3 DEF RecycledApart
  <2>3. CASE q # o
    BY <2>1, <2>3, <1>3 DEF HeldApartFromRecycled
  <2> QED
    BY <2>2, <2>3
<1>10. RecycledApart'
  BY <1>1, <1>2 DEF RecycledApart
<1> QED
  BY <1>4, <1>5, <1>6, <1>7, <1>8, <1>9, <1>10

LEMMA NothingRecycledStep ==
  ASSUME IInv, NEW o \in Owners, NEW type \in MarkerType, NothingRecycled(o, type)
  PROVE  IInv'
<1>1. UNCHANGED <<marker, recycled_markers, bufferVars>>
  BY DEF NothingRecycled
<1>2. \A q \in Owners : pc'[q] = "held" => pc[q] = "held" /\ want'[q] = want[q]
  BY DEF NothingRecycled, IInv, TypeOK
<1>3. TypeOK'
  BY DEF NothingRecycled, IInv, TypeOK, bufferVars
<1>4. IndexInLastBuffer' /\ HeldCarved' /\ RecycledCarved'
  BY <1>1, <1>2 DEF IInv, IndexInLastBuffer, HeldCarved, RecycledCarved, Carved,
                    Used, bufferVars
<1>5. HeldApart' /\ HeldApartFromRecycled' /\ RecycledApart'
  BY <1>1, <1>2 DEF IInv, HeldApart, HeldApartFromRecycled, RecycledApart
<1> QED
  BY <1>3, <1>4, <1>5 DEF IInv

\* A freshly carved marker that is apart from everything carved before it
\* keeps the invariant.
LEMMA CarveStep ==
  ASSUME IInv, TypeOK', IndexInLastBuffer', NEW o \in Owners, NEW m \in Marker,
         pc[o] = "bump", m.type = want[o], Carved(m)',
         pc' = [pc EXCEPT ![o] = "held"], marker' = [marker EXCEPT ![o] = m],
         UNCHANGED <<want, recycled_markers>>,
         \A x \in Marker : Carved(x) => Carved(x)' /\ Apart(x, m) /\ Apart(m, x)
  PROVE  IInv'
<1>1. /\ marker'[o] = m
      /\ \A q \in Owners : q # o => pc'[q] = pc[q] /\ marker'[q] = marker[q]
  BY DEF IInv, TypeOK
<1>2. \A q \in Owners : marker[q] \in Marker
  BY DEF IInv, TypeOK
<1>3. \A t \in MarkerType : \A i \in 1 .. Len(recycled_markers[t]) :
        recycled_markers[t][i] \in Marker
  BY ElementOfSeq DEF IInv, TypeOK
<1>4. HeldCarved'
  <2> SUFFICES ASSUME NEW q \in Owners, pc'[q] = "held"
               PROVE  marker'[q].type = want'[q] /\ Carved(marker[q])'
    BY DEF HeldCarved
  <2>1. CASE q = o
    BY <2>1, <1>1 DEF Carved
  <2>2. CASE q # o
    <3>1. Carved(marker[q]) /\ marker[q].type = want[q]
      BY <2>2, <1>1 DEF IInv, HeldCarved
    <3> DEFINE x == marker[q]
    <3>2. x \in Marker /\ marker'[q] = x
      BY <2>2, <1>1, <1>2
    <3> QED
      BY <3>1, <3>2 DEF Carved
  <2> QED
    BY <2>1, <2>2
<1>5. RecycledCarved'
  BY <1>3 DEF IInv, RecycledCarved, Carved
<1>6. HeldApart'
  BY <1>1, <1>2 DEF IInv, HeldCarved, HeldApart
<1>7. HeldApartFromRecycled'
  <2> SUFFICES ASSUME NEW q \in Owners, NEW t \in MarkerType, pc'[q] = "held",
                      NEW i \in 1 .. Len(recycled_markers[t])
               PROVE  Apart(marker'[q], recycled_markers[t][i])
    BY DEF HeldApartFromRecycled
  <2>1. CASE q = o
    BY <2>1, <1>1, <1>3 DEF IInv, RecycledCarved
  <2>2. CASE q # o
    BY <2>2, <1>1 DEF IInv, HeldApartFromRecycled
  <2> QED
    BY <2>1, <2>2
<1>8. RecycledApart'
  BY DEF IInv, RecycledApart
<1> QED
  BY <1>4, <1>5, <1>6, <1>7, <1>8 DEF IInv

LEMMA CarveFromCurrentStep ==
  ASSUME IInv, NEW o \in Owners, CarveFromCurrent(o)
  PROVE  IInv'
<1> DEFINE n == Len(marker_buffers)
<1>1. /\ TypeOK /\ IndexInLastBuffer /\ want[o] \in MarkerType /\ n \in Nat
      /\ Words(want[o]) \in {1, 2} /\ EventCount \in Nat
      /\ current_marker_index \in Nat
  BY EventCountAssumption DEF IInv, TypeOK, Words
<1>2. /\ marker_buffers # <<>> /\ Used \in Nat
      /\ Used + Words(want[o]) <= EventCount
      /\ current_marker_index % EventCount = Used
  BY <1>1, RoomInCurrent DEF CarveFromCurrent
<1>3. n # 0
  BY <1>1, <1>2, EmptySeq DEF TypeOK
<1>4. PICK m \in Marker :
        m = [type |-> want[o], buffer |-> n, offset |-> Used]
  BY <1>1, <1>2 DEF Marker
<1>5. /\ UNCHANGED <<marker_buffers, want, recycled_markers>>
      /\ marker' = [marker EXCEPT ![o] = m]
      /\ pc[o] = "bump" /\ pc' = [pc EXCEPT ![o] = "held"]
      /\ current_marker_index' = current_marker_index + Words(want[o])
  BY <1>2, <1>4 DEF CarveFromCurrent, Carve
<1>6. TypeOK'
  BY <1>1, <1>5 DEF CarveFromCurrent, TypeOK
<1>7. (n - 1) * EventCount \in Int
  BY <1>1, SMT
<1>8. Used' = Used + Words(want[o])
  BY <1>1, <1>5, <1>7 DEF Used
<1>9. IndexInLastBuffer'
  BY <1>1, <1>2, <1>5, <1>8 DEF IndexInLastBuffer
<1>10. Carved(m)'
  BY <1>1, <1>2, <1>3, <1>4, <1>5, <1>8 DEF Carved
<1>11. \A x \in Marker : Carved(x) => Carved(x)' /\ Apart(x, m) /\ Apart(m, x)
  BY <1>1, <1>2, <1>4, <1>5, <1>8 DEF Carved, Apart, Marker, Words
<1>12. m.type = want[o]
  BY <1>4
<1> HIDE DEF n
<1> QED
  BY <1>5, <1>6, <1>9, <1>10, <1>11, <1>12, CarveStep

LEMMA CarveFromNewBufferStep ==
  ASSUME IInv, NEW o \in Owners, CarveFromNewBuffer(o)
  PROVE  IInv'
<1> DEFINE n == Len(marker_buffers)
<1>1. /\ TypeOK /\ IndexInLastBuffer /\ want[o] \in MarkerType /\ n \in Nat
      /\ Words(want[o]) \in {1, 2} /\ EventCount \in Nat \ {0}
      /\ Words(want[o]) <= EventCount
      /\ current_marker_index \in Nat /\ current_heap_offset \in Nat
  <2>1. 2 <= EventCount
    BY EventCountAssumption, SMT
  <2> QED
    BY <2>1, EventCountAssumption DEF IInv, TypeOK, Words
<1>2. (IF want[o] = "kUint64" THEN RoundUpToEven(current_marker_index)
                              ELSE current_marker_index) = n * EventCount
  BY <1>1, NewBufferAtEnd DEF CarveFromNewBuffer, OutOfSpace
<1>3. n * EventCount \in Nat /\ (n * EventCount) % EventCount = 0
  <2>1. (n * EventCount + 0) % EventCount = 0
    BY <1>1, OffsetInBuffer
  <2> QED
    BY <2>1, <1>1, SMT
<1>4. /\ marker_buffers' \in Seq(Nat) /\ Len(marker_buffers') = n + 1
      /\ marker_buffers' # <<>>
  BY <1>1 DEF CarveFromNewBuffer, TypeOK
<1>5. PICK m \in Marker :
        m = [type |-> want[o], buffer |-> n + 1, offset |-> 0]
  <2>1. n + 1 \in Nat /\ 0 \in Nat
    BY <1>1
  <2>2. [type |-> want[o], buffer |-> n + 1, offset |-> 0] \in Marker
    BY <1>1, <2>1 DEF Marker
  <2> QED
    BY <2>2
<1>6. /\ UNCHANGED <<want, recycled_markers>>
      /\ marker' = [marker EXCEPT ![o] = m]
      /\ pc[o] = "bump" /\ pc' = [pc EXCEPT ![o] = "held"]
      /\ current_marker_index' = n * EventCount + Words(want[o])
  BY <1>2, <1>3, <1>4, <1>5 DEF CarveFromNewBuffer, OutOfSpace, Carve
<1>7. TypeOK'
  <2>1. /\ heap' \in {"null", "live", "freed"}
        /\ current_heap_offset' = current_heap_offset + EventCount
    BY <1>1 DEF CarveFromNewBuffer, TypeOK
  <2>2. current_marker_index' \in Nat /\ current_heap_offset' \in Nat
    BY <1>1, <1>3, <1>6, <2>1
  <2>3. pc' \in [Owners -> {"none", "bump", "held"}] /\ want' \in [Owners -> MarkerType]
        /\ marker' \in [Owners -> Marker]
        /\ recycled_markers' \in [MarkerType -> Seq(Marker)]
    BY <1>1, <1>6 DEF TypeOK
  <2> QED
    BY <1>4, <2>1, <2>2, <2>3 DEF TypeOK
<1>8. Used' = Words(want[o])
  <2>1. Len(marker_buffers') - 1 = n
    BY <1>1, <1>4
  <2>2. Used' = (n * EventCount + Words(want[o])) - n * EventCount
    BY <1>6, <2>1 DEF Used
  <2> QED
    BY <1>1, <1>3, <2>2
<1>9. IndexInLastBuffer'
  BY <1>1, <1>4, <1>8 DEF IndexInLastBuffer
<1>10. Carved(m)'
  BY <1>1, <1>4, <1>5, <1>8 DEF Carved
<1>11. \A x \in Marker : Carved(x) => Carved(x)' /\ Apart(x, m) /\ Apart(m, x)
  BY <1>1, <1>4, <1>5, <1>8 DEF Carved, Apart, Marker
<1>12. m.type = want[o]
  BY <1>5
<1> HIDE DEF n
<1> QED
  BY <1>6, <1>7, <1>9, <1>10, <1>11, <1>12, CarveStep

LEMMA AcquireFailsStep ==
  ASSUME IInv, NEW o \in Owners, AcquireFails(o)
  PROVE  IInv'
<1>1. UNCHANGED <<want, marker, recycled_markers, marker_buffers,
                  current_marker_index>>
  BY DEF AcquireFails
<1>2. \A q \in Owners : pc'[q] = "held" => pc[q] = "held"
  BY DEF AcquireFails, IInv, TypeOK
<1>3. TypeOK'
  BY EventCountAssumption DEF AcquireFails, IInv, TypeOK
<1>4. IndexInLastBuffer' /\ HeldCarved' /\ RecycledCarved'
  BY <1>1, <1>2 DEF IInv, IndexInLastBuffer, HeldCarved, RecycledCarved, Carved,
                    Used
<1>5. HeldApart' /\ HeldApartFromRecycled' /\ RecycledApart'
  BY <1>1, <1>2 DEF IInv, HeldApart, HeldApartFromRecycled, RecycledApart
<1> QED
  BY <1>3, <1>4, <1>5 DEF IInv

LEMMA FreeMarkerStep ==
  ASSUME IInv, NEW o \in Owners, FreeMarker(o)
  PROVE  IInv'
<1> USE DEF IInv
<1> DEFINE type == marker[o].type
           list == recycled_markers[type]
<1>1. /\ type \in MarkerType /\ marker[o] \in Marker /\ pc[o] = "held"
      /\ list \in Seq(Marker) /\ Len(list) \in Nat
      /\ recycled_markers'[type] = Append(list, marker[o])
      /\ recycled_markers' \in [MarkerType -> Seq(Marker)]
  BY DEF FreeMarker, TypeOK, Marker
<1>2. ASSUME NEW t \in MarkerType, NEW i \in 1 .. Len(recycled_markers'[t])
      PROVE  \/ /\ i \in 1 .. Len(recycled_markers[t])
                /\ recycled_markers'[t][i] = recycled_markers[t][i]
             \/ /\ t = type /\ i = Len(list) + 1
                /\ recycled_markers'[t][i] = marker[o]
  <2>1. CASE t = type
    BY <2>1, <1>1
  <2>2. CASE t # type
    BY <2>2 DEF FreeMarker, TypeOK
  <2> QED
    BY <2>1, <2>2
<1>3. UNCHANGED <<want, bufferVars>>
      /\ \A q \in Owners : pc'[q] = "held" => /\ q # o /\ pc[q] = "held"
                                              /\ marker'[q] = marker[q]
  BY DEF FreeMarker, TypeOK
<1>4. TypeOK'
  BY <1>1 DEF FreeMarker, TypeOK, bufferVars, NullMarker, Marker, MarkerType
<1>5. IndexInLastBuffer' /\ HeldCarved'
  BY <1>3 DEF IndexInLastBuffer, HeldCarved, Carved, Used, bufferVars
<1>6. RecycledCarved'
  <2> SUFFICES ASSUME NEW t \in MarkerType, NEW i \in 1 .. Len(recycled_markers'[t])
               PROVE  (recycled_markers[t][i].type = t /\ Carved(recycled_markers[t][i]))'
    BY DEF RecycledCarved
  <2>1. CASE i \in 1 .. Len(recycled_markers[t])
             /\ recycled_markers'[t][i] = recycled_markers[t][i]
    BY <2>1, <1>3 DEF RecycledCarved, Carved, Used, bufferVars
  <2>2. CASE t = type /\ recycled_markers'[t][i] = marker[o]
    BY <2>2, <1>1, <1>3 DEF HeldCarved, Carved, Used, bufferVars
  <2> QED
    BY <1>2, <2>1, <2>2
<1>7. HeldApart'
  BY <1>3 DEF HeldApart
<1>8. HeldApartFromRecycled'
  BY <1>1, <1>2, <1>3 DEF HeldApartFromRecycled, HeldApart
<1>9. RecycledApart'
  <2> SUFFICES ASSUME NEW t \in MarkerType, NEW u \in MarkerType,
                      NEW i \in 1 .. Len(recycled_markers'[t]),
                      NEW j \in 1 .. Len(recycled_markers'[u]),
                      t # u \/ i # j
               PROVE  Apart(recycled_markers'[t][i], recycled_markers'[u][j])
    BY DEF RecycledApart
  <2>1. \A v \in MarkerType : \A k \in 1 .. Len(recycled_markers[v]) :
          Apart(marker[o], recycled_markers[v][k])
          /\ Apart(recycled_markers[v][k], marker[o])
    BY <1>1 DEF HeldApartFromRecycled, Apart
  <2>2. CASE i \in 1 .. Len(recycled_markers[t])
             /\ recycled_markers'[t][i] = recycled_markers[t][i]
    <3>1. CASE j \in 1 .. Len(recycled_markers[u])
               /\ recycled_markers'[u][j] = recycled_markers[u][j]
      BY <2>2, <3>1 DEF RecycledApart
    <3>2. CASE recycled_markers'[u][j] = marker[o]
      BY <2>1, <2>2, <3>2
    <3> QED
      BY <1>2, <3>1, <3>2
  <2>3. CASE t = type /\ i = Len(list) + 1 /\ recycled_markers'[t][i] = marker[o]
    <3>1. CASE j \in 1 .. Len(recycled_markers[u])
               /\ recycled_markers'[u][j] = recycled_markers[u][j]
      BY <2>1, <2>3, <3>1
    <3>2. CASE u = type /\ j = Len(list) + 1
      BY <2>3, <3>2
    <3> QED
      BY <1>2, <3>1, <3>2
  <2> QED
    BY <1>2, <2>2, <2>3
<1> QED
  BY <1>4, <1>5, <1>6, <1>7, <1>8, <1>9

LEMMA NextIInv == IInv /\ [Next]_vars => IInv'
<1> SUFFICES ASSUME IInv, [Next]_vars PROVE IInv'
  OBVIOUS
<1>1. ASSUME NEW o \in Owners, NEW type \in MarkerType, TakeRecycled(o, type)
      PROVE  IInv'
  BY <1>1, TakeRecycledStep
<1>2. ASSUME NEW o \in Owners, NEW type \in MarkerType, NothingRecycled(o, type)
      PROVE  IInv'
  BY <1>2, NothingRecycledStep
<1>3. ASSUME NEW o \in Owners, CarveFromCurrent(o) PROVE IInv'
  BY <1>3, CarveFromCurrentStep
<1>4. ASSUME NEW o \in Owners, CarveFromNewBuffer(o) PROVE IInv'
  BY <1>4, CarveFromNewBufferStep
<1>5. ASSUME NEW o \in Owners, AcquireFails(o) PROVE IInv'
  BY <1>5, AcquireFailsStep
<1>6. ASSUME NEW o \in Owners, FreeMarker(o) PROVE IInv'
  BY <1>6, FreeMarkerStep
<1>7. CASE UNCHANGED vars
  BY <1>7 DEF vars, bufferVars, IInv, TypeOK, IndexInLastBuffer, HeldCarved,
              RecycledCarved, HeldApart, HeldApartFromRecycled, RecycledApart,
              Carved, Used
<1> QED
  BY <1>1, <1>2, <1>3, <1>4, <1>5, <1>6, <1>7 DEF Next

LEMMA SpecIInv == Spec => []IInv
  BY InitIInv, NextIInv, PTL DEF Spec

-----------------------------------------------------------------------------
\* The allocator's state has its type in every reachable state.
THEOREM TypeCorrect == Spec => []TypeOK
<1>1. IInv => TypeOK
  BY DEF IInv
<1> QED
  BY <1>1, SpecIInv, PTL

\* No two live markers of a device share a word of marker memory, whatever
\* the interleaving of AllocateMarker's critical sections and FreeMarker.
THEOREM MarkersDisjoint == Spec => []LiveMarkersDisjoint
<1>1. IInv => LiveMarkersDisjoint
  <2> SUFFICES ASSUME IInv, NEW o \in Held, NEW q \in Held, o # q,
                      NEW c \in Cells(o), c \in Cells(q)
               PROVE  FALSE
    BY DEF LiveMarkersDisjoint
  <2>1. /\ o \in Owners /\ q \in Owners
        /\ marker[o] \in Marker /\ marker[q] \in Marker
        /\ marker[o].type = want[o] /\ marker[q].type = want[q]
        /\ Apart(marker[o], marker[q])
    BY DEF Held, IInv, TypeOK, HeldCarved, HeldApart
  <2>2. PICK w \in marker[o].offset .. marker[o].offset + Words(want[o]) - 1 :
          c = <<marker[o].buffer, w>>
    BY DEF Cells
  <2>3. PICK v \in marker[q].offset .. marker[q].offset + Words(want[q]) - 1 :
          c = <<marker[q].buffer, v>>
    BY DEF Cells
  <2>4. marker[o].buffer = marker[q].buffer /\ w = v
    BY <2>2, <2>3
  <2> QED
    BY <2>1, <2>2, <2>3, <2>4 DEF Apart, Marker, Words
<1> QED
  BY <1>1, SpecIInv, PTL

\* Every live marker lies inside a marker buffer that exists, the second
\* word of a 64-bit marker included.
THEOREM MarkersInBounds == Spec => []LiveMarkersInBounds
<1>1. IInv => LiveMarkersInBounds
  BY DEF IInv, HeldCarved, Carved, Held, LiveMarkersInBounds
<1> QED
  BY <1>1, SpecIInv, PTL

-----------------------------------------------------------------------------
(* The buffers in the heap.                                                *)

\* Every buffer ends at or below the offset of the next one.
BuffersBelowOffset ==
  \A i \in 1 .. Len(marker_buffers) :
    marker_buffers[i] + EventCount <= current_heap_offset

HeapInv == TypeOK /\ BuffersBelowOffset /\ BuffersDisjointInHeap

LEMMA NewBufferStep ==
  ASSUME HeapInv, NEW o \in Owners, CarveFromNewBuffer(o)
  PROVE  BuffersBelowOffset' /\ BuffersDisjointInHeap'
<1> DEFINE n == Len(marker_buffers)
<1>1. /\ current_heap_offset + EventCount < HeapSize
      /\ marker_buffers' = Append(marker_buffers, current_heap_offset)
      /\ current_heap_offset' = current_heap_offset + EventCount
  BY EventCountAssumption, HeapSizeAssumption
     DEF CarveFromNewBuffer, HeapExhausted, HeapInv, TypeOK
<1>2. /\ n \in Nat /\ Len(marker_buffers') = n + 1
      /\ marker_buffers'[n + 1] = current_heap_offset
      /\ \A i \in 1 .. n : /\ marker_buffers[i] \in Nat
                         /\ marker_buffers'[i] = marker_buffers[i]
      /\ current_heap_offset \in Nat
  BY <1>1, AppendProperties DEF HeapInv, TypeOK
<1> HIDE DEF n
<1>3. BuffersBelowOffset'
  BY <1>1, <1>2, EventCountAssumption DEF HeapInv, BuffersBelowOffset, n
<1>4. BuffersDisjointInHeap'
  BY <1>1, <1>2, EventCountAssumption, HeapSizeAssumption
     DEF HeapInv, BuffersBelowOffset, BuffersDisjointInHeap, n
<1>5. QED BY <1>3, <1>4

LEMMA NextHeapInv == IInv /\ HeapInv /\ [Next]_vars => HeapInv'
<1> SUFFICES ASSUME IInv, HeapInv, [Next]_vars PROVE HeapInv'
  OBVIOUS
<1>1. TypeOK' BY NextIInv DEF IInv
<1>2. CASE UNCHANGED <<marker_buffers, current_heap_offset>>
  BY <1>1, <1>2 DEF HeapInv, BuffersBelowOffset, BuffersDisjointInHeap
<1>3. ASSUME NEW o \in Owners, CarveFromNewBuffer(o) PROVE HeapInv'
  BY <1>1, <1>3, NewBufferStep DEF HeapInv
<1>4. ASSUME NEW o \in Owners, AcquireFails(o) PROVE HeapInv'
  <2>1. /\ UNCHANGED marker_buffers
        /\ current_heap_offset' \in Nat /\ current_heap_offset' >= current_heap_offset
    BY <1>4, EventCountAssumption DEF AcquireFails, HeapInv, TypeOK
  <2>2. /\ \A i \in 1 .. Len(marker_buffers) : marker_buffers[i] \in Nat
        /\ current_heap_offset \in Nat
    BY DEF HeapInv, TypeOK
  <2>3. BuffersBelowOffset'
    BY <2>1, <2>2, EventCountAssumption DEF HeapInv, BuffersBelowOffset
  <2>4. QED BY <1>1, <2>1, <2>3 DEF HeapInv, BuffersDisjointInHeap
<1>5. QED BY <1>2, <1>3, <1>4
  DEF Next, vars, bufferVars, TakeRecycled, NothingRecycled, CarveFromCurrent, FreeMarker

\* The marker buffers lie in the heap, apart from each other, however many
\* attempts to acquire one have failed and advanced current_heap_offset_
\* (Device::AcquireMarkerBuffer).
THEOREM BuffersApart == Spec => []BuffersDisjointInHeap
<1>1. Init => HeapInv
  BY EventCountAssumption
     DEF Init, HeapInv, TypeOK, BuffersBelowOffset, BuffersDisjointInHeap, NullMarker,
         Marker, MarkerType
<1>2. HeapInv => BuffersDisjointInHeap BY DEF HeapInv
<1>3. QED BY <1>1, <1>2, NextHeapInv, SpecIInv, PTL DEF Spec

=============================================================================
