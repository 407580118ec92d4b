------------------------ MODULE QueueBindSparseProofs ------------------------
(***************************************************************************)
(* Proofs about QueueBindSparse, for every call, every set of semaphores,  *)
(* and whichever of the driver's calls fail: the type invariant, that the  *)
(* queue takes the bind infos in order, that the helpers keep the          *)
(* semaphores, that a call which signals at its end is complete, and that  *)
(* the split call implements SparseBinding.                                *)
(*                                                                         *)
(* They follow from one invariant (IInv), which relates three counts: how  *)
(* far the loop is in queue_operations, what its two indices say, and what *)
(* the queue has taken (Given).  The queue is extended one operation at a  *)
(* time (GivenOneMore), also by a bind of many bind infos.                 *)
(***************************************************************************)
EXTENDS QueueBindSparse, SequenceTheorems, FiniteSetTheorems,
        WellFoundedInduction, TLAPS

Operations == [waits : SUBSET Semaphores, signals : SUBSET Semaphores,
               binds : SUBSET Nat, fence : BOOLEAN]

-----------------------------------------------------------------------------
(* Induction, and the two recursive functions.                             *)

\* Induction over the natural numbers that a set holds.
LEMMA SetInduction ==
  ASSUME NEW D, 0 \in D, \A n \in Nat : n \in D => n + 1 \in D
  PROVE  Nat \subseteq D
<1> DEFINE Out == {n \in Nat : n \notin D}
<1> SUFFICES ASSUME Out # {} PROVE FALSE OBVIOUS
<1>1. Out \subseteq Nat OBVIOUS
<1> HIDE DEF Out
<1>2. PICK n \in Out : \A m \in Out : ~(<<m, n>> \in OpToRel(<, Nat))
  BY <1>1, NatLessThanWellFounded, WFMin
<1>3. \A m \in Out : ~(m < n) BY <1>1, <1>2 DEF OpToRel
<1>4. n \in Nat /\ n \notin D BY <1>2 DEF Out
<1>5. n - 1 \in Nat BY <1>4
<1>6. n - 1 \in D BY <1>3, <1>5 DEF Out
<1>7. n - 1 + 1 \in D BY <1>5, <1>6
<1>8. QED BY <1>4, <1>7

\* What the recursive function of Signaled is up to n.
SignaledUpTo(ops, initially, n, f) ==
  f = [k \in 0 .. n |->
         IF k = 0 THEN initially
         ELSE (f[k - 1] \ ops[k].waits) \cup (ops[k].signals \cap Binary)]

\* The recursive function of Signaled exists.
LEMMA SignaledExists ==
  ASSUME NEW ops, NEW initially
  PROVE  \A n \in Nat : \E f : SignaledUpTo(ops, initially, n, f)
<1> DEFINE D == {n \in Nat : \E f : SignaledUpTo(ops, initially, n, f)}
           Then(s, op) == (s \ op.waits) \cup (op.signals \cap Binary)
<1>1. 0 \in D
  <2>1. SignaledUpTo(ops, initially, 0, [k \in 0 .. 0 |-> initially])
    BY DEF SignaledUpTo
  <2>2. QED BY <2>1
<1>2. ASSUME NEW n \in Nat, n \in D PROVE n + 1 \in D
  <2>1. PICK f : SignaledUpTo(ops, initially, n, f) BY <1>2
  <2> DEFINE g == [k \in 0 .. n + 1 |->
                     IF k <= n THEN f[k] ELSE Then(f[n], ops[n + 1])]
  <2>2. \A k \in 0 .. n :
          f[k] = IF k = 0 THEN initially ELSE Then(f[k - 1], ops[k])
    BY <2>1 DEF SignaledUpTo
  <2> HIDE DEF Then
  <2>3. /\ g = [k \in 0 .. n + 1 |-> g[k]]
        /\ \A k \in 0 .. n : g[k] = f[k]
        /\ g[n + 1] = Then(f[n], ops[n + 1])
    BY <1>2
  <2> HIDE DEF g
  <2>4. ASSUME NEW k \in 0 .. n + 1
        PROVE  g[k] = IF k = 0 THEN initially ELSE Then(g[k - 1], ops[k])
    <3>1. CASE k = 0
      <4>1. 0 \in 0 .. n OBVIOUS
      <4>2. g[0] = f[0] /\ f[0] = initially BY <2>2, <2>3, <4>1
      <4>3. QED BY <3>1, <4>2
    <3>2. CASE k \in 1 .. n
      <4>1. k \in 0 .. n /\ k - 1 \in 0 .. n /\ k # 0 BY <3>2
      <4>2. g[k] = f[k] /\ g[k - 1] = f[k - 1] BY <2>3, <4>1
      <4>3. QED BY <2>2, <4>1, <4>2
    <3>3. CASE k = n + 1
      <4>1. n \in 0 .. n /\ k - 1 = n /\ k # 0 BY <3>3
      <4>2. QED BY <2>3, <3>3, <4>1
    <3>4. QED BY <3>1, <3>2, <3>3
  <2>5. SignaledUpTo(ops, initially, n + 1, g)
    BY <2>3, <2>4 DEF SignaledUpTo, Then
  <2>6. QED BY <2>5
<1> HIDE DEF D
<1>3. Nat \subseteq D BY <1>1, <1>2, SetInduction
<1>4. QED BY <1>3 DEF D

\* The signals after each operation, from those before it.
LEMMA SignaledSteps ==
  ASSUME NEW ops, NEW initially, Len(ops) \in Nat
  PROVE  /\ Signaled(ops, initially)[0] = initially
         /\ \A k \in 1 .. Len(ops) :
              Signaled(ops, initially)[k] =
                (Signaled(ops, initially)[k - 1] \ ops[k].waits)
                  \cup (ops[k].signals \cap Binary)
<1> DEFINE f == CHOOSE f : SignaledUpTo(ops, initially, Len(ops), f)
<1>1. SignaledUpTo(ops, initially, Len(ops), f) BY SignaledExists
<1>2. Signaled(ops, initially) = f BY DEF Signaled, SignaledUpTo
<1> HIDE DEF f
<1>3. \A k \in 0 .. Len(ops) :
        f[k] = IF k = 0 THEN initially
               ELSE (f[k - 1] \ ops[k].waits) \cup (ops[k].signals \cap Binary)
  BY <1>1 DEF SignaledUpTo
<1>4. f[0] = initially
  <2>1. 0 \in 0 .. Len(ops) OBVIOUS
  <2>2. QED BY <1>3, <2>1
<1>5. ASSUME NEW k \in 1 .. Len(ops)
      PROVE  f[k] = (f[k - 1] \ ops[k].waits) \cup (ops[k].signals \cap Binary)
  <2>1. k \in 0 .. Len(ops) /\ k # 0 OBVIOUS
  <2>2. QED BY <1>3, <2>1
<1>6. QED BY <1>2, <1>4, <1>5

\* Only binary semaphores have signals.
LEMMA SignaledType ==
  ASSUME NEW ops, NEW initially \in SUBSET Binary, Len(ops) \in Nat
  PROVE  \A k \in 0 .. Len(ops) : Signaled(ops, initially)[k] \subseteq Binary
<1> DEFINE f == Signaled(ops, initially)
           D == {n \in Nat : n <= Len(ops) => f[n] \subseteq Binary}
<1>1. f[0] = initially BY SignaledSteps
<1>2. \A k \in 1 .. Len(ops) :
        f[k] = (f[k - 1] \ ops[k].waits) \cup (ops[k].signals \cap Binary)
  BY SignaledSteps
<1> HIDE DEF f
<1>3. 0 \in D BY <1>1
<1>4. ASSUME NEW n \in Nat, n \in D PROVE n + 1 \in D
  <2> SUFFICES ASSUME n + 1 <= Len(ops) PROVE f[n + 1] \subseteq Binary OBVIOUS
  <2>1. n + 1 \in 1 .. Len(ops) /\ n + 1 - 1 = n OBVIOUS
  <2>2. f[n + 1] = (f[n] \ ops[n + 1].waits) \cup (ops[n + 1].signals \cap Binary)
    BY <1>2, <2>1
  <2>3. f[n] \subseteq Binary BY <1>4
  <2>4. QED BY <2>2, <2>3
<1> HIDE DEF D
<1>5. Nat \subseteq D BY <1>3, <1>4, SetInduction
<1>6. QED BY <1>5 DEF D, f

\* What follows does not change what was signaled before it.
LEMMA SignaledBefore ==
  ASSUME NEW q \in Seq(Operations), NEW op \in Operations, NEW initially
  PROVE  \A k \in 0 .. Len(q) :
           Signaled(Append(q, op), initially)[k] = Signaled(q, initially)[k]
<1> DEFINE r == Append(q, op)
           f == Signaled(q, initially)
           g == Signaled(r, initially)
           D == {n \in Nat : n <= Len(q) => g[n] = f[n]}
<1>1. Len(q) \in Nat /\ Len(r) = Len(q) + 1 /\ \A k \in 1 .. Len(q) : r[k] = q[k]
  OBVIOUS
<1> HIDE DEF r
<1>2. /\ f[0] = initially
      /\ \A k \in 1 .. Len(q) :
           f[k] = (f[k - 1] \ q[k].waits) \cup (q[k].signals \cap Binary)
  BY <1>1, SignaledSteps
<1>3. /\ g[0] = initially
      /\ \A k \in 1 .. Len(r) :
           g[k] = (g[k - 1] \ r[k].waits) \cup (r[k].signals \cap Binary)
  BY <1>1, SignaledSteps
<1> HIDE DEF f, g
<1>4. 0 \in D BY <1>2, <1>3
<1>5. ASSUME NEW n \in Nat, n \in D PROVE n + 1 \in D
  <2> SUFFICES ASSUME n + 1 <= Len(q) PROVE g[n + 1] = f[n + 1] OBVIOUS
  <2>1. n + 1 \in 1 .. Len(q) /\ n + 1 \in 1 .. Len(r) /\ n + 1 - 1 = n BY <1>1
  <2>2. r[n + 1] = q[n + 1] /\ g[n] = f[n] BY <1>1, <1>5, <2>1
  <2>3. f[n + 1] = (f[n] \ q[n + 1].waits) \cup (q[n + 1].signals \cap Binary)
    BY <1>2, <2>1
  <2>4. g[n + 1] = (g[n] \ r[n + 1].waits) \cup (r[n + 1].signals \cap Binary)
    BY <1>3, <2>1
  <2>5. QED BY <2>2, <2>3, <2>4
<1> HIDE DEF D
<1>6. Nat \subseteq D BY <1>4, <1>5, SetInduction
<1>7. QED BY <1>6 DEF D, f, g, r

-----------------------------------------------------------------------------
(* Counting binds.                                                         *)

\* The count of binds, one operation at a time.
LEMMA BindsSteps ==
  ASSUME NEW ops
  PROVE  /\ Binds(ops, 0) = 0
         /\ \A n \in Nat : Binds(ops, n) \in Nat /\ Binds(ops, n) <= n
         /\ \A n \in Nat :
              Binds(ops, n + 1) =
                IF IsSubmit(ops[n + 1]) THEN Binds(ops, n) ELSE Binds(ops, n) + 1
<1> DEFINE B(n) == {k \in 1 .. n : ~IsSubmit(ops[k])}
<1>1. Binds(ops, 0) = 0
  <2>1. B(0) = {} OBVIOUS
  <2>2. QED BY <2>1, FS_EmptySet DEF Binds
<1>2. ASSUME NEW n \in Nat
      PROVE IsFiniteSet(B(n)) /\ Cardinality(B(n)) \in Nat /\ Cardinality(B(n)) <= n
  <2>1. IsFiniteSet(1 .. n) /\ Cardinality(1 .. n) = n BY FS_Interval
  <2>2. B(n) \in SUBSET (1 .. n) OBVIOUS
  <2>3. IsFiniteSet(B(n)) /\ Cardinality(B(n)) <= n BY <2>1, <2>2, FS_Subset
  <2>4. QED BY <2>3, FS_CardinalityType
<1>3. ASSUME NEW n \in Nat
      PROVE  Cardinality(B(n + 1)) =
               IF IsSubmit(ops[n + 1]) THEN Cardinality(B(n))
               ELSE Cardinality(B(n)) + 1
  <2>1. CASE IsSubmit(ops[n + 1])
    <3>1. B(n + 1) = B(n)
      <4>1. 1 .. n + 1 = (1 .. n) \cup {n + 1} OBVIOUS
      <4>2. QED BY <2>1, <4>1
    <3>2. QED BY <2>1, <3>1
  <2>2. CASE ~IsSubmit(ops[n + 1])
    <3>1. B(n + 1) = B(n) \cup {n + 1}
      <4>1. 1 .. n + 1 = (1 .. n) \cup {n + 1} OBVIOUS
      <4>2. QED BY <2>2, <4>1
    <3>2. n + 1 \notin B(n) OBVIOUS
    <3>3. IsFiniteSet(B(n)) BY <1>2
    <3> HIDE DEF B
    <3>4. QED BY <2>2, <3>1, <3>2, <3>3, FS_AddElement
  <2>3. QED BY <2>1, <2>2
<1>4. QED BY <1>1, <1>2, <1>3 DEF Binds

\* What follows does not change the count of what is before it.
LEMMA BindsBefore ==
  ASSUME NEW q \in Seq(Operations), NEW op \in Operations
  PROVE  /\ \A n \in 0 .. Len(q) : Binds(Append(q, op), n) = Binds(q, n)
         /\ Binds(Append(q, op), Len(q) + 1) =
              IF IsSubmit(op) THEN Binds(q, Len(q)) ELSE Binds(q, Len(q)) + 1
<1> DEFINE r == Append(q, op)
<1>1. /\ Len(q) \in Nat /\ Len(r) = Len(q) + 1 /\ r[Len(q) + 1] = op
      /\ \A k \in 1 .. Len(q) : r[k] = q[k]
  OBVIOUS
<1> HIDE DEF r
<1>2. ASSUME NEW n \in 0 .. Len(q) PROVE Binds(r, n) = Binds(q, n)
  <2>1. \A k \in 1 .. n : r[k] = q[k] BY <1>1
  <2>2. {k \in 1 .. n : ~IsSubmit(r[k])} = {k \in 1 .. n : ~IsSubmit(q[k])}
    BY <2>1
  <2>3. QED BY <2>2 DEF Binds
<1>3. Binds(r, Len(q)) = Binds(q, Len(q)) BY <1>1, <1>2
<1>4. Binds(r, Len(q) + 1) =
        IF IsSubmit(op) THEN Binds(r, Len(q)) ELSE Binds(r, Len(q)) + 1
  BY <1>1, BindsSteps
<1>5. QED BY <1>2, <1>3, <1>4 DEF r

-----------------------------------------------------------------------------
(* queue_operations: a bind for each bind info, and helpers around it.     *)

\* A helper that leaves the semaphores as they are.
Idle(op) == op.waits = {} /\ op.signals = {}

\* queue_operations, or a part of it, for the first n bind infos.
Expanded(q, n) ==
  /\ q \in Seq(Operations)
  /\ Binds(q, Len(q)) = n
  /\ \A j \in 1 .. Len(q) :
       IsSubmit(q[j]) =>
         \/ Idle(q[j]) /\ ~q[j].fence
         \/ /\ Binds(q, j) < bindInfoCount
            /\ q[j] = WaitHelper(pBindInfo[Binds(q, j) + 1])
  /\ \A j \in 0 .. Len(q) :
       Binds(q, Len(q)) - Binds(q, j) \in 0 .. Len(q) - j

LEMMA ExpandedOneMore ==
  ASSUME NEW q, NEW n \in Nat, Expanded(q, n), NEW op \in Operations,
         IsSubmit(op) => \/ Idle(op) /\ ~op.fence
                         \/ n < bindInfoCount /\ op = WaitHelper(pBindInfo[n + 1])
  PROVE  Expanded(Append(q, op), IF IsSubmit(op) THEN n ELSE n + 1)
<1> DEFINE r == Append(q, op)
           m == IF IsSubmit(op) THEN n ELSE n + 1
<1>1. q \in Seq(Operations) /\ Binds(q, Len(q)) = n BY DEF Expanded
<1>2. /\ Len(q) \in Nat /\ Len(r) = Len(q) + 1 /\ r[Len(q) + 1] = op
      /\ \A k \in 1 .. Len(q) : r[k] = q[k]
      /\ r \in Seq(Operations)
  BY <1>1
<1>3. /\ \A k \in 0 .. Len(q) : Binds(r, k) = Binds(q, k)
      /\ Binds(r, Len(q) + 1) = m
  BY <1>1, BindsBefore
<1>4. Binds(r, Len(r)) = m BY <1>2, <1>3
<1> HIDE DEF r
<1>5. ASSUME NEW j \in 1 .. Len(r), IsSubmit(r[j])
      PROVE  \/ Idle(r[j]) /\ ~r[j].fence
             \/ /\ Binds(r, j) < bindInfoCount
                /\ r[j] = WaitHelper(pBindInfo[Binds(r, j) + 1])
  <2>1. CASE j \in 1 .. Len(q)
    <3>1. r[j] = q[j] /\ Binds(r, j) = Binds(q, j) BY <1>2, <1>3, <2>1
    <3>2. QED BY <1>5, <2>1, <3>1 DEF Expanded
  <2>2. CASE j = Len(q) + 1
    <3>1. r[j] = op /\ Binds(r, j) = m BY <1>2, <1>3, <2>2
    <3>2. IsSubmit(op) /\ m = n BY <1>5, <3>1
    <3>3. QED BY <3>1, <3>2
  <2>3. QED BY <1>2, <2>1, <2>2
<1>6. ASSUME NEW j \in 0 .. Len(r)
      PROVE  Binds(r, Len(r)) - Binds(r, j) \in 0 .. Len(r) - j
  <2>1. CASE j \in 0 .. Len(q)
    <3>1. Binds(r, j) = Binds(q, j) /\ Binds(r, Len(r)) = m BY <1>3, <1>4, <2>1
    <3>2. n - Binds(q, j) \in 0 .. Len(q) - j BY <1>1, <2>1 DEF Expanded
    <3>3. Binds(q, j) \in Nat
      <4>1. j \in Nat BY <1>2, <2>1
      <4>2. QED BY <4>1, BindsSteps
    <3>4. m \in n .. n + 1 OBVIOUS
    <3> HIDE DEF m
    <3>5. QED BY <1>2, <2>1, <3>1, <3>2, <3>3, <3>4
  <2>2. CASE j = Len(r)
    <3>1. Binds(r, Len(r)) \in Nat BY <1>2, BindsSteps
    <3>2. QED BY <1>2, <2>2, <3>1
  <2>3. QED BY <1>2, <2>1, <2>2
<1>7. QED BY <1>2, <1>4, <1>5, <1>6 DEF Expanded, r

\* What the constants and the application's call are.
Call ==
  /\ pBindInfo \in Seq(BindInfos)
  /\ bindInfoCount \in 1 .. MaxBindInfos

LEMMA BindInfoType ==
  ASSUME Call, NEW k \in 1 .. bindInfoCount
  PROVE  /\ pBindInfo[k].waits \in SUBSET Semaphores
         /\ pBindInfo[k].signals \in SUBSET Semaphores
  BY BindInfosAssumption, ElementOfSeq DEF Call, bindInfoCount

LEMMA Associative ==
  ASSUME NEW s \in Seq(Operations), NEW t \in Seq(Operations),
         NEW u \in Seq(Operations)
  PROVE  (s \o t) \o u = s \o (t \o u)
  BY ConcatAssociative

\* One bind info is expanded: at most three operations, of which the last is a
\* helper if the bind info signals.
LEMMA ExpandedNext ==
  ASSUME Call, NEW q, NEW n \in 0 .. bindInfoCount - 1, Expanded(q, n)
  PROVE  LET b == pBindInfo[n + 1]
             r == q \o Expand(b)
         IN /\ Expanded(r, n + 1)
            /\ Len(r) <= Len(q) + 3 /\ Len(r) >= Len(q) + 1
            /\ b.signals # {} => IsSubmit(r[Len(r)])
<1> DEFINE b == pBindInfo[n + 1]
           w == WaitHelper(b)
           o == Operation({}, {}, {0}, FALSE)
           h == SignalHelper(b)
<1>0. n \in Nat /\ n + 1 \in 1 .. bindInfoCount /\ bindInfoCount \in Nat
      /\ n < bindInfoCount
  BY DEF Call
<1>1. b.waits \in SUBSET Semaphores /\ b.signals \in SUBSET Semaphores
  BY <1>0, BindInfoType
<1>2. w \in Operations /\ o \in Operations /\ h \in Operations
  BY <1>1 DEF Operations, Operation, WaitHelper, SignalHelper
<1>3. IsSubmit(w) /\ ~IsSubmit(o) /\ IsSubmit(h) /\ Idle(h) /\ ~h.fence
  BY DEF IsSubmit, Idle, Operation, WaitHelper, SignalHelper
<1>4. q \in Seq(Operations) BY DEF Expanded
<1> DEFINE u == IF WaitsOnBinary(b) THEN Append(q, w) ELSE q
           v == Append(u, o)
           r == IF b.signals # {} THEN Append(v, h) ELSE v
<1>5. q \o Expand(b) = r
  <2> HIDE DEF w, o, h, b
  <2> DEFINE W == When(WaitsOnBinary(b), w)
             H == When(b.signals # {}, h)
  <2>1. W \in Seq(Operations) /\ <<o>> \in Seq(Operations) /\ H \in Seq(Operations)
    BY <1>2 DEF When
  <2>2. u = q \o W /\ u \in Seq(Operations)
    BY <1>2, <1>4, AppendIsConcat, ConcatEmptySeq DEF When
  <2>3. v = u \o <<o>> /\ v \in Seq(Operations)
    BY <1>2, <2>2, AppendIsConcat
  <2> HIDE DEF u, v
  <2>4. r = v \o H
    BY <1>2, <2>3, AppendIsConcat, ConcatEmptySeq DEF When
  <2> HIDE DEF W, H, r
  <2>5. W \o <<o>> \in Seq(Operations) BY <2>1, ConcatProperties
  <2>6. q \o (W \o <<o>>) = v BY <1>4, <2>1, <2>2, <2>3, ConcatAssociative
  <2> DEFINE X == W \o <<o>>
  <2>7. X \in Seq(Operations) /\ q \o X = v BY <2>5, <2>6
  <2>8. q \o (X \o H) = r
    <3> HIDE DEF X
    <3>1. X \in Seq(Operations) /\ H \in Seq(Operations) BY <2>1, <2>7
    <3>2. (q \o X) \o H = q \o (X \o H) BY <1>4, <3>1, Associative
    <3>3. QED BY <2>4, <2>7, <3>2
  <2>9. QED BY <2>8 DEF Expand, W, H, w, o, h
<1> HIDE DEF w, o, h
<1>6. Expanded(u, n)
  BY <1>0, <1>2, <1>3, ExpandedOneMore DEF w
<1>7. u \in Seq(Operations) /\ Len(u) \in Len(q) .. Len(q) + 1
  BY <1>2, <1>4
<1> HIDE DEF u
<1>8. Expanded(v, n + 1)
  BY <1>0, <1>2, <1>3, <1>6, ExpandedOneMore
<1>9. v \in Seq(Operations) /\ Len(v) = Len(u) + 1 BY <1>2, <1>7
<1> HIDE DEF v
<1>10. Expanded(r, n + 1)
  <2>1. n + 1 \in Nat BY <1>0
  <2>2. Expanded(Append(v, h), n + 1)
    BY <1>2, <1>3, <1>8, <2>1, ExpandedOneMore
  <2>3. QED BY <1>8, <2>2
<1>11. Len(r) \in Len(v) .. Len(v) + 1
  BY <1>2, <1>9
<1>12. ASSUME b.signals # {} PROVE IsSubmit(r[Len(r)])
  <2>1. r = Append(v, h) BY <1>12
  <2>2. r[Len(r)] = h BY <1>2, <1>9, <2>1
  <2>3. QED BY <1>3, <2>2
<1> HIDE DEF r
<1>13. Len(r) <= Len(q) + 3 /\ Len(r) >= Len(q) + 1
  BY <1>4, <1>7, <1>9, <1>11
<1>14. QED BY <1>5, <1>10, <1>12, <1>13

\* What the recursive function of queue_operations is up to n.
ExpandedUpTo(n, f) ==
  f = [k \in 0 .. n |->
         IF k = 0 THEN <<>> ELSE f[k - 1] \o Expand(pBindInfo[k])]

\* The recursive function of queue_operations exists.
LEMMA ExpandedExists == \A n \in Nat : \E f : ExpandedUpTo(n, f)
<1> DEFINE D == {n \in Nat : \E f : ExpandedUpTo(n, f)}
           More(s, k) == s \o Expand(pBindInfo[k])
<1>1. 0 \in D
  <2>1. ExpandedUpTo(0, [k \in 0 .. 0 |-> <<>>]) BY DEF ExpandedUpTo
  <2>2. QED BY <2>1
<1>2. ASSUME NEW n \in Nat, n \in D PROVE n + 1 \in D
  <2>1. PICK f : ExpandedUpTo(n, f) BY <1>2
  <2> DEFINE g == [k \in 0 .. n + 1 |->
                     IF k <= n THEN f[k] ELSE More(f[n], n + 1)]
  <2>2. \A k \in 0 .. n : f[k] = IF k = 0 THEN <<>> ELSE More(f[k - 1], k)
    BY <2>1 DEF ExpandedUpTo
  <2> HIDE DEF More
  <2>3. /\ g = [k \in 0 .. n + 1 |-> g[k]]
        /\ \A k \in 0 .. n : g[k] = f[k]
        /\ g[n + 1] = More(f[n], n + 1)
    BY <1>2
  <2> HIDE DEF g
  <2>4. ASSUME NEW k \in 0 .. n + 1
        PROVE  g[k] = IF k = 0 THEN <<>> ELSE More(g[k - 1], k)
    <3>1. CASE k = 0
      <4>1. 0 \in 0 .. n OBVIOUS
      <4>2. g[0] = f[0] /\ f[0] = <<>> BY <2>2, <2>3, <4>1
      <4>3. QED BY <3>1, <4>2
    <3>2. CASE k \in 1 .. n
      <4>1. k \in 0 .. n /\ k - 1 \in 0 .. n /\ k # 0 BY <3>2
      <4>2. g[k] = f[k] /\ g[k - 1] = f[k - 1] BY <2>3, <4>1
      <4>3. QED BY <2>2, <4>1, <4>2
    <3>3. CASE k = n + 1
      <4>1. n \in 0 .. n /\ k - 1 = n /\ k # 0 BY <3>3
      <4>2. QED BY <2>3, <3>3, <4>1
    <3>4. QED BY <3>1, <3>2, <3>3
  <2>5. ExpandedUpTo(n + 1, g) BY <2>3, <2>4 DEF ExpandedUpTo, More
  <2>6. QED BY <2>5
<1> HIDE DEF D
<1>3. Nat \subseteq D BY <1>1, <1>2, SetInduction
<1>4. QED BY <1>3 DEF D

\* queue_operations is for all bind infos, and ends with a helper if the last
\* of them signals.
LEMMA OperationsExpanded ==
  ASSUME Call
  PROVE  /\ Expanded(queue_operations, bindInfoCount)
         /\ Len(queue_operations) <= 3 * bindInfoCount
         /\ Len(queue_operations) >= bindInfoCount
         /\ pBindInfo[bindInfoCount].signals # {} =>
              IsSubmit(queue_operations[Len(queue_operations)])
<1> DEFINE f == CHOOSE f : ExpandedUpTo(bindInfoCount, f)
<1>0. bindInfoCount \in Nat /\ bindInfoCount > 0 BY DEF Call
<1>1. ExpandedUpTo(bindInfoCount, f) BY <1>0, ExpandedExists
<1>2. queue_operations = f[bindInfoCount] BY DEF queue_operations, ExpandedUpTo
<1> HIDE DEF f
<1>3. \A k \in 0 .. bindInfoCount :
        f[k] = IF k = 0 THEN <<>> ELSE f[k - 1] \o Expand(pBindInfo[k])
  BY <1>1 DEF ExpandedUpTo
<1> DEFINE Good(n) ==
             /\ Expanded(f[n], n)
             /\ Len(f[n]) <= 3 * n
             /\ Len(f[n]) >= n
             /\ n > 0 /\ pBindInfo[n].signals # {} => IsSubmit(f[n][Len(f[n])])
           D == {n \in Nat : n <= bindInfoCount => Good(n)}
<1>4. 0 \in D
  <2>1. f[0] = <<>>
    <3>1. 0 \in 0 .. bindInfoCount BY <1>0
    <3>2. QED BY <1>3, <3>1
  <2>2. f[0] \in Seq(Operations) /\ Len(f[0]) = 0 BY <2>1
  <2>3. Binds(f[0], 0) = 0 BY BindsSteps
  <2>4. Expanded(f[0], 0) BY <2>2, <2>3 DEF Expanded
  <2>5. QED BY <2>2, <2>4
<1>5. ASSUME NEW n \in Nat, n \in D PROVE n + 1 \in D
  <2> SUFFICES ASSUME n + 1 <= bindInfoCount PROVE Good(n + 1) OBVIOUS
  <2>1. Good(n) BY <1>0, <1>5
  <2>2. n \in 0 .. bindInfoCount - 1 BY <1>0
  <2>3. f[n + 1] = f[n] \o Expand(pBindInfo[n + 1])
    <3>1. n + 1 \in 0 .. bindInfoCount /\ n + 1 # 0 /\ n + 1 - 1 = n BY <1>0
    <3> DEFINE More(s, k) == s \o Expand(pBindInfo[k])
    <3>2. \A k \in 0 .. bindInfoCount :
            f[k] = IF k = 0 THEN <<>> ELSE More(f[k - 1], k)
      BY <1>3
    <3> HIDE DEF More
    <3>3. f[n + 1] = More(f[n], n + 1) BY <3>1, <3>2
    <3>4. QED BY <3>3 DEF More
  <2> DEFINE s == f[n]
             t == f[n + 1]
  <2>4. Expanded(s, n) /\ Len(s) <= 3 * n /\ Len(s) >= n BY <2>1
  <2>5. t = s \o Expand(pBindInfo[n + 1]) BY <2>3
  <2> HIDE DEF s, t
  <2>6. /\ Expanded(t, n + 1)
        /\ Len(t) <= Len(s) + 3 /\ Len(t) >= Len(s) + 1
        /\ pBindInfo[n + 1].signals # {} => IsSubmit(t[Len(t)])
    BY <2>2, <2>4, <2>5, ExpandedNext
  <2>7. Len(s) \in Nat /\ Len(t) \in Nat BY <2>4, <2>6 DEF Expanded
  <2>8. Len(t) <= 3 * (n + 1) /\ Len(t) >= n + 1 BY <2>4, <2>6, <2>7
  <2>9. QED BY <2>6, <2>8 DEF t
<1> HIDE DEF D
<1>6. Nat \subseteq D BY <1>4, <1>5, SetInduction
<1>7. QED BY <1>0, <1>2, <1>6 DEF D

-----------------------------------------------------------------------------
(* The queue, which takes one operation after the other.                   *)

\* The semaphores signaled after the first n bind infos of the call.
After(n) ==
  Signaled(AsCalled, signaled)[IF n <= bindInfoCount THEN n ELSE bindInfoCount]

\* The n-th bind info of the call, or what lies past the end of the array.
BindInfo(n) ==
  IF n <= bindInfoCount THEN pBindInfo[n] ELSE [waits |-> {}, signals |-> {}]

\* The call is one that the application may make.
Callable ==
  /\ Call
  /\ signaled \subseteq Binary
  /\ Executes(AsCalled, signaled)

\* What InOrder, Taken and Executes say of a queue that has taken the first n
\* bind infos.
Given(q, n) ==
  /\ q \in Seq(Operations)
  /\ Binds(q, Len(q)) = n
  /\ \A k \in 1 .. Len(q) : IsSubmit(q[k]) \/ q[k].binds = {Binds(q, k)}
  /\ UNION {q[k].binds : k \in 1 .. Len(q)} = 1 .. n
  /\ Executes(q, signaled)
  /\ Signaled(q, signaled)[Len(q)] = After(n)

Fenced(q) == \E k \in 1 .. Len(q) : q[k].fence

\* What the n-th bind info does to the semaphores.
LEMMA AfterSteps ==
  ASSUME Callable, NEW n \in Nat
  PROVE  /\ After(0) = signaled
         /\ After(n) \subseteq Binary
         /\ Possible(BindInfo(n + 1), After(n))
         /\ After(n + 1) = (After(n) \ BindInfo(n + 1).waits)
                             \cup (BindInfo(n + 1).signals \cap Binary)
<1> DEFINE f == Signaled(AsCalled, signaled)
           c == bindInfoCount
<1>0. c \in Nat /\ signaled \in SUBSET Binary BY DEF Callable, Call
<1>1. /\ Len(AsCalled) = c
      /\ \A k \in 1 .. c : /\ AsCalled[k].waits = pBindInfo[k].waits
                           /\ AsCalled[k].signals = pBindInfo[k].signals
  <2>1. AsCalled = [k \in 1 .. c |->
                      Operation(pBindInfo[k].waits, pBindInfo[k].signals, {k}, FALSE)]
    BY DEF AsCalled
  <2>2. Len(AsCalled) = c BY <1>0, <2>1
  <2>3. QED BY <2>1, <2>2 DEF Operation
<1> HIDE DEF c
<1>2. f[0] = signaled BY <1>0, <1>1, SignaledSteps
<1>3. \A k \in 1 .. c :
        f[k] = (f[k - 1] \ AsCalled[k].waits) \cup (AsCalled[k].signals \cap Binary)
  BY <1>0, <1>1, SignaledSteps
<1>4. \A k \in 0 .. c : f[k] \subseteq Binary
  BY <1>0, <1>1, SignaledType
<1>5. \A k \in 1 .. c : Possible(AsCalled[k], f[k - 1])
  BY <1>1 DEF Callable, Executes
<1> DEFINE A(m) == f[IF m <= c THEN m ELSE c]
<1>6. \A m : After(m) = A(m) BY DEF After, c
<1> HIDE DEF f
<1>7. A(0) = signaled BY <1>0, <1>2
<1>8. A(n) \subseteq Binary BY <1>0, <1>4
<1>9. CASE n + 1 <= c
  <2>1. n + 1 \in 1 .. c /\ n + 1 - 1 = n /\ n <= c BY <1>0, <1>9
  <2>2. A(n) = f[n] /\ A(n + 1) = f[n + 1] BY <1>9, <2>1
  <2>3. BindInfo(n + 1) = pBindInfo[n + 1] BY <1>9 DEF BindInfo, c
  <2>4. Possible(AsCalled[n + 1], f[n]) BY <1>5, <2>1
  <2>5. f[n + 1] = (f[n] \ AsCalled[n + 1].waits)
                     \cup (AsCalled[n + 1].signals \cap Binary)
    BY <1>3, <2>1
  <2>6. Possible(BindInfo(n + 1), f[n])
    BY <1>1, <2>1, <2>3, <2>4 DEF Possible
  <2>7. f[n + 1] = (f[n] \ BindInfo(n + 1).waits)
                     \cup (BindInfo(n + 1).signals \cap Binary)
    BY <1>1, <2>1, <2>3, <2>5
  <2>8. QED BY <1>6, <1>7, <1>8, <2>2, <2>6, <2>7
<1>10. CASE ~(n + 1 <= c)
  <2>1. A(n) = f[c] /\ A(n + 1) = f[c] BY <1>0, <1>10
  <2>2. BindInfo(n + 1).waits = {} /\ BindInfo(n + 1).signals = {}
    BY <1>10 DEF BindInfo, c
  <2>3. Possible(BindInfo(n + 1), A(n)) BY <2>2 DEF Possible
  <2>4. A(n + 1) = (A(n) \ BindInfo(n + 1).waits)
                     \cup (BindInfo(n + 1).signals \cap Binary)
    BY <2>1, <2>2
  <2>5. QED BY <1>6, <1>7, <1>8, <2>3, <2>4
<1>11. QED BY <1>9, <1>10

\* The queue takes one more operation: a bind of the next bind info, or a
\* helper that leaves the semaphores as they are.
LEMMA GivenOneMore ==
  ASSUME Callable, NEW q, NEW n \in Nat, Given(q, n), NEW op \in Operations,
         NEW m \in Nat,
         \/ /\ op.binds = {n + 1} /\ m = n + 1
            /\ op.waits = BindInfo(n + 1).waits
            /\ op.signals = BindInfo(n + 1).signals
         \/ /\ IsSubmit(op) /\ m = n
            /\ Possible(op, After(n))
            /\ (After(n) \ op.waits) \cup (op.signals \cap Binary) = After(n)
  PROVE  /\ Given(Append(q, op), m)
         /\ Fenced(Append(q, op)) <=> Fenced(q) \/ op.fence
<1> DEFINE r == Append(q, op)
<1>1. q \in Seq(Operations) /\ Binds(q, Len(q)) = n BY DEF Given
<1>2. /\ Len(q) \in Nat /\ Len(r) = Len(q) + 1 /\ r[Len(q) + 1] = op
      /\ \A k \in 1 .. Len(q) : r[k] = q[k]
      /\ r \in Seq(Operations)
  BY <1>1
<1>3. /\ \A k \in 0 .. Len(q) : Binds(r, k) = Binds(q, k)
      /\ Binds(r, Len(q) + 1) = IF IsSubmit(op) THEN n ELSE n + 1
  BY <1>1, BindsBefore
<1>4. \A k \in 0 .. Len(q) : Signaled(r, signaled)[k] = Signaled(q, signaled)[k]
  BY <1>1, SignaledBefore
<1>5. Signaled(r, signaled)[Len(q) + 1] =
        (Signaled(r, signaled)[Len(q)] \ op.waits) \cup (op.signals \cap Binary)
  <2>1. Len(q) + 1 \in 1 .. Len(r) /\ Len(q) + 1 - 1 = Len(q) BY <1>2
  <2> HIDE DEF r
  <2>2. \A k \in 1 .. Len(r) :
          Signaled(r, signaled)[k] =
            (Signaled(r, signaled)[k - 1] \ r[k].waits)
              \cup (r[k].signals \cap Binary)
    BY <1>2, SignaledSteps
  <2>3. Signaled(r, signaled)[Len(q) + 1] =
            (Signaled(r, signaled)[Len(q) + 1 - 1] \ r[Len(q) + 1].waits)
              \cup (r[Len(q) + 1].signals \cap Binary)
    BY <2>1, <2>2
  <2>4. QED BY <1>2, <2>1, <2>3
<1> HIDE DEF r
<1>6. Signaled(r, signaled)[Len(q)] = After(n)
  BY <1>2, <1>4 DEF Given
<1>7. Possible(op, After(n)) /\ Signaled(r, signaled)[Len(r)] = After(m)
  <2>1. CASE op.binds = {n + 1}
    <3>1. m = n + 1 /\ op.waits = BindInfo(n + 1).waits
          /\ op.signals = BindInfo(n + 1).signals
      BY <2>1 DEF IsSubmit
    <3>2. Possible(BindInfo(n + 1), After(n))
          /\ After(n + 1) = (After(n) \ BindInfo(n + 1).waits)
                             \cup (BindInfo(n + 1).signals \cap Binary)
      BY AfterSteps
    <3>3. QED BY <1>2, <1>5, <1>6, <3>1, <3>2 DEF Possible
  <2>2. CASE op.binds # {n + 1}
    BY <1>2, <1>5, <1>6, <2>2
  <2>3. QED BY <2>1, <2>2
<1>8. Executes(r, signaled)
  <2> SUFFICES ASSUME NEW k \in 1 .. Len(r)
               PROVE  Possible(r[k], Signaled(r, signaled)[k - 1])
    BY DEF Executes
  <2>1. CASE k \in 1 .. Len(q)
    <3>1. r[k] = q[k] /\ k - 1 \in 0 .. Len(q) BY <1>2, <2>1
    <3>2. Possible(q[k], Signaled(q, signaled)[k - 1])
      BY <2>1 DEF Given, Executes
    <3>3. QED BY <1>4, <3>1, <3>2
  <2>2. CASE k = Len(q) + 1
    <3>1. r[k] = op /\ k - 1 = Len(q) BY <1>2, <2>2
    <3>2. QED BY <1>6, <1>7, <3>1
  <2>3. QED BY <1>2, <2>1, <2>2
<1>9. IsSubmit(op) => m = n BY DEF IsSubmit
<1>10. ~IsSubmit(op) => m = n + 1 /\ op.binds = {n + 1} OBVIOUS
<1>11. Binds(r, Len(r)) = m BY <1>2, <1>3, <1>9, <1>10
<1>12. ASSUME NEW k \in 1 .. Len(r)
       PROVE  IsSubmit(r[k]) \/ r[k].binds = {Binds(r, k)}
  <2>1. CASE k \in 1 .. Len(q)
    <3>1. r[k] = q[k] /\ Binds(r, k) = Binds(q, k) BY <1>2, <1>3, <2>1
    <3>2. QED BY <2>1, <3>1 DEF Given
  <2>2. CASE k = Len(q) + 1
    <3>1. r[k] = op /\ Binds(r, k) = m BY <1>2, <1>11, <2>2
    <3>2. QED BY <1>10, <3>1
  <2>3. QED BY <1>2, <2>1, <2>2
<1> DEFINE U == UNION {r[k].binds : k \in 1 .. Len(r)}
           V == UNION {q[k].binds : k \in 1 .. Len(q)}
<1>13. U = 1 .. m
  <2>1. \A x : x \in U <=> \E k \in 1 .. Len(r) : x \in r[k].binds OBVIOUS
  <2>2. \A x : x \in V <=> \E k \in 1 .. Len(q) : x \in q[k].binds OBVIOUS
  <2>3. V = 1 .. n BY DEF Given
  <2> HIDE DEF U, V
  <2>4. \A x : x \in U <=> x \in V \/ x \in op.binds
    BY <1>2, <2>1, <2>2
  <2>5. U = V \cup op.binds BY <2>4
  <2>6. CASE IsSubmit(op)
    BY <1>9, <2>3, <2>5, <2>6 DEF IsSubmit
  <2>7. CASE ~IsSubmit(op)
    <3>1. 1 .. n + 1 = (1 .. n) \cup {n + 1} OBVIOUS
    <3>2. QED BY <1>10, <2>3, <2>5, <2>7, <3>1
  <2>8. QED BY <2>6, <2>7
<1>14. Given(r, m)
  BY <1>2, <1>7, <1>8, <1>11, <1>12, <1>13 DEF Given
<1>15. Fenced(r) <=> Fenced(q) \/ op.fence BY <1>2 DEF Fenced
<1>16. QED BY <1>14, <1>15 DEF r

\* A sequence that is appended, one element more of it.
LEMMA OneMore ==
  ASSUME NEW s \in Seq(Operations), NEW t \in Seq(Operations), NEW k \in Nat,
         k + 1 <= Len(t)
  PROVE  s \o SubSeq(t, 1, k + 1) = Append(s \o SubSeq(t, 1, k), t[k + 1])
<1> DEFINE u == SubSeq(t, 1, k)
           x == t[k + 1]
<1>1. u \in Seq(Operations) /\ x \in Operations /\ <<x>> \in Seq(Operations)
  OBVIOUS
<1>2. SubSeq(t, 1, k + 1) = u \o <<x>>
  <2>1. 1 \in 1 .. Len(t) /\ k + 1 \in 1 .. Len(t) /\ k + 1 - 1 = k OBVIOUS
  <2>2. QED BY <2>1, SubSeqRecursiveSecond
<1> HIDE DEF u, x
<1>3. Append(s \o u, x) = (s \o u) \o <<x>>
  <2>1. s \o u \in Seq(Operations) BY <1>1, ConcatProperties
  <2>2. QED BY <1>1, <2>1, AppendIsConcat
<1>4. (s \o u) \o <<x>> = s \o (u \o <<x>>) BY <1>1, Associative
<1>5. QED BY <1>2, <1>3, <1>4 DEF u, x

\* A bind of many bind infos, one after the other.
LEMMA BindGives ==
  ASSUME Callable, NEW first \in Nat, NEW n \in Nat, NEW fence \in BOOLEAN,
         Given(queue, first), Bind(first, n, fence)
  PROVE  /\ queue' \in Seq(Operations)
         /\ Given(queue', first + n)
         /\ Fenced(queue') <=> Fenced(queue) \/ fence
<1>1. queue \in Seq(Operations) BY DEF Given
<1>2. ASSUME n = 0 PROVE /\ Given(queue', first + n)
                         /\ Fenced(queue') <=> Fenced(queue) \/ fence
  <2> DEFINE op == Operation({}, {}, {}, fence)
  <2>1. op \in Operations /\ IsSubmit(op) /\ op.fence = fence
        /\ op.waits = {} /\ op.signals = {}
    BY DEF Operations, Operation, IsSubmit
  <2>2. queue' = queue \o <<op>> BY <1>2 DEF Bind
  <2> HIDE DEF op
  <2>3. queue' = Append(queue, op) BY <1>1, <2>1, <2>2, AppendIsConcat
  <2>4. After(first) \subseteq Binary BY AfterSteps
  <2>5. Possible(op, After(first))
        /\ (After(first) \ op.waits) \cup (op.signals \cap Binary) = After(first)
    BY <2>1 DEF Possible
  <2>6. /\ Given(Append(queue, op), first)
        /\ Fenced(Append(queue, op)) <=> Fenced(queue) \/ op.fence
    BY <2>1, <2>5, GivenOneMore
  <2>7. QED BY <1>2, <2>1, <2>3, <2>6
<1>3. ASSUME n > 0 PROVE /\ Given(queue', first + n)
                         /\ Fenced(queue') <=> Fenced(queue) \/ fence
  <2> DEFINE Op(k) == Operation(BindInfo(first + k).waits, BindInfo(first + k).signals,
                                {first + k}, fence /\ k = n)
             seg == [k \in 1 .. n |-> Op(k)]
  <2>1. queue' = queue \o seg BY <1>3 DEF Bind, BindInfo
  <2>2. ASSUME NEW k \in 1 .. n
        PROVE  /\ seg[k] \in Operations
               /\ seg[k].binds = {first + k}
               /\ seg[k].waits = BindInfo(first + k).waits
               /\ seg[k].signals = BindInfo(first + k).signals
               /\ seg[k].fence <=> fence /\ k = n
    <3>1. first + k \in Nat OBVIOUS
    <3>2. BindInfo(first + k).waits \in SUBSET Semaphores
          /\ BindInfo(first + k).signals \in SUBSET Semaphores
      <4>1. CASE first + k <= bindInfoCount
        <5>1. first + k \in 1 .. bindInfoCount BY <4>1 DEF Callable, Call
        <5>2. QED BY <4>1, <5>1, BindInfoType DEF BindInfo, Callable
      <4>2. CASE ~(first + k <= bindInfoCount) BY <4>2 DEF BindInfo
      <4>3. QED BY <4>1, <4>2
    <3>3. (fence /\ k = n) \in BOOLEAN OBVIOUS
    <3>4. Op(k) \in Operations BY <3>1, <3>2, <3>3 DEF Operations, Operation
    <3>5. seg[k] = Op(k) OBVIOUS
    <3>6. QED BY <3>4, <3>5 DEF Operation
  <2>3. seg \in Seq(Operations) /\ Len(seg) = n
    <3>1. seg \in [1 .. n -> Operations] BY <2>2
    <3>2. QED BY <3>1
  <2> HIDE DEF seg
  <2> DEFINE Upto(k) == queue \o SubSeq(seg, 1, k)
             D == {k \in Nat : k <= n =>
                     /\ Given(Upto(k), first + k)
                     /\ Fenced(Upto(k)) <=> Fenced(queue) \/ (fence /\ k = n)}
  <2>4. 0 \in D
    <3>1. SubSeq(seg, 1, 0) = <<>> BY <2>3
    <3>2. Upto(0) = queue BY <1>1, <3>1, ConcatEmptySeq
    <3> HIDE DEF Upto
    <3>3. first + 0 = first OBVIOUS
    <3>4. QED BY <1>3, <3>2, <3>3
  <2>5. ASSUME NEW k \in Nat, k \in D PROVE k + 1 \in D
    <3> SUFFICES ASSUME k + 1 <= n
                 PROVE  /\ Given(Upto(k + 1), first + (k + 1))
                        /\ Fenced(Upto(k + 1)) <=>
                             Fenced(queue) \/ (fence /\ k + 1 = n)
      OBVIOUS
    <3>1. k + 1 \in 1 .. n OBVIOUS
    <3>2. Upto(k + 1) = Append(Upto(k), seg[k + 1])
      BY <1>1, <2>3, <3>1, OneMore
    <3>3. Given(Upto(k), first + k) /\ (Fenced(Upto(k)) <=> Fenced(queue))
      BY <2>5
    <3> HIDE DEF Upto
    <3> DEFINE op == seg[k + 1]
    <3>4. /\ op \in Operations /\ op.binds = {first + k + 1}
          /\ op.waits = BindInfo(first + k + 1).waits
          /\ op.signals = BindInfo(first + k + 1).signals
          /\ op.fence <=> fence /\ k + 1 = n
      <4>1. first + (k + 1) = first + k + 1 OBVIOUS
      <4>2. QED BY <2>2, <3>1, <4>1
    <3> HIDE DEF op
    <3>5. first + k \in Nat /\ first + k + 1 \in Nat
          /\ first + (k + 1) = first + k + 1
      OBVIOUS
    <3>6. /\ Given(Append(Upto(k), op), first + k + 1)
          /\ Fenced(Append(Upto(k), op)) <=> Fenced(Upto(k)) \/ op.fence
      BY <3>3, <3>4, <3>5, GivenOneMore
    <3>7. QED BY <3>2, <3>3, <3>4, <3>5, <3>6 DEF op
  <2> HIDE DEF D
  <2>6. n \in D BY <2>4, <2>5, SetInduction
  <2>7. Upto(n) = queue'
    <3>1. SubSeq(seg, 1, n) = seg BY <2>3
    <3>2. QED BY <2>1, <3>1
  <2> HIDE DEF Upto
  <2>8. /\ Given(Upto(n), first + n)
        /\ Fenced(Upto(n)) <=> Fenced(queue) \/ (fence /\ n = n)
    BY <2>6 DEF D
  <2>9. QED BY <2>7, <2>8
<1>4. n = 0 \/ n > 0 OBVIOUS
<1>5. Given(queue', first + n) /\ (Fenced(queue') <=> Fenced(queue) \/ fence)
  BY <1>2, <1>3, <1>4
<1>6. QED BY <1>5 DEF Given

-----------------------------------------------------------------------------
(* The inductive invariant.                                                *)

\* The indices say how much of queue_operations is done.
Progress ==
  /\ i \in 1 .. Len(queue_operations) + 1
  /\ next_bind_sparse_info_index \in Nat
  /\ available_bind_sparse_info_counter \in Nat
  /\ Binds(queue_operations, i - 1) =
       next_bind_sparse_info_index + available_bind_sparse_info_counter
  /\ next_submit_info_index =
       i - 1 - (next_bind_sparse_info_index + available_bind_sparse_info_counter)

\* Until the call returns, what the queue has taken is what the index says,
\* and bind infos that are counted come right before where the loop is.
InCall ==
  /\ Given(queue, next_bind_sparse_info_index)
  /\ Fenced(queue) <=> next_bind_sparse_info_index = bindInfoCount
  /\ available_bind_sparse_info_counter > 0 =>
       i > 1 /\ ~IsSubmit(queue_operations[i - 1])
  /\ pc \in {"start", "loop"} => last_bind_result = "VK_SUCCESS"
  /\ pc = "start" => i = 1
  /\ pc = "rest" =>
       IF last_bind_result = "VK_SUCCESS"
         THEN \/ i = Len(queue_operations) + 1
              \/ available_bind_sparse_info_counter = 0
         ELSE available_bind_sparse_info_counter > 0

IInv ==
  /\ Callable
  /\ pc \in {"start", "loop", "rest", "returned"}
  /\ last_bind_result \in Results
  /\ Progress
  /\ pc # "returned" => InCall
  /\ Given(queue, Binds(queue, Len(queue)))
  /\ SignalingCallIsComplete

\* What the indices can be, and what a helper is.
LEMMA Positions ==
  ASSUME Callable, Progress
  PROVE  /\ Len(queue_operations) \in bindInfoCount .. 3 * bindInfoCount
         /\ bindInfoCount \in 1 .. MaxBindInfos
         /\ next_bind_sparse_info_index + available_bind_sparse_info_counter
              \in 0 .. bindInfoCount
         /\ next_submit_info_index \in 0 .. 2 * bindInfoCount
         /\ i = 1 => /\ next_bind_sparse_info_index = 0
                     /\ available_bind_sparse_info_counter = 0
                     /\ next_submit_info_index = 0
         /\ i = Len(queue_operations) + 1 =>
              next_bind_sparse_info_index + available_bind_sparse_info_counter
                = bindInfoCount
         /\ Binds(queue_operations, i) =
              IF IsSubmit(queue_operations[i])
                THEN Binds(queue_operations, i - 1)
                ELSE Binds(queue_operations, i - 1) + 1
<1> DEFINE q == queue_operations
           a == next_bind_sparse_info_index
           b == available_bind_sparse_info_counter
           c == bindInfoCount
<1>1. Call BY DEF Callable
<1>2. c \in 1 .. MaxBindInfos /\ c \in Nat BY <1>1, FailuresAssumption DEF Call
<1>3. Expanded(q, c) /\ Len(q) <= 3 * c /\ Len(q) >= c
  BY <1>1, OperationsExpanded
<1> HIDE DEF q, c
<1>4. Len(q) \in Nat BY <1>3 DEF Expanded
<1>5. i \in 1 .. Len(q) + 1 /\ a \in Nat /\ b \in Nat /\ Binds(q, i - 1) = a + b
      /\ next_submit_info_index = i - 1 - (a + b)
  BY DEF Progress, q
<1>6. i - 1 \in Nat /\ i - 1 \in 0 .. Len(q) BY <1>4, <1>5
<1>7. c - (a + b) \in 0 .. Len(q) - (i - 1)
  <2>1. Binds(q, Len(q)) = c BY <1>3 DEF Expanded
  <2>2. Binds(q, Len(q)) - Binds(q, i - 1) \in 0 .. Len(q) - (i - 1)
    BY <1>3, <1>6 DEF Expanded
  <2>3. QED BY <1>5, <2>1, <2>2
<1>8. a + b <= i - 1 BY <1>5, <1>6, BindsSteps
<1>9. Binds(q, i) = IF IsSubmit(q[i]) THEN Binds(q, i - 1) ELSE Binds(q, i - 1) + 1
  <2>1. i - 1 + 1 = i BY <1>4, <1>5
  <2>2. Binds(q, i - 1 + 1) = IF IsSubmit(q[i - 1 + 1]) THEN Binds(q, i - 1)
                              ELSE Binds(q, i - 1) + 1
    BY <1>6, BindsSteps
  <2>3. QED BY <2>1, <2>2
<1>10. i = 1 => a + b = 0 /\ next_submit_info_index = 0
  BY <1>5, <1>8
<1>11. i = Len(q) + 1 => a + b = c
  BY <1>2, <1>4, <1>5, <1>7
<1>12. a + b \in 0 .. c /\ next_submit_info_index \in 0 .. 2 * c
  BY <1>2, <1>3, <1>4, <1>5, <1>7, <1>8
<1>13. QED
  BY <1>2, <1>3, <1>4, <1>5, <1>9, <1>10, <1>11, <1>12 DEF q, c

\* What does not change with the call and its semaphores.
LEMMA SameCall ==
  ASSUME UNCHANGED <<pBindInfo, signaled>>
  PROVE  /\ bindInfoCount' = bindInfoCount
         /\ queue_operations' = queue_operations
         /\ Callable => Callable'
         /\ \A n : Given(queue', n) => Given(queue, n)'
         /\ Given(queue', next_bind_sparse_info_index') =>
              Given(queue, next_bind_sparse_info_index)'
<1>1. bindInfoCount' = bindInfoCount BY DEF bindInfoCount
<1>2. queue_operations' = queue_operations BY <1>1 DEF queue_operations
<1>3. AsCalled' = AsCalled BY <1>1 DEF AsCalled
<1>4. Callable => Callable' BY <1>1, <1>3 DEF Callable, Call
<1>5. ASSUME NEW n, Given(queue', n) PROVE Given(queue, n)'
  BY <1>1, <1>3, <1>5 DEF Given, After
<1>6. ASSUME Given(queue', next_bind_sparse_info_index')
      PROVE  Given(queue, next_bind_sparse_info_index)'
  BY <1>1, <1>3, <1>6 DEF Given, After
<1>7. QED BY <1>1, <1>2, <1>4, <1>5, <1>6

\* Where the queue has taken all bind infos and the fence, or where the call
\* says that it failed, the call is complete.
LEMMA CompleteWhenAllGiven ==
  ASSUME Callable, Given(queue, bindInfoCount), Fenced(queue)
  PROVE  SignalingCallIsComplete
  BY DEF Given, Fenced, SignalingCallIsComplete, Taken

LEMMA InitIInv == Init => IInv
<1> SUFFICES ASSUME Init PROVE IInv OBVIOUS
<1>1. pBindInfo \in Seq(BindInfos) /\ bindInfoCount \in 1 .. MaxBindInfos
  <2>1. PICK n \in 1 .. MaxBindInfos : pBindInfo \in [1 .. n -> BindInfos]
    BY DEF Init
  <2>2. n \in Nat BY FailuresAssumption
  <2>3. QED BY <2>1, <2>2 DEF bindInfoCount
<1>2. Callable /\ Call BY <1>1 DEF Init, Callable, Call
<1>3. Len(queue_operations) \in Nat
  BY <1>2, OperationsExpanded DEF Expanded
<1>4. Progress
  <2>1. Binds(queue_operations, 0) = 0 BY BindsSteps
  <2>2. QED BY <1>3, <2>1 DEF Init, Progress
<1>5. Given(queue, 0)
  <2>1. queue = <<>> BY DEF Init
  <2>2. queue \in Seq(Operations) /\ Len(queue) = 0 BY <2>1
  <2>3. Binds(queue, 0) = 0 BY BindsSteps
  <2>4. Signaled(queue, signaled)[0] = signaled BY <2>2, SignaledSteps
  <2>5. After(0) = signaled BY <1>2, AfterSteps
  <2>6. QED BY <2>2, <2>3, <2>4, <2>5 DEF Given, Executes
<1>6. InCall
  <2>1. ~Fenced(queue) BY DEF Init, Fenced
  <2>2. QED BY <1>1, <1>5, <2>1 DEF Init, InCall
<1>7. QED
  BY <1>2, <1>4, <1>5, <1>6
     DEF IInv, Init, Results, Given, SignalingCallIsComplete

LEMMA TypesFollow == IInv => TypeOK
<1> SUFFICES ASSUME IInv PROVE TypeOK OBVIOUS
<1>1. Callable /\ Progress /\ Given(queue, Binds(queue, Len(queue))) BY DEF IInv
<1>2. i \in 1 .. Len(queue_operations) + 1 BY <1>1 DEF Progress
<1>3. i \in 1 .. 3 * MaxBindInfos + 1
  BY <1>1, <1>2, Positions, FailuresAssumption
<1>4. next_bind_sparse_info_index \in 0 .. bindInfoCount
      /\ available_bind_sparse_info_counter \in 0 .. bindInfoCount
  BY <1>1, Positions DEF Progress
<1>5. next_submit_info_index \in 0 .. 2 * bindInfoCount BY <1>1, Positions
<1>6. queue \in Seq([waits : SUBSET Semaphores, signals : SUBSET Semaphores,
                     binds : SUBSET Nat, fence : BOOLEAN])
  BY <1>1 DEF Given, Operations
<1>7. QED
  BY <1>1, <1>3, <1>4, <1>5, <1>6 DEF TypeOK, IInv, Callable, Call

\* Steps after which the call returns: what the queue has taken stays, or more
\* has been sent.
LEMMA Returns ==
  ASSUME IInv, pc' = "returned",
         UNCHANGED <<pBindInfo, signaled, i, next_bind_sparse_info_index,
                     available_bind_sparse_info_counter, next_submit_info_index>>,
         last_bind_result' \in Results,
         NEW n, Given(queue', n),
         last_bind_result' = "VK_SUCCESS" =>
           \/ n = bindInfoCount /\ Fenced(queue')
           \/ HelperFailed'
           \/ pBindInfo[bindInfoCount].signals = {}
  PROVE  IInv'
<1>1. UNCHANGED <<pBindInfo, signaled, i, next_bind_sparse_info_index,
                  available_bind_sparse_info_counter, next_submit_info_index>>
  OBVIOUS
<1>2. bindInfoCount' = bindInfoCount /\ queue_operations' = queue_operations
      /\ Callable' /\ Given(queue, n)'
  BY <1>1, SameCall DEF IInv
<1>3. Progress' BY <1>1, <1>2 DEF IInv, Progress
<1>4. Given(queue, Binds(queue, Len(queue)))'
  BY <1>2 DEF Given
<1>5. SignalingCallIsComplete'
  <2> SUFFICES ASSUME last_bind_result' = "VK_SUCCESS", ~HelperFailed',
                      (pBindInfo[bindInfoCount].signals # {})'
               PROVE  SignalingCallIsComplete'
    BY DEF SignalingCallIsComplete
  <2>1. n = bindInfoCount /\ Fenced(queue') BY <1>1, <1>2
  <2>2. Taken' = 1 .. bindInfoCount'
    BY <1>2, <2>1 DEF Given, Taken
  <2>3. QED BY <2>1, <2>2 DEF SignalingCallIsComplete, Fenced
<1>6. QED BY <1>2, <1>3, <1>4, <1>5 DEF IInv

\* Steps after which it goes on.
LEMMA Continues ==
  ASSUME IInv, pc' \in {"loop", "rest"}, UNCHANGED <<pBindInfo, signaled>>,
         last_bind_result' \in Results,
         Progress',
         Given(queue', next_bind_sparse_info_index'),
         Fenced(queue') <=> next_bind_sparse_info_index' = bindInfoCount,
         available_bind_sparse_info_counter' > 0 =>
           i' > 1 /\ ~IsSubmit(queue_operations[i' - 1]),
         pc' = "loop" => last_bind_result' = "VK_SUCCESS",
         pc' = "rest" =>
           IF last_bind_result' = "VK_SUCCESS"
             THEN \/ i' = Len(queue_operations) + 1
                  \/ available_bind_sparse_info_counter' = 0
             ELSE available_bind_sparse_info_counter' > 0
  PROVE  IInv'
<1>1. bindInfoCount' = bindInfoCount /\ queue_operations' = queue_operations
      /\ Callable' /\ \A n : Given(queue', n) => Given(queue, n)'
  BY SameCall DEF IInv
<1>2. Given(queue, next_bind_sparse_info_index)' BY SameCall
<1>3. Given(queue, Binds(queue, Len(queue)))' BY <1>2 DEF Given
<1>4. InCall' BY <1>1, <1>2 DEF InCall
<1>5. QED BY <1>1, <1>3, <1>4 DEF IInv, SignalingCallIsComplete

LEMMA StartKeeps ==
  ASSUME IInv, Start
  PROVE  IInv'
<1>1. UNCHANGED <<pBindInfo, signaled, loop, queue>> /\ pc = "start" /\ pc' = "loop"
  BY DEF Start
<1>2. queue_operations' = queue_operations BY <1>1, SameCall
<1>3. Progress' BY <1>1, <1>2 DEF IInv, Progress, loop
<1>4. QED BY <1>1, <1>2, <1>3, Continues DEF IInv, InCall, loop

\* The bind of the driver, whether it fails or not.
LEMMA BindCallGives ==
  ASSUME Callable, NEW first \in Nat, NEW n \in Nat, NEW fence \in BOOLEAN,
         NEW result, Given(queue, first), BindCall(first, n, fence, result)
  PROVE  /\ result \in Results
         /\ result = "VK_SUCCESS" => /\ Given(queue', first + n)
                                     /\ Fenced(queue') <=> Fenced(queue) \/ fence
         /\ result # "VK_SUCCESS" => queue' = queue
  BY BindGives DEF BindCall, Results

LEMMA BindCallFences ==
  ASSUME Callable, NEW first \in Nat, NEW n \in Nat,
         NEW result, Given(queue, first), BindCall(first, n, TRUE, result),
         result = "VK_SUCCESS"
  PROVE  Given(queue', first + n) /\ Fenced(queue')
<1>1. ASSUME Bind(first, n, TRUE) PROVE Given(queue', first + n) /\ Fenced(queue')
  <2>1. Given(queue', first + n) BY <1>1, BindGives
  <2>2. Fenced(queue') BY <1>1, BindGives
  <2>3. QED BY <2>1, <2>2
<1>2. QED BY <1>1 DEF BindCall

LEMMA PassOnKeeps ==
  ASSUME IInv, PassOn
  PROVE  IInv'
<1>1. pc = "start" /\ Callable /\ Progress /\ InCall /\ i = 1
  BY DEF PassOn, IInv, InCall
<1>2. next_bind_sparse_info_index = 0 /\ Given(queue, 0) /\ bindInfoCount \in Nat
  BY <1>1, Positions DEF InCall
<1>3. PICK result \in Results :
        /\ BindCall(0, bindInfoCount, TRUE, result)
        /\ last_bind_result' = result
  BY DEF PassOn
<1>4. /\ result = "VK_SUCCESS" => Given(queue', bindInfoCount) /\ Fenced(queue')
      /\ result # "VK_SUCCESS" => Given(queue', 0)
  <2>1. 0 + bindInfoCount = bindInfoCount BY <1>2
  <2>2. ASSUME result = "VK_SUCCESS"
        PROVE  Given(queue', 0 + bindInfoCount) /\ Fenced(queue')
    BY <1>1, <1>2, <1>3, <2>2, BindCallFences
  <2>3. result # "VK_SUCCESS" => queue' = queue BY <1>3 DEF BindCall
  <2>4. QED BY <1>2, <2>1, <2>2, <2>3
<1>5. QED BY <1>3, <1>4, Returns DEF PassOn

LEMMA CountBindInfoKeeps ==
  ASSUME IInv, CountBindInfo
  PROVE  IInv'
<1>1. /\ pc = "loop" /\ i <= Len(queue_operations)
      /\ ~IsSubmit(queue_operations[i])
      /\ available_bind_sparse_info_counter' = available_bind_sparse_info_counter + 1
      /\ i' = i + 1
      /\ UNCHANGED <<pBindInfo, signaled, pc, next_bind_sparse_info_index,
                     next_submit_info_index, last_bind_result, queue>>
  BY DEF CountBindInfo, InLoop
<1>2. Callable /\ Progress /\ InCall BY <1>1 DEF IInv
<1>3. queue_operations' = queue_operations BY <1>1, SameCall
<1>4. Binds(queue_operations, i) = Binds(queue_operations, i - 1) + 1
      /\ Len(queue_operations) \in Nat
  BY <1>1, <1>2, Positions
<1>5. i \in Nat /\ i' - 1 = i BY <1>1, <1>2, <1>4 DEF Progress
<1>6. Progress' BY <1>1, <1>2, <1>3, <1>4, <1>5 DEF Progress
<1>7. available_bind_sparse_info_counter' > 0 =>
           i' > 1 /\ ~IsSubmit(queue_operations[i' - 1])
  BY <1>1, <1>2, <1>5 DEF Progress
<1>8. QED BY <1>1, <1>2, <1>6, <1>7, Continues DEF IInv, InCall

LEMMA SendAvailableKeeps ==
  ASSUME IInv, SendAvailable
  PROVE  IInv'
<1> DEFINE a == next_bind_sparse_info_index
           b == available_bind_sparse_info_counter
<1>1. /\ pc = "loop" /\ i <= Len(queue_operations)
      /\ b > 0
      /\ UNCHANGED <<pBindInfo, signaled, i, next_submit_info_index>>
  BY DEF SendAvailable, InLoop
<1>2. Callable /\ Progress /\ InCall BY <1>1 DEF IInv
<1>3. queue_operations' = queue_operations BY <1>1, SameCall
<1>4. a \in Nat /\ b \in Nat /\ a + b \in 0 .. bindInfoCount /\ bindInfoCount \in Nat
  BY <1>2, Positions DEF Progress
<1>5. PICK result \in Results :
       /\ BindCall(a, b, LastIncluded, result)
       /\ last_bind_result' = result
       /\ IF result = "VK_SUCCESS"
            THEN Sent /\ UNCHANGED pc
            ELSE /\ pc' = "rest"
                 /\ UNCHANGED <<next_bind_sparse_info_index,
                                available_bind_sparse_info_counter>>
  BY DEF SendAvailable
<1>6. Given(queue, a) /\ ~Fenced(queue) /\ LastIncluded \in BOOLEAN
  BY <1>1, <1>2, <1>4 DEF InCall, LastIncluded
<1>7. /\ result = "VK_SUCCESS" => /\ Given(queue', a + b)
                                  /\ Fenced(queue') <=> LastIncluded
      /\ result # "VK_SUCCESS" => queue' = queue
  BY <1>2, <1>4, <1>5, <1>6, BindCallGives
<1>8. CASE result = "VK_SUCCESS"
  <2>1. a' = a + b /\ b' = 0 /\ pc' = "loop" BY <1>1, <1>5, <1>8 DEF Sent
  <2>2. Progress' BY <1>1, <1>2, <1>3, <1>4, <2>1 DEF Progress
  <2>3. QED
    BY <1>1, <1>4, <1>5, <1>7, <1>8, <2>1, <2>2, Continues DEF LastIncluded
<1>9. CASE result # "VK_SUCCESS"
  <2>1. a' = a /\ b' = b /\ pc' = "rest" /\ queue' = queue BY <1>5, <1>7, <1>9
  <2>2. Progress' BY <1>1, <1>2, <1>3, <1>4, <2>1 DEF Progress
  <2>3. QED BY <1>1, <1>2, <1>3, <1>5, <1>9, <2>1, <2>2, Continues DEF InCall
<1>10. QED BY <1>8, <1>9

\* The helper at the loop's position leaves the semaphores as they are, where
\* the queue has taken all bind infos before it.
LEMMA HelperGives ==
  ASSUME Callable, Progress, i <= Len(queue_operations),
         IsSubmit(queue_operations[i]),
         available_bind_sparse_info_counter = 0,
         Given(queue, next_bind_sparse_info_index),
         queue' = Append(queue, queue_operations[i])
  PROVE  /\ Given(queue', next_bind_sparse_info_index)
         /\ Fenced(queue') <=> Fenced(queue)
<1> DEFINE q == queue_operations
           n == next_bind_sparse_info_index
           op == q[i]
<1>1. Expanded(q, bindInfoCount) BY OperationsExpanded DEF Callable
<1>2. /\ i \in 1 .. Len(q) /\ n \in Nat /\ Binds(q, i - 1) = n
      /\ Len(q) \in Nat /\ q \in Seq(Operations)
  BY <1>1 DEF Progress, Expanded
<1>3. Binds(q, i) = n BY <1>2, Positions
<1>4. op \in Operations BY <1>2, ElementOfSeq
<1>5. After(n) \subseteq Binary /\ Possible(BindInfo(n + 1), After(n))
  BY <1>2, AfterSteps
<1>6. \/ Idle(op) /\ ~op.fence
      \/ n < bindInfoCount /\ op = WaitHelper(pBindInfo[n + 1])
  BY <1>1, <1>2, <1>3 DEF Expanded
<1> HIDE DEF q, op
<1>7. /\ ~op.fence
      /\ Possible(op, After(n))
      /\ (After(n) \ op.waits) \cup (op.signals \cap Binary) = After(n)
  <2>1. CASE Idle(op) /\ ~op.fence
    BY <1>5, <2>1 DEF Idle, Possible
  <2>2. CASE n < bindInfoCount /\ op = WaitHelper(pBindInfo[n + 1])
    <3> DEFINE b == pBindInfo[n + 1]
    <3>1. BindInfo(n + 1) = b
      <4>1. n + 1 <= bindInfoCount
        BY <1>2, <2>2 DEF Callable, Call
      <4>2. QED BY <4>1 DEF BindInfo
    <3>2. op.waits = b.waits /\ op.signals = b.waits \cap Binary /\ ~op.fence
      BY <2>2 DEF WaitHelper, Operation
    <3> HIDE DEF b
    <3>3. b.waits \cap Binary \subseteq After(n) BY <1>5, <3>1 DEF Possible
    <3>4. QED BY <1>5, <3>2, <3>3 DEF Possible
  <2>3. QED BY <1>6, <2>1, <2>2
<1>8. IsSubmit(op) /\ queue' = Append(queue, op) BY DEF q, op
<1>9. /\ Given(Append(queue, op), n)
      /\ Fenced(Append(queue, op)) <=> Fenced(queue) \/ op.fence
  BY <1>2, <1>4, <1>7, <1>8, GivenOneMore
<1>10. QED BY <1>7, <1>8, <1>9

LEMMA SendHelperKeeps ==
  ASSUME IInv, SendHelper
  PROVE  IInv'
<1>1. /\ pc = "loop" /\ i <= Len(queue_operations)
      /\ IsSubmit(queue_operations[i])
      /\ available_bind_sparse_info_counter = 0
      /\ UNCHANGED <<pBindInfo, signaled, next_bind_sparse_info_index,
                     available_bind_sparse_info_counter, last_bind_result>>
  BY DEF SendHelper, InLoop
<1>2. Callable /\ Progress /\ InCall BY <1>1 DEF IInv
<1>3. queue_operations' = queue_operations BY <1>1, SameCall
<1>4. Binds(queue_operations, i) = Binds(queue_operations, i - 1)
      /\ Len(queue_operations) \in Nat
  BY <1>1, <1>2, Positions
<1>5. i \in Nat BY <1>2, <1>4 DEF Progress
<1>6. CASE /\ queue' = Append(queue, queue_operations[i])
           /\ next_submit_info_index' = next_submit_info_index + 1
           /\ i' = i + 1
           /\ UNCHANGED pc
  <2>1. Given(queue', next_bind_sparse_info_index)
        /\ (Fenced(queue') <=> Fenced(queue))
    BY <1>1, <1>2, <1>6, HelperGives DEF InCall
  <2>2. i' - 1 = i BY <1>5, <1>6
  <2>3. Progress' BY <1>1, <1>2, <1>3, <1>4, <1>5, <1>6, <2>2 DEF Progress
  <2>4. QED
    BY <1>1, <1>2, <1>6, <2>1, <2>3, Continues DEF IInv, InCall
<1>7. CASE pc' = "rest" /\ UNCHANGED <<queue, next_submit_info_index, i>>
  <2>1. Progress' BY <1>1, <1>2, <1>3, <1>7 DEF Progress
  <2>2. QED BY <1>1, <1>2, <1>7, <2>1, Continues DEF IInv, InCall
<1>8. QED BY <1>6, <1>7 DEF SendHelper

LEMMA LoopEndsKeeps ==
  ASSUME IInv, LoopEnds
  PROVE  IInv'
<1>1. /\ pc = "loop" /\ i > Len(queue_operations) /\ pc' = "rest"
      /\ UNCHANGED <<pBindInfo, signaled, loop, queue>>
  BY DEF LoopEnds
<1>2. Callable /\ Progress /\ InCall BY <1>1 DEF IInv
<1>3. queue_operations' = queue_operations BY <1>1, SameCall
<1>4. Progress' BY <1>1, <1>2, <1>3 DEF Progress, loop
<1>5. Len(queue_operations) \in Nat BY <1>2, Positions
<1>6. i' = Len(queue_operations) + 1 BY <1>1, <1>2, <1>5 DEF Progress, loop
<1>7. QED BY <1>1, <1>2, <1>4, <1>6, Continues DEF IInv, InCall, loop

\* What is sent at the end: all the rest, unless a helper failed that was not
\* the first operation.
LEMMA RestGiven ==
  ASSUME Callable, Progress, InCall, pc = "rest",
         last_bind_result = "VK_SUCCESS", Remaining
  PROVE  /\ RestCount \in Nat
         /\ \/ HelperFailed
            \/ /\ next_bind_sparse_info_index = 0
               /\ RestCount = bindInfoCount
<1>1. /\ next_bind_sparse_info_index \in Nat
      /\ available_bind_sparse_info_counter \in Nat
      /\ bindInfoCount \in Nat
      /\ next_submit_info_index \in Nat
      /\ i \in 1 .. Len(queue_operations) + 1
      /\ Len(queue_operations) \in Nat
  BY Positions DEF Progress
<1>2. i # Len(queue_operations) + 1 BY <1>1, Positions DEF Remaining
<1>3. available_bind_sparse_info_counter = 0 BY <1>2 DEF InCall
<1>4. CASE i = 1
  <2>1. next_bind_sparse_info_index = 0 /\ next_submit_info_index = 0
    BY <1>4, Positions
  <2>2. QED BY <1>1, <2>1 DEF RestCount
<1>5. CASE i # 1
  <2>1. HelperFailed BY <1>1, <1>2, <1>3, <1>5 DEF HelperFailed
  <2>2. QED BY <1>1, <2>1 DEF RestCount
<1>6. QED BY <1>4, <1>5

LEMMA SendRestAfterFailureKeeps ==
  ASSUME IInv, SendRestAfterFailure
  PROVE  IInv'
<1> DEFINE n == bindInfoCount - next_bind_sparse_info_index
<1>1. pc = "rest" /\ Callable /\ Progress /\ InCall
  BY DEF SendRestAfterFailure, IInv
<1>2. n \in Nat /\ next_bind_sparse_info_index + n = bindInfoCount
      /\ next_bind_sparse_info_index \in Nat
  BY <1>1, Positions DEF Progress
<1>3. PICK result \in Results :
        /\ BindCall(next_bind_sparse_info_index, n, TRUE, result)
        /\ last_bind_result' = result
  BY DEF SendRestAfterFailure
<1> HIDE DEF n
<1>4. /\ result = "VK_SUCCESS" => Given(queue', bindInfoCount) /\ Fenced(queue')
      /\ result # "VK_SUCCESS" => Given(queue', next_bind_sparse_info_index)
  <2>1. Given(queue, next_bind_sparse_info_index) BY <1>1 DEF InCall
  <2>2. ASSUME result = "VK_SUCCESS"
        PROVE  Given(queue', next_bind_sparse_info_index + n) /\ Fenced(queue')
    BY <1>1, <1>2, <1>3, <2>1, <2>2, BindCallFences
  <2>3. result # "VK_SUCCESS" => queue' = queue BY <1>3 DEF BindCall
  <2>4. QED BY <1>2, <2>1, <2>2, <2>3
<1>5. QED BY <1>3, <1>4, Returns DEF SendRestAfterFailure

LEMMA SendRestKeeps ==
  ASSUME IInv, SendRest
  PROVE  IInv'
<1> DEFINE a == next_bind_sparse_info_index
<1>1. pc = "rest" /\ Callable /\ Progress /\ InCall
      /\ last_bind_result = "VK_SUCCESS" /\ Remaining
  BY DEF SendRest, IInv
<1>2. a \in Nat /\ Given(queue, a) BY <1>1 DEF Progress, InCall
<1>3. RestCount \in Nat /\ (HelperFailed \/ (a = 0 /\ RestCount = bindInfoCount))
  BY <1>1, RestGiven
<1>4. PICK result \in Results :
        BindCall(a, RestCount, TRUE, result) /\ last_bind_result' = result
  BY DEF SendRest
<1>5. /\ result = "VK_SUCCESS" => Given(queue', a + RestCount) /\ Fenced(queue')
      /\ result # "VK_SUCCESS" => Given(queue', a)
  <2>1. ASSUME result = "VK_SUCCESS"
        PROVE  Given(queue', a + RestCount) /\ Fenced(queue')
    BY <1>1, <1>2, <1>3, <1>4, <2>1, BindCallFences
  <2>2. result # "VK_SUCCESS" => queue' = queue BY <1>4 DEF BindCall
  <2>3. QED BY <1>2, <2>1, <2>2
<1>6. HelperFailed => HelperFailed'
  <2>1. queue_operations' = queue_operations BY SameCall DEF SendRest
  <2>2. QED BY <2>1 DEF HelperFailed, SendRest
<1>7. a = 0 /\ RestCount = bindInfoCount => a + RestCount = bindInfoCount
  <2>1. bindInfoCount \in Nat BY <1>1, Positions
  <2>2. QED BY <1>2, <2>1
<1>8. CASE result = "VK_SUCCESS"
  <2> DEFINE n == a + RestCount
  <2>1. Given(queue', n) /\ Fenced(queue') /\ (HelperFailed' \/ n = bindInfoCount)
    BY <1>3, <1>5, <1>6, <1>7, <1>8
  <2> HIDE DEF n
  <2>2. QED BY <1>4, <2>1, Returns DEF SendRest
<1>9. CASE result # "VK_SUCCESS"
  BY <1>4, <1>5, <1>9, Returns DEF SendRest
<1>10. QED BY <1>8, <1>9

LEMMA NothingRemainsKeeps ==
  ASSUME IInv, NothingRemains
  PROVE  IInv'
<1> DEFINE a == next_bind_sparse_info_index
           b == available_bind_sparse_info_counter
           q == queue_operations
           c == bindInfoCount
<1>1. /\ pc = "rest" /\ Callable /\ Progress /\ InCall /\ ~Remaining
      /\ last_bind_result = "VK_SUCCESS" /\ pc' = "returned"
      /\ UNCHANGED <<pBindInfo, signaled, loop, queue>>
  BY DEF NothingRemains, IInv
<1>2. a \in Nat /\ b \in Nat /\ c \in Nat /\ a + b = c
  BY <1>1, Positions DEF Progress, Remaining
<1>3. a = c \/ pBindInfo[c].signals = {}
  <2> SUFFICES ASSUME pBindInfo[c].signals # {}, b > 0 PROVE FALSE
    BY <1>2
  <2>1. i = Len(q) + 1 /\ ~IsSubmit(q[i - 1]) BY <1>1 DEF InCall
  <2>2. IsSubmit(q[Len(q)]) BY <1>1, OperationsExpanded DEF Callable
  <2>3. Len(q) \in Nat BY <1>1, Positions
  <2>4. i - 1 = Len(q) BY <2>1, <2>3
  <2>5. QED BY <2>1, <2>2, <2>4
<1>4. Given(queue', a) /\ (Fenced(queue') <=> a = c) BY <1>1 DEF InCall
<1>5. last_bind_result' \in Results BY <1>1 DEF loop, Results
<1>6. UNCHANGED <<pBindInfo, signaled, i, next_bind_sparse_info_index,
                  available_bind_sparse_info_counter, next_submit_info_index>>
  BY <1>1 DEF loop
<1>7. QED BY <1>1, <1>3, <1>4, <1>5, <1>6, Returns

LEMMA NextKeeps == IInv /\ [Next]_vars => IInv'
<1> SUFFICES ASSUME IInv, [Next]_vars PROVE IInv' OBVIOUS
<1>1. CASE Start BY <1>1, StartKeeps
<1>2. CASE PassOn BY <1>2, PassOnKeeps
<1>3. CASE CountBindInfo BY <1>3, CountBindInfoKeeps
<1>4. CASE SendAvailable BY <1>4, SendAvailableKeeps
<1>5. CASE SendHelper BY <1>5, SendHelperKeeps
<1>6. CASE LoopEnds BY <1>6, LoopEndsKeeps
<1>7. CASE SendRestAfterFailure BY <1>7, SendRestAfterFailureKeeps
<1>8. CASE SendRest BY <1>8, SendRestKeeps
<1>9. CASE NothingRemains BY <1>9, NothingRemainsKeeps
<1>10. CASE UNCHANGED vars
  <2>1. /\ UNCHANGED <<pBindInfo, signaled, pc, i, next_bind_sparse_info_index,
                       available_bind_sparse_info_counter,
                       next_submit_info_index, last_bind_result, queue>>
    BY <1>10 DEF vars, loop
  <2>2. /\ bindInfoCount' = bindInfoCount /\ queue_operations' = queue_operations
        /\ Callable' /\ \A n : Given(queue', n) => Given(queue, n)'
        /\ Given(queue', next_bind_sparse_info_index') =>
             Given(queue, next_bind_sparse_info_index)'
    BY <2>1, SameCall DEF IInv
  <2>3. Given(queue', Binds(queue, Len(queue))) BY <2>1 DEF IInv
  <2>4. Given(queue, Binds(queue, Len(queue)))' BY <2>1, <2>2, <2>3 DEF Given
  <2>5. pc # "returned" => InCall'
    <3>1. CASE pc # "returned"
      <4>1. InCall BY <3>1 DEF IInv
      <4>2. Given(queue', next_bind_sparse_info_index') BY <2>1, <4>1 DEF InCall
      <4>3. QED BY <2>1, <2>2, <4>1, <4>2 DEF InCall
    <3>2. QED BY <3>1
  <2>6. Progress' BY <2>1, <2>2 DEF IInv, Progress
  <2>7. SignalingCallIsComplete'
    BY <2>1, <2>2 DEF IInv, SignalingCallIsComplete, HelperFailed, Taken
  <2>8. QED BY <2>1, <2>2, <2>4, <2>5, <2>6, <2>7 DEF IInv
<1>11. QED
  BY <1>1, <1>2, <1>3, <1>4, <1>5, <1>6, <1>7, <1>8, <1>9, <1>10 DEF Next

LEMMA Invariance == Spec => []IInv
  BY InitIInv, NextKeeps, PTL DEF Spec

-----------------------------------------------------------------------------
(* The theorems.                                                           *)

\* The state of a call keeps its types, and its indices stay within the bind
\* infos and the helpers of the call (QueueBindSparse in gfr.cc).
THEOREM TypeCorrect == Spec => []TypeOK
  BY Invariance, TypesFollow, PTL

\* The queue takes the bind infos in the order of the array, none twice and none
\* left out before another, whichever calls of the driver fail.
THEOREM BindsStayInOrder == Spec => []InOrder
<1>1. IInv => InOrder BY DEF IInv, Given, InOrder
<1>2. QED BY <1>1, Invariance, PTL

\* The helpers and the pieces of a split call keep the binary semaphores paired
\* wherever the application's own call does (ExpandBindSparseInfo).
THEOREM SemaphoresStayPaired == Spec => []HelpersKeepSemaphores
<1>1. IInv => HelpersKeepSemaphores BY DEF IInv, Given, HelpersKeepSemaphores
<1>2. QED BY <1>1, Invariance, PTL

\* A call that returns VK_SUCCESS, and whose last bind info signals, has given
\* the queue all of it and the fence, unless a helper failed.
THEOREM SignalingCallsComplete == Spec => []SignalingCallIsComplete
<1>1. IInv => SignalingCallIsComplete BY DEF IInv
<1>2. QED BY <1>1, Invariance, PTL

\* The bind infos that the queue has taken, counted.
LEMMA GivenCounts ==
  ASSUME NEW n \in Nat
  PROVE  /\ Given(queue, n) => Cardinality(Taken) = n
         /\ Given(queue', n) => Cardinality(Taken)' = n
<1>1. ASSUME Given(queue, n) PROVE Cardinality(Taken) = n
  <2>1. Taken = 1 .. n BY <1>1 DEF Given, Taken
  <2>2. QED BY <2>1, FS_Interval
<1>2. ASSUME Given(queue', n) PROVE Cardinality(Taken)' = n
  <2>1. Taken' = 1 .. n BY <1>2 DEF Given, Taken
  <2>2. QED BY <2>1, FS_Interval
<1>3. QED BY <1>1, <1>2

\* What the abstract variables are, before and after a step.
LEMMA Mapped ==
  /\ (\E k \in 1 .. Len(queue) : queue[k].fence) <=> Fenced(queue)
  /\ (\E k \in 1 .. Len(queue) : queue[k].fence)' <=> Fenced(queue')
  BY DEF Fenced

\* A step that gives the queue the bind infos up to m, the fence if m is the last.
LEMMA Gives ==
  ASSUME Callable, NEW n \in Nat, NEW m \in Nat, n < m, m <= bindInfoCount,
         Given(queue, n), Given(queue', m), ~Fenced(queue),
         Fenced(queue') <=> m = bindInfoCount,
         UNCHANGED pBindInfo
  PROVE  Sparse!Give
<1>1. Cardinality(Taken) = n /\ Cardinality(Taken)' = m BY GivenCounts
<1>2. bindInfoCount' = bindInfoCount BY DEF bindInfoCount
<1>3. bindInfoCount \in Nat BY DEF Callable, Call
<1>4. Cardinality(Taken)' \in Cardinality(Taken) + 1 .. bindInfoCount
  BY <1>1, <1>3
<1>5. (\E k \in 1 .. Len(queue) : queue[k].fence)' = (Cardinality(Taken)' = bindInfoCount)
  BY <1>1, Mapped
<1>6. QED BY <1>2, <1>4, <1>5 DEF Sparse!Give

\* A step that gives the queue nothing.
LEMMA GivesNothing ==
  ASSUME Callable, NEW n \in Nat, Given(queue, n), Given(queue', n),
         Fenced(queue') <=> Fenced(queue), UNCHANGED pBindInfo
  PROVE  UNCHANGED Sparse!vars
<1>1. Cardinality(Taken) = n /\ Cardinality(Taken)' = n BY GivenCounts
<1>2. bindInfoCount' = bindInfoCount BY DEF bindInfoCount
<1>3. (\E k \in 1 .. Len(queue) : queue[k].fence)'
        = \E k \in 1 .. Len(queue) : queue[k].fence
  BY Mapped
<1>4. QED BY <1>1, <1>2, <1>3 DEF Sparse!vars

LEMMA SameQueueGivesNothing ==
  ASSUME UNCHANGED <<pBindInfo, queue>>
  PROVE  UNCHANGED Sparse!vars
  BY DEF Sparse!vars, Taken, bindInfoCount

\* Each step of a split call gives the queue the next bind infos in order, with
\* the fence if they are the last, or nothing; except after a helper failed.
THEOREM SplitRefines == Spec => BindsAsAsked
<1>1. Init => Sparse!Init
  <2> SUFFICES ASSUME Init PROVE Sparse!Init OBVIOUS
  <2>1. IInv BY InitIInv
  <2>2. Given(queue, 0)
    BY <2>1 DEF Init, IInv, InCall
  <2>3. Cardinality(Taken) = 0 BY <2>2, GivenCounts
  <2>4. bindInfoCount \in Nat BY <2>1 DEF IInv, Callable, Call
  <2>5. (\E k \in 1 .. Len(queue) : queue[k].fence) = FALSE BY DEF Init
  <2>6. QED BY <2>3, <2>4, <2>5 DEF Sparse!Init
<1>2. IInv /\ [Next]_vars => [Sparse!Give \/ HelperFailed]_(Sparse!vars)
  <2> SUFFICES ASSUME IInv, [Next]_vars
               PROVE  Sparse!Give \/ HelperFailed \/ UNCHANGED Sparse!vars
    OBVIOUS
  <2> DEFINE a == next_bind_sparse_info_index
             b == available_bind_sparse_info_counter
             c == bindInfoCount
  <2>1. Callable /\ Progress BY DEF IInv
  <2>2. a \in Nat /\ b \in Nat /\ c \in Nat /\ a + b <= c /\ c > 0
    BY <2>1, Positions DEF Progress
  <2>3. pc # "returned" => Given(queue, a) /\ (Fenced(queue) <=> a = c)
    BY DEF IInv, InCall
  <2>4. CASE Start BY <2>4, SameQueueGivesNothing DEF Start
  <2>5. CASE PassOn
    <3>1. pc = "start" /\ a = 0
      BY <2>1, <2>5, Positions DEF PassOn, IInv, InCall
    <3>2. PICK result \in Results : BindCall(0, c, TRUE, result)
      BY <2>5 DEF PassOn
    <3>3. CASE result = "VK_SUCCESS"
      <4>1. Given(queue, 0) /\ ~Fenced(queue) BY <2>2, <2>3, <3>1
      <4>2. Given(queue', 0 + c) /\ Fenced(queue')
        BY <2>1, <2>2, <3>2, <3>3, <4>1, BindCallFences
      <4>3. 0 + c = c BY <2>2
      <4>4. UNCHANGED pBindInfo BY <2>5 DEF PassOn
      <4>5. QED BY <2>1, <2>2, <4>1, <4>2, <4>3, <4>4, Gives
    <3>4. CASE result # "VK_SUCCESS"
      BY <2>5, <3>2, <3>4, SameQueueGivesNothing DEF BindCall, PassOn
    <3>5. QED BY <3>3, <3>4
  <2>6. CASE CountBindInfo BY <2>6, SameQueueGivesNothing DEF CountBindInfo
  <2>7. CASE SendAvailable
    <3>1. pc = "loop" /\ b > 0 /\ UNCHANGED pBindInfo
      BY <2>7 DEF SendAvailable, InLoop
    <3>2. PICK result \in Results : BindCall(a, b, LastIncluded, result)
      BY <2>7 DEF SendAvailable
    <3>3. CASE result = "VK_SUCCESS"
      <4>1. Given(queue, a) /\ ~Fenced(queue) /\ LastIncluded \in BOOLEAN
        BY <2>2, <2>3, <3>1 DEF LastIncluded
      <4>2. Given(queue', a + b) /\ (Fenced(queue') <=> a + b = c)
        BY <2>1, <2>2, <3>2, <3>3, <4>1, BindCallGives DEF LastIncluded
      <4>3. a + b \in Nat /\ a < a + b BY <2>2, <3>1
      <4>4. QED BY <2>1, <2>2, <3>1, <4>1, <4>2, <4>3, Gives
    <3>4. CASE result # "VK_SUCCESS"
      BY <3>1, <3>2, <3>4, SameQueueGivesNothing DEF BindCall
    <3>5. QED BY <3>3, <3>4
  <2>8. CASE SendHelper
    <3>1. /\ pc = "loop" /\ UNCHANGED pBindInfo /\ b = 0
          /\ i <= Len(queue_operations) /\ IsSubmit(queue_operations[i])
      BY <2>8 DEF SendHelper, InLoop
    <3>2. CASE queue' = Append(queue, queue_operations[i])
      <4>1. Given(queue, a) BY <2>3, <3>1
      <4>2. Given(queue', a) /\ (Fenced(queue') <=> Fenced(queue))
        BY <2>1, <3>1, <3>2, <4>1, HelperGives
      <4>3. QED BY <2>1, <2>2, <3>1, <4>1, <4>2, GivesNothing
    <3>3. CASE UNCHANGED queue BY <3>1, <3>3, SameQueueGivesNothing
    <3>4. QED BY <2>8, <3>2, <3>3 DEF SendHelper
  <2>9. CASE LoopEnds BY <2>9, SameQueueGivesNothing DEF LoopEnds
  <2>10. CASE SendRestAfterFailure
    <3>1. pc = "rest" /\ UNCHANGED pBindInfo /\ b > 0
      BY <2>10 DEF SendRestAfterFailure, IInv, InCall
    <3>2. PICK result \in Results : BindCall(a, c - a, TRUE, result)
      BY <2>10 DEF SendRestAfterFailure
    <3>3. CASE result = "VK_SUCCESS"
      <4>1. Given(queue, a) /\ ~Fenced(queue) BY <2>2, <2>3, <3>1
      <4>2. c - a \in Nat BY <2>2
      <4>3. Given(queue', a + (c - a)) /\ Fenced(queue')
        BY <2>1, <2>2, <3>2, <3>3, <4>1, <4>2, BindCallFences
      <4>4. a + (c - a) = c /\ a < c BY <2>2, <3>1
      <4>5. QED BY <2>1, <2>2, <3>1, <4>1, <4>3, <4>4, Gives
    <3>4. CASE result # "VK_SUCCESS"
      BY <3>1, <3>2, <3>4, SameQueueGivesNothing DEF BindCall
    <3>5. QED BY <3>3, <3>4
  <2>11. CASE SendRest
    <3>1. pc = "rest" /\ UNCHANGED pBindInfo /\ Remaining
          /\ last_bind_result = "VK_SUCCESS" /\ InCall
      BY <2>11 DEF SendRest, IInv
    <3>2. RestCount \in Nat /\ (HelperFailed \/ (a = 0 /\ RestCount = c))
      BY <2>1, <3>1, RestGiven
    <3>3. PICK result \in Results : BindCall(a, RestCount, TRUE, result)
      BY <2>11 DEF SendRest
    <3>4. CASE result = "VK_SUCCESS" /\ a = 0 /\ RestCount = c
      <4>1. Given(queue, a) /\ ~Fenced(queue) BY <2>2, <2>3, <3>1, <3>4
      <4>2. Given(queue', a + RestCount) /\ Fenced(queue')
        BY <2>1, <2>2, <3>2, <3>3, <3>4, <4>1, BindCallFences
      <4>3. a + RestCount = c /\ a < c BY <2>2, <3>4
      <4>4. QED BY <2>1, <2>2, <3>1, <4>1, <4>2, <4>3, Gives
    <3>5. CASE result # "VK_SUCCESS"
      BY <3>1, <3>3, <3>5, SameQueueGivesNothing DEF BindCall
    <3>6. QED BY <3>2, <3>4, <3>5
  <2>12. CASE NothingRemains BY <2>12, SameQueueGivesNothing DEF NothingRemains
  <2>13. CASE UNCHANGED vars BY <2>13, SameQueueGivesNothing DEF vars
  <2>14. QED
    BY <2>4, <2>5, <2>6, <2>7, <2>8, <2>9, <2>10, <2>11, <2>12, <2>13 DEF Next
<1>3. QED BY <1>1, <1>2, Invariance, PTL DEF Spec, BindsAsAsked
=============================================================================
