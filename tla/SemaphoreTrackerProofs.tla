------------------------ MODULE SemaphoreTrackerProofs ------------------------
(***************************************************************************)
(* SemaphoreTracker, for every number of threads, queues and semaphores,   *)
(* in builds with thread ids and without: what waiting_threads_ has of the *)
(* threads in vkWaitSemaphores, and that the state, the commands in the    *)
(* queues included, keeps its types.                                       *)
(***************************************************************************)
EXTENDS SemaphoreTracker, SequenceTheorems, FiniteSetTheorems,
        WellFoundedInduction, TLAPS

Entries == [tid : Threads \cup {NoTid}, s : Timeline, value : Values]

\* A call has three fields.
CallsHaveShape ==
  \A t \in Threads : call[t] = [pc |-> call[t].pc, s |-> call[t].s, value |-> call[t].value]

\* With thread ids, a thread has an entry from Pre to Post hook, and while it is blocked one
\* with what it waits for.  It may have older ones, of waits that failed.
EntryKept ==
  \A t \in Threads :
    /\ call[t].pc = "wait" =>
         \E w \in ToSet(waiting_threads_) :
           w.tid = t /\ w.s \in call[t].s /\ w.value = call[t].value
    /\ call[t].pc \in {"update", "write"} =>
         \E w \in ToSet(waiting_threads_) : w.tid = t

\* Without, the entries are all alike in their ids.
OneTid == \A w \in ToSet(waiting_threads_) : w.tid = NoTid

\* The list is as long as there are threads that wait, at least.
LongEnough ==
  IsFiniteSet(Waiters) /\ Cardinality(Waiters) <= Len(waiting_threads_)

WaitInv ==
  /\ sys_gettid \in BOOLEAN
  /\ waiting_threads_ \in Seq(Entries)
  /\ call = [t \in Threads |-> call[t]]
  /\ CallsHaveShape
  /\ sys_gettid => EntryKept
  /\ ~sys_gettid => OneTid
  /\ LongEnough

Waits == {"wait", "update", "write"}
Num(b) == IF b THEN 1 ELSE 0

\* A list without its k-th element has the others.
LEMMA RemoveAtKeeps ==
  ASSUME NEW S, NEW s \in Seq(S), NEW k \in 1 .. Len(s)
  PROVE  /\ RemoveAt(s, k) \in Seq(S) /\ Len(RemoveAt(s, k)) = Len(s) - 1
         /\ \A i \in 1 .. Len(s) - 1 : \E j \in 1 .. Len(s) : RemoveAt(s, k)[i] = s[j]
         /\ \A i \in 1 .. Len(s) : i # k => s[i] \in ToSet(RemoveAt(s, k))
<1> DEFINE f == SubSeq(s, 1, k - 1)
           b == SubSeq(s, k + 1, Len(s))
<1>1. /\ f \in Seq(S) /\ Len(f) = k - 1
      /\ \A i \in 1 .. k - 1 : f[i] = s[i]
  OBVIOUS
<1>2. /\ b \in Seq(S) /\ Len(b) = Len(s) - k
      /\ \A i \in 1 .. Len(s) - k : b[i] = s[k + i]
  OBVIOUS
<1>3. RemoveAt(s, k) = f \o b BY DEF RemoveAt
<1> HIDE DEF f, b
<1> DEFINE r == f \o b
<1>4. /\ r \in Seq(S) /\ Len(r) = Len(f) + Len(b)
      /\ \A i \in 1 .. Len(f) + Len(b) : r[i] = IF i <= Len(f) THEN f[i] ELSE b[i - Len(f)]
  BY <1>1, <1>2, ConcatProperties
<1> HIDE DEF r
<1>5. ASSUME NEW i \in 1 .. Len(s), i # k PROVE \E j \in 1 .. Len(r) : r[j] = s[i]
  <2>1. CASE i < k
    <3>1. i \in 1 .. Len(r) /\ i <= Len(f) BY <1>1, <1>2, <1>4, <2>1
    <3>2. r[i] = s[i] BY <1>1, <1>4, <2>1, <3>1
    <3>3. QED BY <3>1, <3>2
  <2>2. CASE i > k
    <3>1. /\ i - 1 \in 1 .. Len(r) /\ ~(i - 1 <= Len(f))
          /\ i - 1 - Len(f) \in 1 .. Len(s) - k /\ k + (i - 1 - Len(f)) = i
      BY <1>1, <1>2, <1>4, <2>2
    <3>2. r[i - 1] = s[i] BY <1>2, <1>4, <3>1
    <3>3. QED BY <3>1, <3>2
  <2>3. QED BY <1>5, <2>1, <2>2
<1>6. \A i \in 1 .. Len(s) : i # k => s[i] \in ToSet(r) BY <1>5 DEF ToSet
<1>7. Len(r) = Len(s) - 1 BY <1>1, <1>2, <1>4
<1>8. ASSUME NEW i \in 1 .. Len(s) - 1 PROVE \E j \in 1 .. Len(s) : r[i] = s[j]
  <2>1. CASE i < k BY <1>1, <1>4, <1>7, <2>1
  <2>2. CASE i >= k
    <3>1. /\ i \in 1 .. Len(f) + Len(b) /\ ~(i <= Len(f))
          /\ i - Len(f) \in 1 .. Len(s) - k /\ k + (i - Len(f)) \in 1 .. Len(s)
      BY <1>1, <1>2, <2>2
    <3>2. r[i] = s[k + (i - Len(f))] BY <1>2, <1>4, <3>1
    <3>3. QED BY <3>1, <3>2
  <2>3. QED BY <2>1, <2>2
<1>9. QED BY <1>3, <1>4, <1>6, <1>7, <1>8 DEF r

\* EndWaitOnSemaphores takes one entry with the thread's id.
LEMMA RemoveEntryKeeps ==
  ASSUME waiting_threads_ \in Seq(Entries), NEW t \in Threads,
         \E w \in ToSet(waiting_threads_) : w.tid = Tid(t)
  PROVE  /\ RemoveEntry(t) \in Seq(Entries)
         /\ Len(RemoveEntry(t)) = Len(waiting_threads_) - 1
         /\ \A w \in ToSet(RemoveEntry(t)) : w \in ToSet(waiting_threads_)
         /\ \A w \in ToSet(waiting_threads_) : w.tid # Tid(t) => w \in ToSet(RemoveEntry(t))
<1> DEFINE I == {i \in 1 .. Len(waiting_threads_) : waiting_threads_[i].tid = Tid(t)}
<1>1. I # {} BY DEF ToSet
<1>2. PICK k : k = Min(I) OBVIOUS
<1>3. k \in I
  <2>1. \E x \in I : \A y \in I : x <= y
    <3>1. I \in SUBSET Nat OBVIOUS
    <3> HIDE DEF I
    <3>2. PICK x \in I : \A y \in I : ~(<<y, x>> \in OpToRel(<, Nat))
      BY <1>1, <3>1, NatLessThanWellFounded, WFMin
    <3>3. \A y \in I : ~(y < x) BY <3>1, <3>2 DEF OpToRel
    <3>4. QED BY <3>1, <3>3
  <2> HIDE DEF I
  <2>2. QED BY <1>2, <2>1 DEF Min
<1>4. RemoveEntry(t) = RemoveAt(waiting_threads_, k)
  BY <1>1, <1>2 DEF RemoveEntry, SelectInSeq
<1>5. k \in 1 .. Len(waiting_threads_) /\ waiting_threads_[k].tid = Tid(t) BY <1>3
<1> DEFINE r == RemoveEntry(t)
<1>6. /\ r \in Seq(Entries) /\ Len(r) = Len(waiting_threads_) - 1
      /\ \A i \in 1 .. Len(r) : \E j \in 1 .. Len(waiting_threads_) : r[i] = waiting_threads_[j]
      /\ \A i \in 1 .. Len(waiting_threads_) : i # k => waiting_threads_[i] \in ToSet(r)
  <2> HIDE DEF I
  <2> DEFINE q == RemoveAt(waiting_threads_, k)
  <2>1. \A i \in 1 .. Len(waiting_threads_) - 1 :
          \E j \in 1 .. Len(waiting_threads_) : q[i] = waiting_threads_[j]
    BY <1>5, RemoveAtKeeps
  <2> HIDE DEF q
  <2>2. \A i \in 1 .. Len(waiting_threads_) - 1 :
          \E j \in 1 .. Len(waiting_threads_) : r[i] = waiting_threads_[j]
    BY <1>4, <2>1 DEF q
  <2>3. /\ r \in Seq(Entries) /\ Len(r) = Len(waiting_threads_) - 1
        /\ \A i \in 1 .. Len(waiting_threads_) : i # k => waiting_threads_[i] \in ToSet(r)
    BY <1>4, <1>5, RemoveAtKeeps
  <2>4. QED BY <2>2, <2>3
<1> HIDE DEF r, I
<1>7. ASSUME NEW w \in ToSet(r) PROVE w \in ToSet(waiting_threads_)
  <2>1. PICK i \in 1 .. Len(r) : r[i] = w BY <1>6 DEF ToSet
  <2>2. PICK j \in 1 .. Len(waiting_threads_) : waiting_threads_[j] = w BY <1>6, <2>1
  <2>3. QED BY <2>2 DEF ToSet
<1>8. \A w \in ToSet(waiting_threads_) : w.tid # Tid(t) => w \in ToSet(r)
  BY <1>5, <1>6 DEF ToSet
<1>9. QED BY <1>6, <1>7, <1>8 DEF r

\* A thread more or less waits.
LEMMA WaitersStep ==
  ASSUME IsFiniteSet(Waiters), NEW t \in Threads, NEW c,
         call'[t] = c, \A u \in Threads \ {t} : call'[u] = call[u]
  PROVE  /\ IsFiniteSet(Waiters') /\ Cardinality(Waiters) \in Nat
         /\ Cardinality(Waiters') =
              Cardinality(Waiters) + Num(c.pc \in Waits) - Num(t \in Waiters)
<1>1. Cardinality(Waiters) \in Nat BY FS_CardinalityType
<1>2. CASE c.pc \in Waits /\ t \notin Waiters
  <2>1. Waiters' = Waiters \cup {t} BY <1>2 DEF Waiters, Waits
  <2>2. QED BY <1>1, <1>2, <2>1, FS_AddElement DEF Num
<1>3. CASE c.pc \notin Waits /\ t \in Waiters
  <2>1. Waiters' = Waiters \ {t} BY <1>3 DEF Waiters, Waits
  <2>2. /\ IsFiniteSet(Waiters \ {t})
        /\ Cardinality(Waiters \ {t}) = Cardinality(Waiters) - 1
    BY <1>3, FS_RemoveElement
  <2>3. QED BY <1>1, <1>3, <2>1, <2>2 DEF Num
<1>4. CASE (c.pc \in Waits) = (t \in Waiters)
  <2>1. Waiters' = Waiters BY <1>4 DEF Waiters, Waits
  <2>2. QED BY <1>1, <1>4, <2>1 DEF Num
<1>5. QED BY <1>2, <1>3, <1>4

\* A step of one thread's call that leaves the other threads their entries.
LEMMA ThreadStep ==
  ASSUME WaitInv, NEW t \in Threads, NEW c,
         call' = [call EXCEPT ![t] = c],
         c = [pc |-> c.pc, s |-> c.s, value |-> c.value],
         UNCHANGED sys_gettid,
         waiting_threads_' \in Seq(Entries),
         \A w \in ToSet(waiting_threads_') : w \in ToSet(waiting_threads_) \/ w.tid = Tid(t),
         \A w \in ToSet(waiting_threads_) : w.tid # Tid(t) => w \in ToSet(waiting_threads_'),
         c.pc = "wait" /\ sys_gettid =>
           \E w \in ToSet(waiting_threads_') :
             w.tid = t /\ w.s \in c.s /\ w.value = c.value,
         c.pc \in {"update", "write"} /\ sys_gettid =>
           \E w \in ToSet(waiting_threads_') : w.tid = t,
         Len(waiting_threads_') >=
           Len(waiting_threads_) + Num(c.pc \in Waits) - Num(t \in Waiters)
  PROVE  WaitInv'
<1>1. /\ call' = [u \in Threads |-> call'[u]]
      /\ call'[t] = c
      /\ \A u \in Threads \ {t} : call'[u] = call[u]
  BY DEF WaitInv
<1>2. CallsHaveShape' BY <1>1 DEF WaitInv, CallsHaveShape
<1>3. ToSet(waiting_threads_)' = ToSet(waiting_threads_') BY DEF ToSet
<1>4. ASSUME sys_gettid, NEW u \in Threads
      PROVE  /\ call'[u].pc = "wait" =>
                  \E w \in ToSet(waiting_threads_') :
                    w.tid = u /\ w.s \in call'[u].s /\ w.value = call'[u].value
             /\ call'[u].pc \in {"update", "write"} =>
                  \E w \in ToSet(waiting_threads_') : w.tid = u
  <2>1. CASE u = t BY <1>1, <1>4, <2>1
  <2>2. CASE u # t
    <3>1. call'[u] = call[u] /\ Tid(t) # u BY <1>1, <1>4, <2>2 DEF Tid
    <3>2. CASE call[u].pc = "wait"
      <4>1. PICK w \in ToSet(waiting_threads_) :
              w.tid = u /\ w.s \in call[u].s /\ w.value = call[u].value
        BY <1>4, <3>2 DEF WaitInv, EntryKept
      <4>2. QED BY <3>1, <3>2, <4>1
    <3>3. CASE call[u].pc \in {"update", "write"}
      <4>1. PICK w \in ToSet(waiting_threads_) : w.tid = u
        BY <1>4, <3>3 DEF WaitInv, EntryKept
      <4>2. QED BY <3>1, <3>3, <4>1
    <3>4. QED BY <3>1, <3>2, <3>3
  <2>3. QED BY <2>1, <2>2
<1>5. sys_gettid => EntryKept' BY <1>3, <1>4 DEF EntryKept
<1>6. ~sys_gettid => OneTid' BY <1>3 DEF WaitInv, OneTid, Tid
<1>7. LongEnough'
  <2>1. IsFiniteSet(Waiters) /\ Cardinality(Waiters) <= Len(waiting_threads_)
    BY DEF WaitInv, LongEnough
  <2>2. /\ IsFiniteSet(Waiters') /\ Cardinality(Waiters) \in Nat
        /\ Cardinality(Waiters') =
             Cardinality(Waiters) + Num(c.pc \in Waits) - Num(t \in Waiters)
    BY <1>1, <2>1, WaitersStep
  <2>3. Len(waiting_threads_') \in Nat /\ Len(waiting_threads_) \in Nat
    BY DEF WaitInv
  <2>4. Num(c.pc \in Waits) \in Nat /\ Num(t \in Waiters) \in Nat BY DEF Num
  <2>5. Cardinality(Waiters') <= Len(waiting_threads_') BY <2>1, <2>2, <2>3, <2>4
  <2>6. QED BY <2>2, <2>5 DEF LongEnough
<1>8. QED BY <1>1, <1>2, <1>5, <1>6, <1>7 DEF WaitInv

\* A call goes to where it needs no entry, and the list is as it was.
LEMMA ListKept ==
  ASSUME WaitInv, NEW t \in Threads, NEW c,
         call' = [call EXCEPT ![t] = c],
         c = [pc |-> c.pc, s |-> c.s, value |-> c.value],
         c.pc \notin {"wait", "update", "write"},
         UNCHANGED waiting
  PROVE  WaitInv'
<1>1. waiting_threads_' \in Seq(Entries) /\ Len(waiting_threads_) \in Nat
  BY DEF WaitInv, waiting
<1>2. UNCHANGED <<waiting_threads_, sys_gettid>> BY DEF waiting
<1>3. Len(waiting_threads_') >=
        Len(waiting_threads_) + Num(c.pc \in Waits) - Num(t \in Waiters)
  BY <1>1, <1>2 DEF Num, Waits
<1>4. QED BY <1>1, <1>2, <1>3, ThreadStep

LEMMA EnterKeeps ==
  ASSUME WaitInv, NEW t \in Threads, NEW pc, NEW S, NEW value,
         Enter(t, pc, S, value), pc \notin {"wait", "update", "write"},
         UNCHANGED waiting
  PROVE  WaitInv'
<1> DEFINE c == [pc |-> pc, s |-> S, value |-> value]
<1>1. call' = [call EXCEPT ![t] = c] BY DEF Enter
<1>2. c = [pc |-> c.pc, s |-> c.s, value |-> c.value] /\ c.pc = pc OBVIOUS
<1> HIDE DEF c
<1>3. QED BY <1>1, <1>2, ListKept

LEMMA ReturnKeeps ==
  ASSUME WaitInv, NEW t \in Threads, Return(t), UNCHANGED waiting
  PROVE  WaitInv'
<1>1. Enter(t, Idle.pc, Idle.s, Idle.value) BY DEF Enter, Return, Idle
<1>2. Idle.pc = "idle" BY DEF Idle
<1>3. QED BY <1>1, <1>2, EnterKeeps

\* The queues change neither the calls nor the list.
LEMMA QueueStep ==
  ASSUME WaitInv, UNCHANGED <<waiting, call>>
  PROVE  WaitInv'
BY DEF WaitInv, CallsHaveShape, EntryKept, OneTid, LongEnough, Waiters, waiting

-----------------------------------------------------------------------------
LEMMA InitWait == Init => WaitInv
<1> SUFFICES ASSUME Init PROVE WaitInv OBVIOUS
<1>1. waiting_threads_ \in Seq(Entries) BY DEF Init
<1>2. call = [t \in Threads |-> Idle] BY DEF Init
<1>3. \A t \in Threads : call[t] = [pc |-> "idle", s |-> {}, value |-> 0] BY <1>2 DEF Idle
<1>4. call = [t \in Threads |-> call[t]] BY <1>2
<1>5. CallsHaveShape BY <1>3 DEF CallsHaveShape
<1>6. EntryKept BY <1>3 DEF EntryKept
<1>7. waiting_threads_ = <<>> BY DEF Init
<1>8. OneTid BY <1>7 DEF OneTid, ToSet
<1>9. LongEnough
  <2>1. Waiters = {} BY <1>3 DEF Waiters
  <2>2. Len(waiting_threads_) = 0 BY <1>7
  <2>3. QED BY <2>1, <2>2, FS_EmptySet DEF LongEnough
<1>10. sys_gettid \in BOOLEAN BY FlagAssumption DEF Init
<1>11. QED BY <1>1, <1>4, <1>5, <1>6, <1>8, <1>9, <1>10 DEF WaitInv

LEMMA NextWait == WaitInv /\ [Next]_vars => WaitInv'
<1> SUFFICES ASSUME WaitInv, [Next]_vars PROVE WaitInv' OBVIOUS
<1>1. ASSUME NEW t \in Threads, NEW s \in Semaphores, DestroySemaphore(t, s)
      PROVE  WaitInv'
  BY <1>1, EnterKeeps DEF DestroySemaphore
<1>2. ASSUME NEW t \in Threads, NEW s \in Semaphores, PostCreateSemaphore(t, s)
      PROVE  WaitInv'
  BY <1>2, ReturnKeeps DEF PostCreateSemaphore
<1>3. ASSUME NEW t \in Threads, NEW s \in Semaphores, PostCreateFails(t, s)
      PROVE  WaitInv'
  BY <1>3, ReturnKeeps DEF PostCreateFails
<1>4. ASSUME NEW t \in Threads, NEW s \in Semaphores, NEW v \in Values \cup {0},
             CreateSemaphore(t, s, v)
      PROVE  WaitInv'
  BY <1>4, EnterKeeps DEF CreateSemaphore
<1>5. ASSUME NEW t \in Threads, NEW s \in Semaphores, NEW v \in Values, HostSignal(t, s, v)
      PROVE  WaitInv'
  BY <1>5, EnterKeeps DEF HostSignal
<1>6. ASSUME NEW t \in Threads, NEW s \in Semaphores, NEW v \in WaitValues,
             BeginWaitOnSemaphores(t, s, v)
      PROVE  WaitInv'
  <2> DEFINE e == [tid |-> Tid(t), s |-> s, value |-> v]
             c == [pc |-> "wait", s |-> {s}, value |-> v]
  <2>1. e \in Entries BY <1>6, ValueAssumption DEF Entries, BeginWaitOnSemaphores, Tid
  <2>2. /\ waiting_threads_' = Append(waiting_threads_, e)
        /\ call' = [call EXCEPT ![t] = c]
        /\ UNCHANGED sys_gettid /\ call[t].pc = "idle"
    BY <1>6 DEF BeginWaitOnSemaphores, Enter
  <2>3. /\ e.tid = Tid(t) /\ e.s = s /\ e.value = v
        /\ c.pc = "wait" /\ c.s = {s} /\ c.value = v
        /\ c = [pc |-> c.pc, s |-> c.s, value |-> c.value]
    OBVIOUS
  <2> HIDE DEF e, c
  <2>4. waiting_threads_' \in Seq(Entries) BY <2>1, <2>2 DEF WaitInv
  <2>5. /\ Len(waiting_threads_') = Len(waiting_threads_) + 1
        /\ \A i \in 1 .. Len(waiting_threads_) : waiting_threads_'[i] = waiting_threads_[i]
        /\ waiting_threads_'[Len(waiting_threads_) + 1] = e
        /\ Len(waiting_threads_) \in Nat
    BY <2>1, <2>2 DEF WaitInv
  <2>6. /\ \A w \in ToSet(waiting_threads_) : w \in ToSet(waiting_threads_')
        /\ \A w \in ToSet(waiting_threads_') : w \in ToSet(waiting_threads_) \/ w = e
        /\ e \in ToSet(waiting_threads_')
    BY <2>5 DEF ToSet
  <2>7. Num(c.pc \in Waits) = 1 /\ Num(t \in Waiters) = 0
    BY <2>2, <2>3 DEF Num, Waits, Waiters
  <2>8. Len(waiting_threads_') >=
          Len(waiting_threads_) + Num(c.pc \in Waits) - Num(t \in Waiters)
    BY <2>5, <2>7
  <2>9. sys_gettid => e.tid = t BY <2>3 DEF Tid
  <2>10. QED BY <2>2, <2>3, <2>4, <2>6, <2>8, <2>9, ThreadStep
<1>7. ASSUME NEW t \in Threads, PostDestroySemaphore(t) PROVE WaitInv'
  BY <1>7, ReturnKeeps DEF PostDestroySemaphore
<1>8. ASSUME NEW t \in Threads, PostSignalSemaphore(t) PROVE WaitInv'
  BY <1>8, ReturnKeeps DEF PostSignalSemaphore
<1>9. ASSUME NEW t \in Threads, WaitReturns(t) PROVE WaitInv'
  <2> DEFINE c == [pc |-> "update", s |-> call[t].s, value |-> call[t].value]
  <2>1. call[t] = [pc |-> call[t].pc, s |-> call[t].s, value |-> call[t].value]
    BY DEF WaitInv, CallsHaveShape
  <2>2. [call[t] EXCEPT !.pc = "update"] = c BY <2>1
  <2>3. /\ call' = [call EXCEPT ![t] = [call[t] EXCEPT !.pc = "update"]]
        /\ UNCHANGED <<waiting_threads_, sys_gettid>> /\ call[t].pc = "wait"
    BY <1>9 DEF WaitReturns, waiting
  <2>4. call' = [call EXCEPT ![t] = c] BY <2>2, <2>3
  <2>5. c = [pc |-> c.pc, s |-> c.s, value |-> c.value] /\ c.pc = "update" OBVIOUS
  <2> HIDE DEF c
  <2>6. sys_gettid => \E w \in ToSet(waiting_threads_') : w.tid = t
    BY <2>3 DEF WaitInv, EntryKept
  <2>7. waiting_threads_' \in Seq(Entries) /\ Len(waiting_threads_) \in Nat
    BY <2>3 DEF WaitInv
  <2>8. Num(c.pc \in Waits) = 1 /\ Num(t \in Waiters) = 1
    BY <2>3, <2>5 DEF Num, Waits, Waiters
  <2>9. Len(waiting_threads_') >=
          Len(waiting_threads_) + Num(c.pc \in Waits) - Num(t \in Waiters)
    BY <2>3, <2>7, <2>8
  <2>10. QED BY <2>3, <2>4, <2>5, <2>6, <2>7, <2>9, ThreadStep
<1>10. ASSUME NEW t \in Threads, WaitFails(t) PROVE WaitInv'
  BY <1>10, ReturnKeeps DEF WaitFails
<1>11. ASSUME NEW t \in Threads, ReadCounter(t) PROVE WaitInv'
  <2>1. PICK s \in call[t].s : Enter(t, "write", call[t].s, sem[s].value)
    BY <1>11 DEF ReadCounter
  <2> DEFINE c == [pc |-> "write", s |-> call[t].s, value |-> sem[s].value]
  <2>2. call' = [call EXCEPT ![t] = c] BY <2>1 DEF Enter
  <2>3. UNCHANGED <<waiting_threads_, sys_gettid>> /\ call[t].pc = "update"
    BY <1>11 DEF ReadCounter, waiting
  <2>4. c = [pc |-> c.pc, s |-> c.s, value |-> c.value] /\ c.pc = "write" OBVIOUS
  <2> HIDE DEF c
  <2>5. sys_gettid => \E w \in ToSet(waiting_threads_') : w.tid = t
    BY <2>3 DEF WaitInv, EntryKept
  <2>6. waiting_threads_' \in Seq(Entries) /\ Len(waiting_threads_) \in Nat
    BY <2>3 DEF WaitInv
  <2>7. Num(c.pc \in Waits) = 1 /\ Num(t \in Waiters) = 1
    BY <2>3, <2>4 DEF Num, Waits, Waiters
  <2>8. Len(waiting_threads_') >=
          Len(waiting_threads_) + Num(c.pc \in Waits) - Num(t \in Waiters)
    BY <2>3, <2>6, <2>7
  <2>9. QED BY <2>2, <2>3, <2>4, <2>5, <2>6, <2>8, ThreadStep
<1>12. ASSUME NEW t \in Threads, PostWaitSemaphores(t) PROVE WaitInv'
  <2>1. call[t].pc \in {"update", "write"} BY <1>12 DEF PostWaitSemaphores
  <2>2. \E w \in ToSet(waiting_threads_) : w.tid = Tid(t)
    <3>1. CASE sys_gettid BY <2>1, <3>1 DEF WaitInv, EntryKept, Tid
    <3>2. CASE ~sys_gettid
      <4>1. t \in Waiters BY <2>1 DEF Waiters
      <4>2. IsFiniteSet(Waiters) /\ Cardinality(Waiters) <= Len(waiting_threads_)
        BY DEF WaitInv, LongEnough
      <4>3. Cardinality(Waiters) \in Nat /\ Cardinality(Waiters) # 0
        BY <4>1, <4>2, FS_EmptySet, FS_CardinalityType
      <4>4. Len(waiting_threads_) \in Nat BY DEF WaitInv
      <4>5. 1 \in 1 .. Len(waiting_threads_) BY <4>2, <4>3, <4>4
      <4>6. waiting_threads_[1] \in ToSet(waiting_threads_) BY <4>5 DEF ToSet
      <4>7. QED BY <3>2, <4>6 DEF WaitInv, OneTid, Tid
    <3>3. QED BY <3>1, <3>2
  <2>3. /\ waiting_threads_' = RemoveEntry(t)
        /\ call' = [call EXCEPT ![t] = Idle] /\ UNCHANGED sys_gettid
    BY <1>12 DEF PostWaitSemaphores, Return
  <2>4. /\ waiting_threads_' \in Seq(Entries)
        /\ Len(waiting_threads_') = Len(waiting_threads_) - 1
        /\ \A w \in ToSet(waiting_threads_') : w \in ToSet(waiting_threads_)
        /\ \A w \in ToSet(waiting_threads_) : w.tid # Tid(t) => w \in ToSet(waiting_threads_')
    BY <2>2, <2>3, RemoveEntryKeeps DEF WaitInv
  <2>5. Idle = [pc |-> Idle.pc, s |-> Idle.s, value |-> Idle.value] /\ Idle.pc = "idle"
    BY DEF Idle
  <2>6. Num(Idle.pc \in Waits) = 0 /\ Num(t \in Waiters) = 1
    BY <2>1, <2>5 DEF Num, Waits, Waiters
  <2>7. Len(waiting_threads_) \in Nat BY DEF WaitInv
  <2>8. Len(waiting_threads_') >=
          Len(waiting_threads_) + Num(Idle.pc \in Waits) - Num(t \in Waiters)
    BY <2>4, <2>6, <2>7
  <2>9. QED BY <2>3, <2>4, <2>5, <2>8, ThreadStep
<1>13. ASSUME NEW q \in Queues, NEW use \in Uses,
              QueueSubmit(q, use) \/ QueueBindSparse(q, use)
       PROVE  WaitInv'
  BY <1>13, QueueStep DEF QueueSubmit, QueueBindSparse
<1>14. ASSUME NEW q \in Queues, GPUWait(q) \/ GPUWrite(q) \/ GPUEnd(q) \/ GPURetire(q)
       PROVE  WaitInv'
  BY <1>14, QueueStep DEF GPUWait, GPUWrite, GPUEnd, GPURetire
<1>15. CASE UNCHANGED vars BY <1>15, QueueStep DEF vars
<1>16. QED
  BY <1>1, <1>2, <1>3, <1>4, <1>5, <1>6, <1>7, <1>8, <1>9, <1>10, <1>11, <1>12, <1>13,
     <1>14, <1>15 DEF Next

-----------------------------------------------------------------------------
\* Where the build knows thread ids, a thread that is blocked in
\* vkWaitSemaphores is in waiting_threads_ with the semaphore and the value it
\* waits for, however many threads wait and however many of their earlier waits
\* failed.  In every build, also where EndWaitOnSemaphores may take out the
\* entry of another thread, the list is as long as there are threads that wait.
THEOREM BlockedStayListed == Spec => []BlockedThreadsAreListed
<1>1. WaitInv => BlockedThreadsAreListed
  BY DEF WaitInv, EntryKept, LongEnough, BlockedThreadsAreListed
<1>2. QED BY InitWait, NextWait, <1>1, PTL DEF Spec

-----------------------------------------------------------------------------
(* The types of the state, and of what is put in the queues.               *)

\* What is put in a queue, without and with what Enqueue adds.
Modifiers == [type : 0 .. HalfRange - 1, id : 0 .. HalfRange - 1]
Writes ==
  [kind : {"write"}, marker : Markers, half : {"lo", "hi"}, value : 0 .. HalfRange - 1]
Pieces ==
  [kind : {"wait"}, waits : Operations] \cup [kind : {"end"}, signals : Operations]
    \cup Writes
Headers == [at : Nat, by : Modifiers, touches : SUBSET Semaphores]
Ops == {Tagged(p, h) : p \in Pieces, h \in Headers}
Ends == {op \in Ops : op.kind = "end"}

SemaphoreValues == Values \cup {0, 1}

Words == [lo : 0 .. HalfRange - 1, hi : 0 .. HalfRange - 1]

\* TypeOK, with what the driver and the queues have.
TrackerTyped ==
  /\ DOMAIN semaphores_ \subseteq Semaphores
  /\ \A s \in DOMAIN semaphores_ :
       semaphores_[s] \in [marker : Markers, last_modifier_marker : Markers]
  /\ carved \in 0 .. MaxMarkers

IdsTyped ==
  queue_submit_index_ \in 0 .. MaxSubmits /\ queue_bind_sparse_index_ \in 0 .. MaxBinds

WordsTyped == word \in [Markers -> Words]

DriverTyped ==
  /\ sem \in [Semaphores -> [live : BOOLEAN, value : SemaphoreValues, by : Modifiers]]
  /\ \A s \in Binary : sem[s].value \in {0, 1}
  /\ \A s \in Timeline : sem[s].value \in Values \cup {0}

CallsTyped ==
  \A t \in Threads : call[t].s \subseteq Semaphores /\ call[t].value \in SemaphoreValues

QueuesTyped == todo \in [Queues -> Seq(Ops)] /\ unretired \in [Queues -> Seq(Ends)]

TypeInv ==
  /\ TrackerTyped /\ IdsTyped /\ WordsTyped /\ DriverTyped /\ CallsTyped /\ QueuesTyped
  /\ WaitInv

LEMMA TypeInvTypes == TypeInv => TypeOK
BY DEF TypeInv, TrackerTyped, IdsTyped, WordsTyped, DriverTyped, CallsTyped, WaitInv,
       Entries, Words, TypeOK

-----------------------------------------------------------------------------
\* The quotient and the remainder of a value below n times n.
LEMMA Quotient ==
  ASSUME NEW n \in Nat \ {0}, NEW v \in 0 .. n * n - 1
  PROVE  v \div n \in 0 .. n - 1 /\ v % n \in 0 .. n - 1
<1> DEFINE d == v \div n
           r == v % n
<1>1. r \in 0 .. n - 1 OBVIOUS
<1>2. d \in Int OBVIOUS
<1>3. v = d * n + r OBVIOUS
<1>4. n * n \in Nat OBVIOUS
<1> HIDE DEF d, r
<1>5. d >= 0
  <2> SUFFICES ASSUME d <= -1 PROVE FALSE BY <1>2
  <2>1. d * n <= (-1) * n BY <1>2
  <2>2. QED BY <1>1, <1>2, <1>3, <2>1
<1>6. d < n
  <2> SUFFICES ASSUME d >= n PROVE FALSE BY <1>2
  <2>1. d * n >= n * n BY <1>2
  <2>2. QED BY <1>1, <1>2, <1>3, <1>4, <2>1
<1>7. QED BY <1>1, <1>2, <1>5, <1>6 DEF d, r

\* Both words of a value are words of a marker.
LEMMA SplitType ==
  ASSUME NEW v \in SemaphoreValues
  PROVE  Split(v) \in [lo : 0 .. HalfRange - 1, hi : 0 .. HalfRange - 1]
<1>1. HalfRange \in Nat \ {0} /\ HalfRange > 3 BY ValueAssumption
<1>2. HalfRange * HalfRange \in Nat /\ 1 < HalfRange * HalfRange BY <1>1
<1>3. v \in 0 .. HalfRange * HalfRange - 1 BY <1>2, ValueAssumption DEF SemaphoreValues
<1>4. QED BY <1>1, <1>3, Quotient DEF Split

\* What Concat's recursive function is up to n.
ConcatUpTo(seqs, n, f) ==
  f = [k \in 0 .. n |-> IF k = 0 THEN <<>> ELSE f[k - 1] \o seqs[k]]

LEMMA SetInduction ==
  ASSUME NEW D, 0 \in D, \A n \in Nat : n \in D => n + 1 \in D
  PROVE  Nat \subseteq D
<1> DEFINE Out == {n \in Nat : n \notin D}
<1> SUFFICES ASSUME Out # {} PROVE FALSE OBVIOUS
<1>1. Out \subseteq Nat OBVIOUS
<1> HIDE DEF Out
<1>2. PICK n \in Out : \A m \in Out : ~(<<m, n>> \in OpToRel(<, Nat))
  BY <1>1, NatLessThanWellFounded, WFMin
<1>3. \A m \in Out : ~(m < n) BY <1>1, <1>2 DEF OpToRel
<1>4. n \in Nat /\ n \notin D BY <1>2 DEF Out
<1>5. n - 1 \in Nat BY <1>4
<1>6. n - 1 \in D BY <1>3, <1>5 DEF Out
<1>7. n - 1 + 1 \in D BY <1>5, <1>6
<1>8. QED BY <1>4, <1>7

LEMMA ConcatExists ==
  ASSUME NEW seqs
  PROVE  \A n \in Nat : \E f : ConcatUpTo(seqs, n, f)
<1> DEFINE D == {n \in Nat : \E f : ConcatUpTo(seqs, n, f)}
           With(s, t) == s \o t
<1>1. 0 \in D
  <2>1. ConcatUpTo(seqs, 0, [k \in 0 .. 0 |-> <<>>]) BY DEF ConcatUpTo
  <2>2. QED BY <2>1
<1>2. ASSUME NEW n \in Nat, n \in D PROVE n + 1 \in D
  <2>1. PICK f : ConcatUpTo(seqs, n, f) BY <1>2
  <2> DEFINE g == [k \in 0 .. n + 1 |-> IF k <= n THEN f[k] ELSE With(f[n], seqs[n + 1])]
  <2>2. \A k \in 0 .. n : f[k] = IF k = 0 THEN <<>> ELSE With(f[k - 1], seqs[k])
    BY <2>1 DEF ConcatUpTo
  <2> HIDE DEF With
  <2>3. /\ g = [k \in 0 .. n + 1 |-> g[k]]
        /\ \A k \in 0 .. n : g[k] = f[k]
        /\ g[n + 1] = With(f[n], seqs[n + 1])
    BY <1>2
  <2> HIDE DEF g
  <2>4. ASSUME NEW k \in 0 .. n + 1
        PROVE  g[k] = IF k = 0 THEN <<>> ELSE With(g[k - 1], seqs[k])
    <3>1. CASE k = 0
      <4>1. 0 \in 0 .. n OBVIOUS
      <4>2. g[0] = f[0] /\ f[0] = <<>> BY <2>2, <2>3, <4>1
      <4>3. QED BY <3>1, <4>2
    <3>2. CASE k \in 1 .. n
      <4>1. k \in 0 .. n /\ k - 1 \in 0 .. n /\ k # 0 BY <3>2
      <4>2. g[k] = f[k] /\ g[k - 1] = f[k - 1] BY <2>3, <4>1
      <4>3. QED BY <2>2, <4>1, <4>2
    <3>3. CASE k = n + 1
      <4>1. n \in 0 .. n /\ k - 1 = n /\ k # 0 BY <3>3
      <4>2. QED BY <2>3, <3>3, <4>1
    <3>4. QED BY <3>1, <3>2, <3>3
  <2>5. ConcatUpTo(seqs, n + 1, g) BY <2>3, <2>4 DEF ConcatUpTo, With
  <2>6. QED BY <2>5
<1> HIDE DEF D
<1>3. Nat \subseteq D BY <1>1, <1>2, SetInduction
<1>4. QED BY <1>3 DEF D

\* Sequences over a set, one after the other, are a sequence over it.
LEMMA ConcatType ==
  ASSUME NEW S, NEW n \in Nat, NEW seqs \in [1 .. n -> Seq(S)]
  PROVE  Concat(seqs) \in Seq(S)
<1> DEFINE f == CHOOSE f : ConcatUpTo(seqs, n, f)
           With(s, t) == s \o t
           D == {k \in Nat : k <= n => f[k] \in Seq(S)}
<1>1. seqs \in Seq(Seq(S)) /\ Len(seqs) = n OBVIOUS
<1>2. ConcatUpTo(seqs, n, f) BY ConcatExists
<1>3. Concat(seqs) = f[n] BY <1>1 DEF Concat, ConcatUpTo
<1> HIDE DEF f
<1>4. \A k \in 0 .. n : f[k] = IF k = 0 THEN <<>> ELSE With(f[k - 1], seqs[k])
  BY <1>2 DEF ConcatUpTo
<1> HIDE DEF With
<1>5. 0 \in D
  <2>1. 0 \in 0 .. n OBVIOUS
  <2>2. f[0] = <<>> BY <1>4, <2>1
  <2>3. <<>> \in Seq(S) OBVIOUS
  <2>4. f[0] \in Seq(S) BY <2>2, <2>3, Zenon
  <2>5. QED BY <2>4
<1>6. ASSUME NEW k \in Nat, k \in D PROVE k + 1 \in D
  <2> SUFFICES ASSUME k + 1 <= n PROVE f[k + 1] \in Seq(S) OBVIOUS
  <2>1. k + 1 \in 0 .. n /\ k + 1 \in 1 .. n /\ k + 1 # 0 /\ k + 1 - 1 = k OBVIOUS
  <2>2. f[k + 1] = With(f[k], seqs[k + 1]) BY <1>4, <2>1
  <2>3. f[k] \in Seq(S) /\ seqs[k + 1] \in Seq(S) BY <1>6, <2>1
  <2>4. QED BY <2>2, <2>3 DEF With
<1> HIDE DEF D
<1>7. Nat \subseteq D BY <1>5, <1>6, SetInduction
<1>8. QED BY <1>3, <1>7 DEF D

\* A set of semaphores has an order.
LEMMA OrderExists ==
  ASSUME NEW T \in SUBSET Semaphores
  PROVE  /\ Cardinality(T) \in Nat
         /\ SetToSeq(T) \in [1 .. Cardinality(T) -> T]
         /\ \A j, k \in 1 .. Cardinality(T) : SetToSeq(T)[j] = SetToSeq(T)[k] => j = k
<1>1. IsFiniteSet(T) BY FS_Subset, SemaphoreAssumption
<1>2. Cardinality(T) \in Nat BY <1>1, FS_CardinalityType
<1>3. PICK f \in [1 .. Cardinality(T) -> T] : IsInjective(f)
  <2>1. PICK f : f \in Bijection(1 .. Cardinality(T), T)
    BY <1>1, FS_CardinalityType DEF ExistsBijection
  <2>2. QED BY <2>1 DEF Bijection, Injection, IsInjective
<1>4. SetToSeq(T) \in [1 .. Cardinality(T) -> T] /\ IsInjective(SetToSeq(T))
  BY <1>3 DEF SetToSeq
<1>5. QED BY <1>2, <1>4 DEF IsInjective

LEMMA InTurnType ==
  ASSUME NEW S, NEW T \in SUBSET Semaphores, NEW writes \in [T -> Seq(S)]
  PROVE  InTurn(writes) \in Seq(S)
<1> DEFINE order == SetToSeq(T)
           n == Cardinality(T)
           seqs == [k \in 1 .. n |-> writes[order[k]]]
<1>1. DOMAIN writes = T OBVIOUS
<1>2. n \in Nat /\ order \in [1 .. n -> T] BY OrderExists
<1>3. InTurn(writes) = Concat(seqs) BY <1>1 DEF InTurn
<1> HIDE DEF n, order
<1>4. seqs \in [1 .. n -> Seq(S)] BY <1>2
<1> HIDE DEF seqs
<1>5. QED BY <1>2, <1>3, <1>4, ConcatType

\* An operation in a queue is what was put in it.
LEMMA OpParts ==
  ASSUME NEW p \in Pieces, NEW h \in Headers
  PROVE  /\ Tagged(p, h).kind = p.kind
         /\ p.kind \in {"wait", "end", "write"}
         /\ p.kind = "wait" => p.waits \in Operations /\ Tagged(p, h).waits = p.waits
         /\ p.kind = "end" => p.signals \in Operations /\ Tagged(p, h).signals = p.signals
         /\ p.kind = "write" =>
              /\ p \in Writes
              /\ Tagged(p, h).marker = p.marker /\ Tagged(p, h).half = p.half
              /\ Tagged(p, h).value = p.value
         /\ Tagged(p, h).by = h.by /\ Tagged(p, h).at = h.at /\ Tagged(p, h).touches = h.touches
<1>1. DOMAIN h = {"at", "by", "touches"} BY DEF Headers
<1>2. CASE p \in [kind : {"wait"}, waits : Operations]
  <2>1. DOMAIN p = {"kind", "waits"} /\ p.kind = "wait" /\ p.waits \in Operations BY <1>2
  <2>2. QED BY <1>1, <2>1 DEF Tagged
<1>3. CASE p \in [kind : {"end"}, signals : Operations]
  <2>1. DOMAIN p = {"kind", "signals"} /\ p.kind = "end" /\ p.signals \in Operations BY <1>3
  <2>2. QED BY <1>1, <2>1 DEF Tagged
<1>4. CASE p \in Writes
  <2>1. DOMAIN p = {"kind", "marker", "half", "value"} /\ p.kind = "write"
    BY <1>4 DEF Writes
  <2>2. QED BY <1>1, <1>4, <2>1 DEF Tagged
<1>5. QED BY <1>2, <1>3, <1>4 DEF Pieces

LEMMA OpType ==
  ASSUME NEW op \in Ops
  PROVE  /\ op.kind = "wait" => op.waits \in Operations
         /\ op.kind = "end" => op.signals \in Operations
         /\ op.kind = "write" =>
              op.marker \in Markers /\ op.half \in {"lo", "hi"} /\ op.value \in 0 .. HalfRange - 1
         /\ op.by \in Modifiers /\ op.touches \subseteq Semaphores
<1>1. PICK p \in Pieces, h \in Headers : op = Tagged(p, h) BY DEF Ops
<1>2. h.by \in Modifiers /\ h.touches \subseteq Semaphores BY DEF Headers
<1>3. p \in Writes => p.marker \in Markers /\ p.half \in {"lo", "hi"} /\ p.value \in 0 .. HalfRange - 1
  BY DEF Writes
<1>4. QED BY <1>1, <1>2, <1>3, OpParts

-----------------------------------------------------------------------------
(* What is put in a queue.                                                 *)

LEMMA WaitOpType ==
  ASSUME NEW waits \in Operations
  PROVE  WaitOp(waits) \in Seq(Pieces)
BY DEF WaitOp, Pieces

LEMMA EndOpType ==
  ASSUME NEW signals \in Operations
  PROVE  EndOp(signals) \in Seq(Pieces)
BY DEF EndOp, Pieces

LEMMA WriteOpType ==
  ASSUME NEW m \in Markers, NEW half \in {"lo", "hi"}, NEW value \in 0 .. HalfRange - 1
  PROVE  WriteOp(m, half, value) \in Seq(Pieces)
BY DEF WriteOp, Pieces, Writes

LEMMA WriteMarkerType ==
  ASSUME TrackerTyped, NEW s \in Semaphores, NEW value \in SemaphoreValues, NEW by \in Modifiers
  PROVE  WriteMarker(s, value, by) \in Seq(Pieces)
<1>1. CASE ~Tracked(s) BY <1>1 DEF WriteMarker
<1>2. CASE Tracked(s)
  <2>1. /\ semaphores_[s].marker \in Markers
        /\ semaphores_[s].last_modifier_marker \in Markers
    BY <1>2 DEF TrackerTyped, Tracked
  <2>2. Split(value).lo \in 0 .. HalfRange - 1 /\ Split(value).hi \in 0 .. HalfRange - 1
    BY SplitType
  <2>3. by.type \in 0 .. HalfRange - 1 /\ by.id \in 0 .. HalfRange - 1 BY DEF Modifiers
  <2> DEFINE w1 == WriteOp(semaphores_[s].marker, "lo", Split(value).lo)
             w2 == WriteOp(semaphores_[s].marker, "hi", Split(value).hi)
             w3 == WriteOp(semaphores_[s].last_modifier_marker, "lo", by.type)
             w4 == WriteOp(semaphores_[s].last_modifier_marker, "hi", by.id)
  <2>4. /\ w1 \in Seq(Pieces) /\ w2 \in Seq(Pieces)
        /\ w3 \in Seq(Pieces) /\ w4 \in Seq(Pieces)
    BY <2>1, <2>2, <2>3, WriteOpType
  <2>5. WriteMarker(s, value, by) = w1 \o w2 \o w3 \o w4 BY <1>2 DEF WriteMarker
  <2> HIDE DEF w1, w2, w3, w4
  <2>6. QED BY <2>4, <2>5
<1>3. QED BY <1>1, <1>2

LEMMA ResetsType ==
  ASSUME TrackerTyped, NEW waits \in Operations, NEW by \in Modifiers
  PROVE  ResetWaits(waits, by) \in Seq(Pieces)
<1> DEFINE B == BinaryOf(waits)
           writes == [s \in B |-> WriteMarker(s, 0, by)]
<1>1. B \subseteq Semaphores BY DEF BinaryOf, Operations
<1>2. 0 \in SemaphoreValues BY DEF SemaphoreValues
<1>3. \A s \in B : WriteMarker(s, 0, by) \in Seq(Pieces) BY <1>1, <1>2, WriteMarkerType
<1>4. ResetWaits(waits, by) = InTurn(writes) BY DEF ResetWaits
<1> HIDE DEF B
<1>5. writes \in [B -> Seq(Pieces)] BY <1>3
<1> HIDE DEF writes
<1>6. QED BY <1>1, <1>4, <1>5, InTurnType

LEMMA SignalsType ==
  ASSUME TrackerTyped, NEW signals \in Operations, NEW by \in Modifiers
  PROVE  WriteSignals(signals, by) \in Seq(Pieces)
<1> DEFINE T == DOMAIN signals
           value(s) == IF s \in BinaryOf(signals) THEN 1 ELSE signals[s]
           writes == [s \in T |-> WriteMarker(s, value(s), by)]
<1>1. T \subseteq Semaphores BY DEF Operations
<1>2. \A s \in T : value(s) \in SemaphoreValues
  BY DEF SemaphoreValues, Operations
<1>3. WriteSignals(signals, by) = InTurn(writes) BY DEF WriteSignals
<1> HIDE DEF value
<1>4. \A s \in T : WriteMarker(s, value(s), by) \in Seq(Pieces)
  BY <1>1, <1>2, WriteMarkerType
<1> HIDE DEF T
<1>5. writes \in [T -> Seq(Pieces)] BY <1>4
<1> HIDE DEF writes
<1>6. QED BY <1>1, <1>3, <1>5, InTurnType

LEMMA SubmissionType ==
  ASSUME TrackerTyped, NEW use \in Uses, NEW by \in Modifiers
  PROVE  Submission(use, by) \in Seq(Pieces)
<1>1. use.waits \in Operations /\ use.signals \in Operations BY UseAssumption
<1>2. /\ WaitOp(use.waits) \in Seq(Pieces) /\ ResetWaits(use.waits, by) \in Seq(Pieces)
      /\ WriteSignals(use.signals, by) \in Seq(Pieces) /\ EndOp(use.signals) \in Seq(Pieces)
  BY <1>1, WaitOpType, EndOpType, ResetsType, SignalsType
<1>3. QED BY <1>2 DEF Submission

LEMMA SparseBindType ==
  ASSUME TrackerTyped, NEW use \in Uses, NEW by \in Modifiers, BinaryOf(use.waits) \subseteq Binary
  PROVE  SparseBind(use, by) \in Seq(Pieces)
<1> DEFINE binary == BinaryOf(use.waits)
           again == [s \in binary |-> 1]
<1>1. use.waits \in Operations /\ use.signals \in Operations BY UseAssumption
<1>2. again \in Operations
  <2>1. binary \subseteq Semaphores BY SemaphoreAssumption
  <2>2. again \in [binary -> Values \cup {1}] OBVIOUS
  <2>3. \A s \in DOMAIN again : s \in Binary /\ again[s] = 1 OBVIOUS
  <2> HIDE DEF binary, again
  <2>4. QED BY <2>1, <2>2, <2>3 DEF Operations
<1>3. <<>> \in Operations
  <2>1. <<>> \in [{} -> Values \cup {1}] OBVIOUS
  <2>2. DOMAIN <<>> = {} OBVIOUS
  <2>3. QED BY <2>1, <2>2 DEF Operations
<1> DEFINE helper == IF binary = {} THEN <<>>
                     ELSE WaitOp(use.waits) \o ResetWaits(use.waits, by) \o EndOp(again)
           tail == IF DOMAIN use.signals = {} THEN <<>>
                   ELSE WriteSignals(use.signals, by) \o EndOp(<<>>)
<1> HIDE DEF again
<1>4. /\ WaitOp(use.waits) \in Seq(Pieces) /\ ResetWaits(use.waits, by) \in Seq(Pieces)
      /\ WriteSignals(use.signals, by) \in Seq(Pieces) /\ EndOp(use.signals) \in Seq(Pieces)
      /\ EndOp(again) \in Seq(Pieces) /\ EndOp(<<>>) \in Seq(Pieces)
  BY <1>1, <1>2, <1>3, WaitOpType, EndOpType, ResetsType, SignalsType
<1>5. helper \in Seq(Pieces) /\ tail \in Seq(Pieces) BY <1>4
<1>6. SparseBind(use, by) = helper \o WaitOp(use.waits) \o EndOp(use.signals) \o tail
  BY DEF SparseBind, again
<1> HIDE DEF helper, tail
<1>7. QED BY <1>4, <1>5, <1>6

\* A call of a queue has operations of the types that the others rely on.
LEMMA EnqueueType ==
  ASSUME todo \in [Queues -> Seq(Ops)], NEW q \in Queues, NEW use \in Uses,
         NEW by \in Modifiers, NEW ops \in Seq(Pieces), Enqueue(q, ops, use, by)
  PROVE  todo' \in [Queues -> Seq(Ops)]
<1> DEFINE h(k) == [at |-> k, by |-> by,
                    touches |-> DOMAIN use.waits \cup DOMAIN use.signals]
           new == [k \in 1 .. Len(ops) |-> Tagged(ops[k], h(k))]
<1>1. use.waits \in Operations /\ use.signals \in Operations BY UseAssumption
<1>2. DOMAIN use.waits \subseteq Semaphores /\ DOMAIN use.signals \subseteq Semaphores
  BY <1>1 DEF Operations
<1>3. \A k \in 1 .. Len(ops) : h(k) \in Headers BY <1>2 DEF Headers
<1>4. todo' = [todo EXCEPT ![q] = @ \o new] BY DEF Enqueue
<1> HIDE DEF h
<1>5. \A k \in 1 .. Len(ops) : Tagged(ops[k], h(k)) \in Ops BY <1>3 DEF Ops
<1>6. new \in Seq(Ops) BY <1>5
<1> HIDE DEF new
<1>7. QED BY <1>4, <1>6

-----------------------------------------------------------------------------
(* The steps.                                                              *)

LEMMA EnterTyped ==
  ASSUME TypeInv, NEW t \in Threads, NEW pc, NEW S \in SUBSET Semaphores,
         NEW value \in SemaphoreValues, Enter(t, pc, S, value)
  PROVE  CallsTyped'
<1>1. call' = [call EXCEPT ![t] = [pc |-> pc, s |-> S, value |-> value]] BY DEF Enter
<1>2. call = [u \in Threads |-> call[u]] BY DEF TypeInv, WaitInv
<1>3. \A u \in Threads : call'[u] = IF u = t THEN [pc |-> pc, s |-> S, value |-> value]
                                   ELSE call[u]
  BY <1>1, <1>2
<1>4. QED BY <1>3 DEF TypeInv, CallsTyped

LEMMA ReturnTyped ==
  ASSUME TypeInv, NEW t \in Threads, Return(t)
  PROVE  CallsTyped'
<1>1. Enter(t, "idle", {}, 0) BY DEF Return, Enter, Idle
<1>2. 0 \in SemaphoreValues BY DEF SemaphoreValues
<1>3. QED BY <1>1, <1>2, EnterTyped

LEMMA SignaledTyped ==
  ASSUME TypeInv, NEW info, info.marker \in Markers, info.last_modifier_marker \in Markers,
         NEW value \in SemaphoreValues, NEW by \in Modifiers
  PROVE  Signaled(info, value, by) \in [Markers -> Words]
<1>1. Split(value) \in Words BY SplitType DEF Words
<1>2. EncodeModifierInfo(by) \in Words BY DEF EncodeModifierInfo, Words, Modifiers
<1>3. word \in [Markers -> Words] BY DEF TypeInv, WordsTyped
<1>4. QED BY <1>1, <1>2, <1>3 DEF Signaled

LEMMA ModifierTypes ==
  /\ NotModified \in Modifiers /\ Host \in Modifiers
  /\ IdsTyped =>
       /\ queue_submit_index_ < MaxSubmits =>
            Modifier(kModifierQueueSubmit, queue_submit_index_ + 1) \in Modifiers
       /\ queue_bind_sparse_index_ < MaxBinds =>
            Modifier(kModifierQueueBindSparse, queue_bind_sparse_index_ + 1) \in Modifiers
<1>1. HalfRange \in Nat /\ HalfRange > 3 BY ValueAssumption
<1>2. MaxSubmits \in 0 .. HalfRange - 1 /\ MaxBinds \in 0 .. HalfRange - 1
  BY BoundAssumption
<1>3. QED
  BY <1>1, <1>2 DEF IdsTyped, NotModified, Host, Modifier, Modifiers, kNotModified,
     kModifierHost, kModifierQueueSubmit, kModifierQueueBindSparse

LEMMA SignalSemaphoreTyped ==
  ASSUME TypeInv, NEW s, NEW value \in SemaphoreValues, SignalSemaphore(s, value, Host)
  PROVE  WordsTyped'
<1>1. CASE Tracked(s)
  <2>1. /\ semaphores_[s].marker \in Markers
        /\ semaphores_[s].last_modifier_marker \in Markers
    BY <1>1 DEF TypeInv, TrackerTyped, Tracked
  <2>2. word' = Signaled(semaphores_[s], value, Host) BY <1>1 DEF SignalSemaphore
  <2>3. QED BY <2>1, <2>2, SignaledTyped, ModifierTypes DEF WordsTyped
<1>2. CASE ~Tracked(s) BY <1>2 DEF SignalSemaphore, TypeInv, WordsTyped
<1>3. QED BY <1>1, <1>2

LEMMA ForgetTyped ==
  ASSUME TrackerTyped, NEW s, semaphores_' = Forget(s), carved' \in 0 .. MaxMarkers
  PROVE  TrackerTyped'
BY DEF TrackerTyped, Forget

LEMMA DriverStepTyped ==
  ASSUME TypeInv, NEW s \in Semaphores,
         NEW r \in [live : BOOLEAN, value : SemaphoreValues, by : Modifiers],
         r.value \in IF s \in Binary THEN {0, 1} ELSE Values \cup {0},
         sem' = [sem EXCEPT ![s] = r]
  PROVE  DriverTyped'
<1>1. sem \in [Semaphores -> [live : BOOLEAN, value : SemaphoreValues, by : Modifiers]]
  BY DEF TypeInv, DriverTyped
<1>2. sem' \in [Semaphores -> [live : BOOLEAN, value : SemaphoreValues, by : Modifiers]]
  BY <1>1
<1>3. \A u \in Semaphores : sem'[u].value = IF u = s THEN r.value ELSE sem[u].value
  BY <1>1
<1>4. Binary \subseteq Semaphores /\ Timeline \subseteq Semaphores
  BY SemaphoreAssumption DEF Timeline
<1>5. QED BY <1>2, <1>3, <1>4 DEF TypeInv, DriverTyped, Timeline

\* What a GPU's operation does to the driver's semaphores.
LEMMA DriverChangeTyped ==
  ASSUME TypeInv, NEW S \in SUBSET Semaphores, NEW v, NEW by \in Modifiers,
         \A s \in S : v[s] \in IF s \in Binary THEN {0, 1} ELSE Values \cup {0},
         sem' = [s \in Semaphores |-> IF s \in S
                                     THEN [sem[s] EXCEPT !.value = v[s], !.by = by]
                                     ELSE sem[s]]
  PROVE  DriverTyped'
<1>1. sem \in [Semaphores -> [live : BOOLEAN, value : SemaphoreValues, by : Modifiers]]
  BY DEF TypeInv, DriverTyped
<1>2. \A s \in S : v[s] \in SemaphoreValues BY DEF SemaphoreValues
<1>3. \A s \in Semaphores :
        sem'[s] = IF s \in S THEN [sem[s] EXCEPT !.value = v[s], !.by = by] ELSE sem[s]
  OBVIOUS
<1>4. ASSUME NEW s \in Semaphores
      PROVE  /\ sem'[s] \in [live : BOOLEAN, value : SemaphoreValues, by : Modifiers]
             /\ sem'[s].value = IF s \in S THEN v[s] ELSE sem[s].value
  <2>1. CASE s \in S
    <3>1. sem'[s] = [sem[s] EXCEPT !.value = v[s], !.by = by] BY <1>3, <2>1
    <3>2. sem[s] \in [live : BOOLEAN, value : SemaphoreValues, by : Modifiers] BY <1>1
    <3>3. QED BY <1>2, <2>1, <3>1, <3>2
  <2>2. CASE s \notin S BY <1>1, <1>3, <2>2
  <2>3. QED BY <2>1, <2>2
<1>5. sem' = [s \in Semaphores |-> sem'[s]] OBVIOUS
<1>6. sem' \in [Semaphores -> [live : BOOLEAN, value : SemaphoreValues, by : Modifiers]]
  BY <1>4, <1>5
<1>7. Binary \subseteq Semaphores /\ Timeline \subseteq Semaphores
  BY SemaphoreAssumption DEF Timeline
<1>8. QED BY <1>4, <1>6, <1>7 DEF TypeInv, DriverTyped, Timeline

LEMMA FetchTyped ==
  ASSUME TypeInv, NEW q \in Queues, todo[q] # <<>>
  PROVE  /\ Head(todo[q]) \in Ops
         /\ Fetched(q) => todo' \in [Queues -> Seq(Ops)]
<1>1. todo \in [Queues -> Seq(Ops)] BY DEF TypeInv, QueuesTyped
<1>2. todo[q] \in Seq(Ops) BY <1>1
<1>3. Head(todo[q]) \in Ops /\ Tail(todo[q]) \in Seq(Ops) BY <1>2
<1>4. QED BY <1>1, <1>3 DEF Fetched

LEMMA InitTyped == Init => TypeInv
<1> SUFFICES ASSUME Init PROVE TypeInv OBVIOUS
<1>1. 0 \in SemaphoreValues BY DEF SemaphoreValues
<1>2. WaitInv BY InitWait
<1>3. TrackerTyped BY BoundAssumption DEF Init, TrackerTyped
<1>4. IdsTyped BY BoundAssumption DEF Init, IdsTyped
<1>5. WordsTyped BY <1>1, SplitType DEF Init, WordsTyped, Words
<1>6. DriverTyped
  <2>1. sem = [s \in Semaphores |-> [live |-> FALSE, value |-> 0, by |-> NotModified]]
    BY DEF Init
  <2>2. Binary \subseteq Semaphores /\ Timeline \subseteq Semaphores
    BY SemaphoreAssumption DEF Timeline
  <2>3. QED BY <1>1, <2>1, <2>2, ModifierTypes DEF DriverTyped
<1>7. CallsTyped BY <1>1 DEF Init, Idle, CallsTyped
<1>8. QueuesTyped BY DEF Init, QueuesTyped
<1>9. QED BY <1>2, <1>3, <1>4, <1>5, <1>6, <1>7, <1>8 DEF TypeInv

LEMMA NextTyped == TypeInv /\ [Next]_vars => TypeInv'
<1> SUFFICES ASSUME TypeInv, [Next]_vars PROVE TypeInv' OBVIOUS
<1>1. WaitInv' BY NextWait DEF TypeInv
<1>2. /\ UNCHANGED tracker => TrackerTyped'
      /\ UNCHANGED ids => IdsTyped'
      /\ UNCHANGED word => WordsTyped'
      /\ UNCHANGED sem => DriverTyped'
      /\ UNCHANGED call => CallsTyped'
      /\ UNCHANGED gpu => QueuesTyped'
  BY DEF TypeInv, TrackerTyped, IdsTyped, WordsTyped, DriverTyped, CallsTyped, QueuesTyped,
         tracker, ids, gpu
<1>3. /\ 0 \in SemaphoreValues /\ Values \subseteq SemaphoreValues /\ WaitValues \subseteq Values
      /\ Binary \subseteq Semaphores /\ Timeline = Semaphores \ Binary
  BY ValueAssumption, SemaphoreAssumption DEF SemaphoreValues, Timeline
<1>4. /\ TrackerTyped /\ IdsTyped /\ WordsTyped /\ DriverTyped /\ CallsTyped /\ QueuesTyped
  BY DEF TypeInv
<1>5. ASSUME NEW t \in Threads, NEW s \in Semaphores, DestroySemaphore(t, s)
      PROVE  TypeInv'
  <2>1. Enter(t, "destroy", {s}, 0) /\ UNCHANGED <<tracker, ids, word, gpu>>
    BY <1>5 DEF DestroySemaphore
  <2>2. CallsTyped' BY <1>3, <2>1, EnterTyped
  <2>3. DriverTyped'
    <3>1. sem[s] \in [live : BOOLEAN, value : SemaphoreValues, by : Modifiers]
      BY <1>4 DEF DriverTyped
    <3>2. sem' = [sem EXCEPT ![s] = [sem[s] EXCEPT !.live = FALSE]]
      BY <1>5 DEF DestroySemaphore
    <3> DEFINE r == [sem[s] EXCEPT !.live = FALSE]
    <3>3. r \in [live : BOOLEAN, value : SemaphoreValues, by : Modifiers] BY <3>1
    <3>4. r.value = sem[s].value BY <3>1
    <3> HIDE DEF r
    <3>5. sem[s].value \in IF s \in Binary THEN {0, 1} ELSE Values \cup {0}
      BY <1>3, <1>4 DEF DriverTyped
    <3>6. sem' = [sem EXCEPT ![s] = r] BY <3>2 DEF r
    <3>7. QED BY <3>3, <3>4, <3>5, <3>6, DriverStepTyped
  <2>4. QED BY <1>1, <1>2, <2>1, <2>2, <2>3 DEF TypeInv
<1>6. ASSUME NEW t \in Threads, NEW s \in Semaphores, PostCreateSemaphore(t, s)
      PROVE  TypeInv'
  <2> DEFINE info == [marker |-> carved + 1, last_modifier_marker |-> carved + 2]
  <2>1. /\ carved + 2 <= MaxMarkers /\ carved' = carved + 2
        /\ semaphores_' = [r \in DOMAIN semaphores_ \cup {s} |->
                              IF r = s THEN info ELSE semaphores_[r]]
        /\ word' = Signaled(info, call[t].value, NotModified)
        /\ Return(t)
        /\ UNCHANGED <<ids, sem, gpu>>
    BY <1>6 DEF PostCreateSemaphore
  <2>2. carved + 1 \in Markers /\ carved + 2 \in Markers /\ carved' \in 0 .. MaxMarkers
    BY <1>4, <2>1, BoundAssumption DEF TrackerTyped, Markers
  <2>3. TrackerTyped' BY <1>4, <2>1, <2>2 DEF TrackerTyped
  <2>4. WordsTyped'
    <3>1. call[t].value \in SemaphoreValues BY <1>4 DEF CallsTyped
    <3>2. info.marker \in Markers /\ info.last_modifier_marker \in Markers BY <2>2
    <3> HIDE DEF info
    <3>3. QED BY <2>1, <3>1, <3>2, SignaledTyped, ModifierTypes DEF WordsTyped
  <2>5. CallsTyped' BY <2>1, ReturnTyped
  <2>6. QED BY <1>1, <1>2, <2>1, <2>3, <2>4, <2>5 DEF TypeInv
<1>7. ASSUME NEW t \in Threads, NEW s \in Semaphores, PostCreateFails(t, s)
      PROVE  TypeInv'
  <2>1. /\ carved' = MaxMarkers /\ semaphores_' = Forget(s) /\ Return(t)
        /\ UNCHANGED <<ids, word, sem, gpu>>
    BY <1>7 DEF PostCreateFails
  <2>2. TrackerTyped' BY <1>4, <2>1, ForgetTyped, BoundAssumption
  <2>3. QED BY <1>1, <1>2, <2>1, <2>2, ReturnTyped DEF TypeInv
<1>8. ASSUME NEW t \in Threads, NEW s \in Semaphores, NEW v \in Values \cup {0},
             CreateSemaphore(t, s, v)
      PROVE  TypeInv'
  <2>1. /\ v \in IF s \in Binary THEN {0} ELSE Values
        /\ sem' = [sem EXCEPT ![s] = [live |-> TRUE, value |-> v, by |-> NotModified]]
        /\ Enter(t, "create", {s}, v)
        /\ UNCHANGED <<tracker, ids, word, gpu>>
    BY <1>8 DEF CreateSemaphore
  <2>2. v \in SemaphoreValues BY <1>3
  <2>3. CallsTyped' BY <2>1, <2>2, EnterTyped
  <2>4. v \in IF s \in Binary THEN {0, 1} ELSE Values \cup {0} BY <2>1
  <2> DEFINE r == [live |-> TRUE, value |-> v, by |-> NotModified]
  <2>5. r \in [live : BOOLEAN, value : SemaphoreValues, by : Modifiers] /\ r.value = v
    BY <2>2, ModifierTypes
  <2>6. sem' = [sem EXCEPT ![s] = r] BY <2>1
  <2> HIDE DEF r
  <2>7. DriverTyped' BY <2>4, <2>5, <2>6, DriverStepTyped
  <2>8. QED BY <1>1, <1>2, <2>1, <2>3, <2>7 DEF TypeInv
<1>9. ASSUME NEW t \in Threads, NEW s \in Semaphores, NEW v \in Values, HostSignal(t, s, v)
      PROVE  TypeInv'
  <2>1. /\ s \in Timeline /\ Usable(s)
        /\ sem' = [sem EXCEPT ![s].value = v, ![s].by = Host]
        /\ Enter(t, "signal", {s}, v)
        /\ UNCHANGED <<tracker, ids, word, gpu>>
    BY <1>9 DEF HostSignal
  <2>2. CallsTyped' BY <1>3, <2>1, EnterTyped
  <2>3. sem[s] \in [live : BOOLEAN, value : SemaphoreValues, by : Modifiers]
    BY <1>4 DEF DriverTyped
  <2> DEFINE r == [[sem[s] EXCEPT !.value = v] EXCEPT !.by = Host]
  <2>4. sem' = [sem EXCEPT ![s] = r]
    <3>1. sem = [u \in Semaphores |-> sem[u]] BY <1>4 DEF DriverTyped
    <3>2. QED BY <2>1, <3>1
  <2>5. r \in [live : BOOLEAN, value : SemaphoreValues, by : Modifiers] /\ r.value = v
    BY <1>3, <2>3, ModifierTypes
  <2> HIDE DEF r
  <2>6. v \in IF s \in Binary THEN {0, 1} ELSE Values \cup {0} BY <2>1 DEF Timeline
  <2>7. DriverTyped' BY <2>4, <2>5, <2>6, DriverStepTyped
  <2>8. QED BY <1>1, <1>2, <2>1, <2>2, <2>7 DEF TypeInv
<1>10. ASSUME NEW t \in Threads, NEW s \in Semaphores, NEW v \in WaitValues,
             BeginWaitOnSemaphores(t, s, v)
      PROVE  TypeInv'
  <2>1. Enter(t, "wait", {s}, v) /\ UNCHANGED <<tracker, ids, word, sem, gpu>>
    BY <1>10 DEF BeginWaitOnSemaphores
  <2>2. CallsTyped' BY <1>3, <2>1, EnterTyped
  <2>3. QED BY <1>1, <1>2, <2>1, <2>2 DEF TypeInv
<1>11. ASSUME NEW t \in Threads, PostDestroySemaphore(t) PROVE TypeInv'
  <2>1. PICK s \in call[t].s : semaphores_' = Forget(s) BY <1>11 DEF PostDestroySemaphore
  <2>2. Return(t) /\ UNCHANGED <<carved, ids, word, sem, gpu>>
    BY <1>11 DEF PostDestroySemaphore
  <2>3. carved' \in 0 .. MaxMarkers BY <1>4, <2>2 DEF TrackerTyped
  <2>4. TrackerTyped' BY <1>4, <2>1, <2>3, ForgetTyped
  <2>5. QED BY <1>1, <1>2, <2>2, <2>4, ReturnTyped DEF TypeInv
<1>12. ASSUME NEW t \in Threads, PostSignalSemaphore(t) PROVE TypeInv'
  <2>1. PICK s \in call[t].s : SignalSemaphore(s, call[t].value, Host)
    BY <1>12 DEF PostSignalSemaphore
  <2>2. Return(t) /\ UNCHANGED <<tracker, ids, sem, gpu>> BY <1>12 DEF PostSignalSemaphore
  <2>3. call[t].value \in SemaphoreValues BY <1>4 DEF CallsTyped
  <2>4. WordsTyped' BY <2>1, <2>3, SignalSemaphoreTyped
  <2>5. QED BY <1>1, <1>2, <2>2, <2>4, ReturnTyped DEF TypeInv
<1>13. ASSUME NEW t \in Threads, WaitReturns(t) PROVE TypeInv'
  <2>1. call' = [call EXCEPT ![t] = [call[t] EXCEPT !.pc = "update"]]
        /\ UNCHANGED <<tracker, ids, word, sem, gpu>>
    BY <1>13 DEF WaitReturns
  <2>2. call = [u \in Threads |-> call[u]] BY DEF TypeInv, WaitInv
  <2>3. call[t] = [pc |-> call[t].pc, s |-> call[t].s, value |-> call[t].value]
    BY DEF TypeInv, WaitInv, CallsHaveShape
  <2>4. [call[t] EXCEPT !.pc = "update"]
          = [pc |-> "update", s |-> call[t].s, value |-> call[t].value]
    BY <2>3
  <2>5. Enter(t, "update", call[t].s, call[t].value) BY <2>1, <2>4 DEF Enter
  <2>6. CallsTyped' BY <1>4, <2>5, EnterTyped DEF CallsTyped
  <2>7. QED BY <1>1, <1>2, <2>1, <2>6 DEF TypeInv
<1>14. ASSUME NEW t \in Threads, WaitFails(t) PROVE TypeInv'
  BY <1>1, <1>2, <1>14, ReturnTyped DEF TypeInv, WaitFails
<1>15. ASSUME NEW t \in Threads, ReadCounter(t) PROVE TypeInv'
  <2>1. PICK s \in call[t].s : Enter(t, "write", call[t].s, sem[s].value)
    BY <1>15 DEF ReadCounter
  <2>2. UNCHANGED <<tracker, ids, word, sem, gpu>> BY <1>15 DEF ReadCounter
  <2>3. call[t].s \subseteq Semaphores /\ sem[s].value \in SemaphoreValues
    BY <1>4 DEF CallsTyped, DriverTyped
  <2>4. CallsTyped' BY <2>1, <2>3, EnterTyped
  <2>5. QED BY <1>1, <1>2, <2>2, <2>4 DEF TypeInv
<1>16. ASSUME NEW t \in Threads, PostWaitSemaphores(t) PROVE TypeInv'
  <2>1. Return(t) /\ UNCHANGED <<tracker, ids, sem, gpu>> BY <1>16 DEF PostWaitSemaphores
  <2>2. WordsTyped'
    <3>1. CASE UNCHANGED word BY <1>2, <3>1
    <3>2. ASSUME NEW s \in call[t].s, SignalSemaphore(s, call[t].value, Host)
          PROVE  WordsTyped'
      BY <1>4, <3>2, SignalSemaphoreTyped DEF CallsTyped
    <3>3. QED BY <1>16, <3>1, <3>2 DEF PostWaitSemaphores
  <2>3. QED BY <1>1, <1>2, <2>1, <2>2, ReturnTyped DEF TypeInv
<1>17. ASSUME NEW q \in Queues, NEW use \in Uses, QueueSubmit(q, use) PROVE TypeInv'
  <2> DEFINE by == Modifier(kModifierQueueSubmit, queue_submit_index_ + 1)
  <2>1. /\ queue_submit_index_ < MaxSubmits
        /\ queue_submit_index_' = queue_submit_index_ + 1
        /\ Enqueue(q, Submission(use, by), use, by)
        /\ UNCHANGED <<tracker, queue_bind_sparse_index_, word, sem, call, unretired>>
    BY <1>17 DEF QueueSubmit
  <2>2. by \in Modifiers BY <1>4, <2>1, ModifierTypes
  <2> HIDE DEF by
  <2>3. todo' \in [Queues -> Seq(Ops)]
    BY <1>4, <2>1, <2>2, EnqueueType, SubmissionType DEF QueuesTyped
  <2>4. QueuesTyped' BY <1>4, <2>1, <2>3 DEF QueuesTyped
  <2>5. IdsTyped' BY <1>4, <2>1, BoundAssumption DEF IdsTyped
  <2>6. QED BY <1>1, <1>2, <2>1, <2>4, <2>5 DEF TypeInv
<1>18. ASSUME NEW q \in Queues, NEW use \in Uses, QueueBindSparse(q, use) PROVE TypeInv'
  <2> DEFINE by == Modifier(kModifierQueueBindSparse, queue_bind_sparse_index_ + 1)
  <2>1. /\ queue_bind_sparse_index_ < MaxBinds
        /\ queue_bind_sparse_index_' = queue_bind_sparse_index_ + 1
        /\ BinaryOf(use.waits) \subseteq Binary
        /\ Enqueue(q, SparseBind(use, by), use, by)
        /\ UNCHANGED <<tracker, queue_submit_index_, word, sem, call, unretired>>
    BY <1>18 DEF QueueBindSparse
  <2>2. by \in Modifiers BY <1>4, <2>1, ModifierTypes
  <2> HIDE DEF by
  <2>3. todo' \in [Queues -> Seq(Ops)]
    BY <1>4, <2>1, <2>2, EnqueueType, SparseBindType DEF QueuesTyped
  <2>4. QueuesTyped' BY <1>4, <2>1, <2>3 DEF QueuesTyped
  <2>5. IdsTyped' BY <1>4, <2>1, BoundAssumption DEF IdsTyped
  <2>6. QED BY <1>1, <1>2, <2>1, <2>4, <2>5 DEF TypeInv
<1>19. ASSUME NEW q \in Queues, GPUWait(q) PROVE TypeInv'
  <2> DEFINE op == Head(todo[q])
             S == DOMAIN op.waits \cap Binary
             v == [s \in Semaphores |-> 0]
  <2>1. /\ todo[q] # <<>> /\ op.kind = "wait" /\ Fetched(q)
        /\ sem' = [s \in Semaphores |->
                     IF s \in S THEN [sem[s] EXCEPT !.value = 0, !.by = op.by] ELSE sem[s]]
        /\ UNCHANGED <<tracker, ids, word, call, unretired>>
    BY <1>19 DEF GPUWait, Fetch
  <2>2. op \in Ops /\ todo' \in [Queues -> Seq(Ops)] BY <2>1, FetchTyped
  <2>3. op.by \in Modifiers /\ S \subseteq Semaphores /\ S \subseteq Binary
    BY <1>3, <2>2, OpType
  <2>4. QueuesTyped' BY <1>4, <2>1, <2>2 DEF QueuesTyped
  <2>5. \A s \in S : v[s] = 0 /\ v[s] \in IF s \in Binary THEN {0, 1} ELSE Values \cup {0}
    BY <2>3
  <2> HIDE DEF op, S, v
  <2>6. sem' = [s \in Semaphores |->
                 IF s \in S THEN [sem[s] EXCEPT !.value = v[s], !.by = op.by] ELSE sem[s]]
    BY <2>1, <2>5
  <2>7. DriverTyped' BY <2>3, <2>5, <2>6, DriverChangeTyped
  <2>8. QED BY <1>1, <1>2, <2>1, <2>4, <2>7 DEF TypeInv
<1>20. ASSUME NEW q \in Queues, GPUWrite(q) PROVE TypeInv'
  <2> DEFINE op == Head(todo[q])
  <2>1. /\ todo[q] # <<>> /\ op.kind = "write" /\ Fetched(q)
        /\ word' = [word EXCEPT ![op.marker][op.half] = op.value]
        /\ UNCHANGED <<tracker, ids, sem, call, unretired>>
    BY <1>20 DEF GPUWrite, Fetch
  <2>2. op \in Ops /\ todo' \in [Queues -> Seq(Ops)] BY <2>1, FetchTyped
  <2>3. /\ op.marker \in Markers /\ op.half \in {"lo", "hi"}
        /\ op.value \in 0 .. HalfRange - 1
    BY <2>1, <2>2, OpType
  <2> HIDE DEF op
  <2>4. QueuesTyped' BY <1>4, <2>1, <2>2 DEF QueuesTyped
  <2>5. WordsTyped'
    <3>1. word \in [Markers -> Words] BY <1>4 DEF WordsTyped
    <3>2. [word[op.marker] EXCEPT ![op.half] = op.value] \in Words BY <2>3, <3>1 DEF Words
    <3>3. QED BY <2>1, <2>3, <3>1, <3>2 DEF WordsTyped
  <2>6. QED BY <1>1, <1>2, <2>1, <2>4, <2>5 DEF TypeInv
<1>21. ASSUME NEW q \in Queues, GPUEnd(q) PROVE TypeInv'
  <2> DEFINE op == Head(todo[q])
  <2>1. /\ todo[q] # <<>> /\ op.kind = "end" /\ Fetched(q)
        /\ unretired' = [unretired EXCEPT ![q] = Append(@, op)]
        /\ UNCHANGED <<tracker, ids, word, sem, call>>
    BY <1>21 DEF GPUEnd, Fetch
  <2>2. op \in Ops /\ todo' \in [Queues -> Seq(Ops)] BY <2>1, FetchTyped
  <2>3. op \in Ends BY <2>1, <2>2 DEF Ends
  <2> HIDE DEF op
  <2>4. QueuesTyped'
    <3>1. unretired \in [Queues -> Seq(Ends)] BY <1>4 DEF QueuesTyped
    <3>2. Append(unretired[q], op) \in Seq(Ends) BY <2>3, <3>1
    <3>3. unretired' \in [Queues -> Seq(Ends)] BY <2>1, <3>1, <3>2
    <3>4. QED BY <2>2, <3>3 DEF QueuesTyped
  <2>5. QED BY <1>1, <1>2, <2>1, <2>4 DEF TypeInv
<1>22. ASSUME NEW q \in Queues, GPURetire(q) PROVE TypeInv'
  <2> DEFINE op == Head(unretired[q])
             S == DOMAIN op.signals
  <2>1. /\ unretired[q] # <<>>
        /\ sem' = [s \in Semaphores |->
                     IF s \in S THEN [sem[s] EXCEPT !.value = op.signals[s], !.by = op.by]
                     ELSE sem[s]]
        /\ unretired' = [unretired EXCEPT ![q] = Tail(@)]
        /\ UNCHANGED <<tracker, ids, word, call, todo>>
    BY <1>22 DEF GPURetire
  <2>2. op \in Ends /\ Tail(unretired[q]) \in Seq(Ends)
    <3>1. unretired[q] \in Seq(Ends) BY <1>4 DEF QueuesTyped
    <3>2. unretired[q] # <<>> BY <2>1
    <3> HIDE DEF S
    <3>3. QED BY <3>1, <3>2
  <2>3. op.by \in Modifiers /\ op.signals \in Operations BY <2>2, OpType DEF Ends
  <2> HIDE DEF op
  <2>4. QueuesTyped' BY <1>4, <2>1, <2>2 DEF QueuesTyped
  <2>5. /\ S \subseteq Semaphores
        /\ \A s \in S : op.signals[s] \in IF s \in Binary THEN {0, 1} ELSE Values \cup {0}
    BY <2>3 DEF Operations
  <2> HIDE DEF S
  <2>6. DriverTyped' BY <2>1, <2>3, <2>5, DriverChangeTyped
  <2>7. QED BY <1>1, <1>2, <2>1, <2>4, <2>6 DEF TypeInv
<1>23. CASE UNCHANGED vars BY <1>1, <1>2, <1>23 DEF vars, TypeInv
<1>24. QED
  BY <1>5, <1>6, <1>7, <1>8, <1>9, <1>10, <1>11, <1>12, <1>13, <1>14, <1>15, <1>16, <1>17,
     <1>18, <1>19, <1>20, <1>21, <1>22, <1>23 DEF Next

\* The types of SemaphoreTracker hold for any semaphores, calls and width of a
\* word: so a value or a modifier never spills from one word of its marker.
THEOREM TypeCorrect == Spec => []TypeOK
<1>1. TypeInv => TypeOK BY TypeInvTypes
<1>2. QED BY InitTyped, NextTyped, <1>1, PTL DEF Spec
=============================================================================
