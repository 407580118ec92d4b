--------------------------- MODULE SemaphoreTracker ---------------------------
(***************************************************************************)
(* The tracking of semaphore values (SemaphoreTracker in                   *)
(* src/semaphore_tracker.cc) with what writes them: the host hooks in      *)
(* src/gfr.cc, and the helper command buffers that SubmitTracker puts      *)
(* around a vkQueueSubmit and into a vkQueueBindSparse.                    *)
(*                                                                         *)
(* The 64-bit value of a semaphore is kept in a marker, two words that the *)
(* GPU writes one after the other and the host at once.  A second marker   *)
(* keeps who modified the semaphore last.                                  *)
(*                                                                         *)
(* The GPU's queues fetch their operations in order and retire them later. *)
(* A wait blocks the fetch (external: pWaitDstStageMask is not used).  The *)
(* driver's part of a host call and its Post hook are two steps.           *)
(***************************************************************************)
EXTENDS Integers, Sequences, SequencesExt, FiniteSetsExt

CONSTANTS
  Semaphores, Binary,  \* VkSemaphore handles, and those of binary semaphores
  Threads, Queues,
  HalfRange,           \* values of a marker's word: 2^32
  Values,              \* values of a timeline semaphore the application uses
  WaitValues,          \* those that its threads wait for
  Uses,                \* the waits and signals of the application's calls
  MaxMarkers,          \* 64-bit markers the allocator has
  Serialised,          \* the application serialises host calls and GPU signals
  Failures,            \* driver calls that may fail: "wait", "counter"
  Builds,              \* with SYS_gettid defined (TRUE) and without, on Windows
  MaxSubmits,          \* bound: vkQueueSubmits
  MaxBinds,            \* bound: vkQueueBindSparses
  MaxWaiting           \* bound: entries of waiting_threads_

Timeline == Semaphores \ Binary

\* What a call waits for and signals: semaphores with their values, which is
\* 1 for binary ones.
Operations ==
  {op \in UNION {[S -> Values \cup {1}] : S \in SUBSET Semaphores} :
     \A s \in DOMAIN op : IF s \in Binary THEN op[s] = 1 ELSE op[s] \in Values}

ASSUME SemaphoreAssumption == IsFiniteSet(Semaphores) /\ Binary \subseteq Semaphores

ASSUME ValueAssumption ==
  /\ HalfRange \in Nat /\ HalfRange > 3  \* each SemaphoreModifierType fits
  /\ Values \subseteq 0 .. HalfRange * HalfRange - 1
  /\ WaitValues \subseteq Values

ASSUME UseAssumption ==
  \A use \in Uses : use.waits \in Operations /\ use.signals \in Operations

ASSUME BoundAssumption ==
  /\ MaxMarkers \in Nat /\ MaxWaiting \in Nat
  /\ MaxSubmits \in 0 .. HalfRange - 1 /\ MaxBinds \in 0 .. HalfRange - 1

ASSUME FlagAssumption ==
  /\ Serialised \in BOOLEAN /\ Builds \subseteq BOOLEAN
  /\ Failures \subseteq {"wait", "counter"}

VARIABLES
  semaphores_,       \* the tracked semaphores with their two markers
  waiting_threads_,  \* the threads in a vkWaitSemaphores, with its values
  sys_gettid,        \* the build knows thread ids
  queue_submit_index_, queue_bind_sparse_index_,
  word,              \* the markers' contents
  carved,            \* markers allocated
  sem,               \* the driver's semaphores, with who modified them last
  call,              \* the host call each thread is in
  todo, unretired    \* each queue's operations: to fetch, to retire

tracker == <<semaphores_, carved>>
waiting == <<waiting_threads_, sys_gettid>>
ids == <<queue_submit_index_, queue_bind_sparse_index_>>
gpu == <<todo, unretired>>
vars == <<tracker, waiting, ids, word, sem, call, gpu>>

-----------------------------------------------------------------------------
(* Semaphore values and modifiers in markers.                              *)

\* SemaphoreModifierType.
kNotModified == 0
kModifierHost == 1
kModifierQueueSubmit == 2
kModifierQueueBindSparse == 3

Modifier(type, id) == [type |-> type, id |-> id]
NotModified == Modifier(kNotModified, 0)
Host == Modifier(kModifierHost, 0)

Markers == 1 .. MaxMarkers

\* Mutant: the low word is not masked.
SplitUnmasked(value) == [lo |-> value, hi |-> value \div HalfRange]

\* A 64-bit value as its low and its high word, and the host's read of it.
Split(value) == [lo |-> value % HalfRange, hi |-> value \div HalfRange]
Joined(w) == w.hi * HalfRange + w.lo

\* EncodeModifierInfo puts the type in the high word; GetLastModifier takes
\* it from the low one, where the GPU's writes have it.
EncodeModifierInfo(by) == [lo |-> by.id, hi |-> by.type]
GetLastModifier(s) ==
  LET w == word[semaphores_[s].last_modifier_marker] IN Modifier(w.lo, w.hi)

Tracked(s) == s \in DOMAIN semaphores_

\* A semaphore that is not tracked has the default type, binary.
GetSemaphoreType(s) ==
  IF Tracked(s) /\ s \in Timeline THEN "timeline" ELSE "binary"

GetSemaphoreValue(s) == Joined(word[semaphores_[s].marker])

\* SignalSemaphore: both markers, by the host.
Signaled(info, value, by) ==
  [word EXCEPT ![info.marker] = Split(value),
               ![info.last_modifier_marker] = EncodeModifierInfo(by)]

SignalSemaphore(s, value, by) ==
  word' = IF Tracked(s) THEN Signaled(semaphores_[s], value, by) ELSE word

-----------------------------------------------------------------------------
Idle == [pc |-> "idle", s |-> {}, value |-> 0]

Init ==
  /\ semaphores_ = <<>>
  /\ waiting_threads_ = <<>>
  /\ sys_gettid \in Builds
  /\ queue_submit_index_ = 0
  /\ queue_bind_sparse_index_ = 0
  /\ word = [m \in Markers |-> Split(0)]
  /\ carved = 0
  /\ sem = [s \in Semaphores |-> [live |-> FALSE, value |-> 0, by |-> NotModified]]
  /\ call = [t \in Threads |-> Idle]
  /\ todo = [q \in Queues |-> <<>>]
  /\ unretired = [q \in Queues |-> <<>>]

\* The operations a queue has not completed.
Pending(q) == ToSet(todo[q]) \cup ToSet(unretired[q])
PendingOn(s) == {op \in UNION {Pending(q) : q \in Queues} : s \in op.touches}

IsBind(op) == op.by.type = kModifierQueueBindSparse

PendingSignals(s) ==
  {op.signals[s] : op \in {o \in PendingOn(s) : o.kind = "end" /\ s \in DOMAIN o.signals}}

\* Post hooks hold devices_mutex_, PostWaitSemaphoresKHR through its loop.
Unlocked == \A t \in Threads : call[t].pc \notin {"update", "write"}

\* The semaphores a host call is about to report on.
CallUses(t) ==
  IF call[t].pc \in {"create", "destroy", "signal", "update", "write"}
  THEN call[t].s ELSE {}

\* Semaphores the application may use: their creation has returned.
Usable(s) ==
  sem[s].live /\ \A t \in Threads : call[t].pc = "create" => s \notin call[t].s

Forget(s) == [r \in DOMAIN semaphores_ \ {s} |-> semaphores_[r]]

Enter(t, pc, S, value) ==
  call' = [call EXCEPT ![t] = [pc |-> pc, s |-> S, value |-> value]]

Return(t) == call' = [call EXCEPT ![t] = Idle]

-----------------------------------------------------------------------------
(* Host calls.                                                             *)

CreateSemaphore(t, s, initial) ==
  /\ call[t].pc = "idle"
  /\ ~sem[s].live
  /\ carved < MaxMarkers  \* bound
  /\ initial \in IF s \in Binary THEN {0} ELSE Values
  /\ sem' = [sem EXCEPT ![s] = [live |-> TRUE, value |-> initial, by |-> NotModified]]
  /\ Enter(t, "create", {s}, initial)
  /\ UNCHANGED <<tracker, waiting, ids, word, gpu>>

\* RegisterSemaphore: it takes two markers and sets them.
PostCreateSemaphore(t, s) ==
  LET info == [marker |-> carved + 1, last_modifier_marker |-> carved + 2] IN
  /\ call[t].pc = "create" /\ call[t].s = {s}
  /\ Unlocked
  /\ carved + 2 <= MaxMarkers
  /\ carved' = carved + 2
  /\ semaphores_' = [r \in DOMAIN semaphores_ \cup {s} |->
                       IF r = s THEN info ELSE semaphores_[r]]
  /\ word' = Signaled(info, call[t].value, NotModified)
  /\ Return(t)
  /\ UNCHANGED <<waiting, ids, sem, gpu>>

\* Without two markers the semaphore is not tracked; a first one is lost.
PostCreateFails(t, s) ==
  /\ call[t].pc = "create" /\ call[t].s = {s}
  /\ Unlocked
  /\ carved + 2 > MaxMarkers
  /\ carved' = MaxMarkers
  /\ semaphores_' = Forget(s)
  /\ Return(t)
  /\ UNCHANGED <<waiting, ids, word, sem, gpu>>

\* No queue and no host call uses the semaphore any more.
DestroySemaphore(t, s) ==
  /\ call[t].pc = "idle"
  /\ Usable(s)
  /\ PendingOn(s) = {}
  /\ \A u \in Threads : call[u].pc # "destroy" => s \notin call[u].s
  /\ sem' = [sem EXCEPT ![s].live = FALSE]
  /\ Enter(t, "destroy", {s}, 0)
  /\ UNCHANGED <<tracker, waiting, ids, word, gpu>>

\* EraseSemaphore, of whatever has the handle by now.  The markers are kept.
PostDestroySemaphore(t) ==
  /\ call[t].pc = "destroy"
  /\ Unlocked
  /\ \E s \in call[t].s : semaphores_' = Forget(s)
  /\ Return(t)
  /\ UNCHANGED <<carved, waiting, ids, word, sem, gpu>>

\* vkSignalSemaphore: a value above the current and below every pending one.
HostSignal(t, s, value) ==
  /\ call[t].pc = "idle"
  /\ s \in Timeline /\ Usable(s)
  /\ value > sem[s].value /\ \A v \in PendingSignals(s) : value < v
  /\ Serialised => /\ PendingSignals(s) = {} /\ \A op \in PendingOn(s) : ~IsBind(op)
                   /\ \A u \in Threads : call[u].pc = "signal" => s \notin call[u].s
  /\ sem' = [sem EXCEPT ![s].value = value, ![s].by = Host]
  /\ Enter(t, "signal", {s}, value)
  /\ UNCHANGED <<tracker, waiting, ids, word, gpu>>

PostSignalSemaphore(t) ==
  /\ call[t].pc = "signal"
  /\ Unlocked
  /\ \E s \in call[t].s : SignalSemaphore(s, call[t].value, Host)
  /\ Return(t)
  /\ UNCHANGED <<tracker, waiting, ids, sem, gpu>>

\* The thread id of PreWaitSemaphoresKHR and PostWaitSemaphoresKHR, 0 for all
\* threads when there is no SYS_gettid.
NoTid == "0"
Tid(t) == IF sys_gettid THEN t ELSE NoTid

ASSUME TidAssumption == NoTid \notin Threads

\* PreWaitSemaphoresKHR: BeginWaitOnSemaphores.
BeginWaitOnSemaphores(t, s, value) ==
  /\ call[t].pc = "idle"
  /\ s \in Timeline /\ Usable(s)
  /\ Unlocked
  /\ Len(waiting_threads_) < MaxWaiting  \* bound
  /\ waiting_threads_' =
       Append(waiting_threads_, [tid |-> Tid(t), s |-> s, value |-> value])
  /\ Enter(t, "wait", {s}, value)
  /\ UNCHANGED <<tracker, sys_gettid, ids, word, sem, gpu>>

\* The driver's wait is over, with success or a timeout: the hook goes on to
\* update the value of what was waited for.
WaitReturns(t) ==
  /\ call[t].pc = "wait"
  /\ Unlocked
  /\ Serialised => \A s \in call[t].s : PendingSignals(s) = {}
  /\ call' = [call EXCEPT ![t].pc = "update"]
  /\ UNCHANGED <<tracker, waiting, ids, word, sem, gpu>>

\* After another result the thread stays in the list.
WaitFails(t) ==
  /\ call[t].pc = "wait"
  /\ "wait" \in Failures
  /\ Return(t)
  /\ UNCHANGED <<tracker, waiting, ids, word, sem, gpu>>

\* vkGetSemaphoreCounterValue, a moment before its result is written.
ReadCounter(t) ==
  /\ call[t].pc = "update"
  /\ \E s \in call[t].s : Enter(t, "write", call[t].s, sem[s].value)
  /\ UNCHANGED <<tracker, waiting, ids, word, sem, gpu>>

\* Mutant: the thread's id is not looked at.
RemoveFirstEntry(t) == Tail(waiting_threads_)

\* EndWaitOnSemaphores: the first entry with the thread's id, which is any
\* thread's when all have the same.
RemoveEntry(t) ==
  RemoveAt(waiting_threads_, SelectInSeq(waiting_threads_, LAMBDA w : w.tid = Tid(t)))

PostWaitSemaphores(t) ==
  /\ \/ /\ call[t].pc = "write"
        /\ \E s \in call[t].s : SignalSemaphore(s, call[t].value, Host)
     \/ call[t].pc = "update" /\ "counter" \in Failures /\ UNCHANGED word
  /\ waiting_threads_' = RemoveEntry(t)
  /\ Return(t)
  /\ UNCHANGED <<tracker, sys_gettid, ids, sem, gpu>>

-----------------------------------------------------------------------------
(* What the layer and the driver put in a queue.  "at" is the place among  *)
(* the operations of a call, "touches" are the semaphores of the call.     *)

WaitOp(waits) == <<[kind |-> "wait", waits |-> waits]>>
EndOp(signals) == <<[kind |-> "end", signals |-> signals]>>
WriteOp(m, half, value) ==
  <<[kind |-> "write", marker |-> m, half |-> half, value |-> value]>>

\* Mutant: the high word of the value goes first.
WriteMarkerHighFirst(s, value, by) ==
  LET info == semaphores_[s] IN
  IF ~Tracked(s) THEN <<>>
  ELSE WriteOp(info.marker, "hi", Split(value).hi)
       \o WriteOp(info.marker, "lo", Split(value).lo)
       \o WriteOp(info.last_modifier_marker, "lo", by.type)
       \o WriteOp(info.last_modifier_marker, "hi", by.id)

\* A write without the modifier, for a mutant below.
WriteMarkerValueOnly(s, value, by) ==
  IF ~Tracked(s) THEN <<>>
  ELSE WriteOp(semaphores_[s].marker, "lo", Split(value).lo)
       \o WriteOp(semaphores_[s].marker, "hi", Split(value).hi)

\* SemaphoreTracker::WriteMarker.
WriteMarker(s, value, by) ==
  LET info == semaphores_[s] IN
  IF ~Tracked(s) THEN <<>>
  ELSE WriteOp(info.marker, "lo", Split(value).lo)
       \o WriteOp(info.marker, "hi", Split(value).hi)
       \o WriteOp(info.last_modifier_marker, "lo", by.type)
       \o WriteOp(info.last_modifier_marker, "hi", by.id)

Concat(seqs) ==
  LET upTo[k \in 0 .. Len(seqs)] == IF k = 0 THEN <<>> ELSE upTo[k - 1] \o seqs[k]
  IN upTo[Len(seqs)]

\* What is written for each semaphore, in the order of the vector.
InTurn(writes) ==
  LET order == SetToSeq(DOMAIN writes)
  IN Concat([k \in 1 .. Cardinality(DOMAIN writes) |-> writes[order[k]]])

BinaryOf(operations) ==
  {s \in DOMAIN operations : GetSemaphoreType(s) = "binary"}

\* Mutant: binary semaphores that are waited for are not reset.
NoReset(waits, by) == <<>>

\* Mutant: the reset leaves the last modifier as it was.
ResetValueOnly(waits, by) ==
  InTurn([s \in BinaryOf(waits) |-> WriteMarkerValueOnly(s, 0, by)])

\* Binary semaphores that are waited for become 0.
ResetWaits(waits, by) == InTurn([s \in BinaryOf(waits) |-> WriteMarker(s, 0, by)])

\* Signals have the application's values, and 1 for what is taken for binary.
WriteSignals(signals, by) ==
  InTurn([s \in DOMAIN signals |->
            WriteMarker(s, IF s \in BinaryOf(signals) THEN 1 ELSE signals[s], by)])

\* The submit between its helper buffers: the start of the first resets, the
\* start of the last one writes the signals' values.
Submission(use, by) ==
  WaitOp(use.waits) \o ResetWaits(use.waits, by) \o WriteSignals(use.signals, by)
    \o EndOp(use.signals)

\* The bind info between its helpers: a wait helper, which signals binary
\* semaphores again, and a signal helper, which signals nothing.
SparseBind(use, by) ==
  LET binary == BinaryOf(use.waits)
  IN (IF binary = {} THEN <<>>
      ELSE WaitOp(use.waits) \o ResetWaits(use.waits, by)
             \o EndOp([s \in binary |-> 1]))
     \o WaitOp(use.waits) \o EndOp(use.signals)
     \o (IF DOMAIN use.signals = {} THEN <<>>
         ELSE WriteSignals(use.signals, by) \o EndOp(<<>>))

\* An operation with its call.
Tagged(op, info) ==
  [field \in DOMAIN op \cup DOMAIN info |->
     IF field \in DOMAIN op THEN op[field] ELSE info[field]]

Enqueue(q, ops, use, by) ==
  todo' = [todo EXCEPT ![q] = @ \o
             [k \in 1 .. Len(ops) |->
                Tagged(ops[k], [at |-> k, by |-> by,
                                touches |-> DOMAIN use.waits \cup DOMAIN use.signals])]]

-----------------------------------------------------------------------------
(* vkQueueSubmit and vkQueueBindSparse of a valid application.  The calls  *)
(* of the tracker between which others move are taken as one step: they    *)
(* only read semaphores_, which others change for other semaphores only.   *)

ElsewherePending(q, s) ==
  {op \in UNION {Pending(p) : p \in Queues \ {q}} : s \in op.touches}

\* The value a binary semaphore will have after all that is pending.
Eventually(s) ==
  LET signals == {op \in PendingOn(s) : op.kind = "end" /\ s \in DOMAIN op.signals}
      waits == {op \in PendingOn(s) : op.kind = "wait" /\ s \in DOMAIN op.waits}
  IN sem[s].value + Cardinality(signals) - Cardinality(waits)

\* A signal must find a binary semaphore without one, and a timeline
\* semaphore below its value; signals of other queues come before.
ValidUse(q, use) ==
  LET waited == DOMAIN use.waits
      signaled == DOMAIN use.signals
  IN
  /\ \A s \in waited \cup signaled : Usable(s)
  /\ \A s \in waited \cap Binary : Eventually(s) = 1
  /\ \A s \in signaled \cap Binary :
       /\ s \notin waited => Eventually(s) = 0
       /\ ElsewherePending(q, s) = {}
  /\ \A s \in signaled \cap Timeline :
       /\ \A v \in PendingSignals(s) \cup {sem[s].value} : v < use.signals[s]
       /\ ElsewherePending(q, s) # {} /\ PendingSignals(s) # {} =>
            s \in waited /\ \A v \in PendingSignals(s) : v <= use.waits[s]

\* The application lets no host call on a semaphore overlap a GPU signal of
\* it, and no sparse bind, to its last helper, overlap a host signal or what
\* other queues do with it.
SerialisedUse(q, use, binds) ==
  /\ \A s \in DOMAIN use.signals : \A t \in Threads :
       call[t].pc \in {"signal", "update", "write"} => s \notin call[t].s
  /\ \A s \in DOMAIN use.waits \cup DOMAIN use.signals :
       \A op \in ElsewherePending(q, s) : ~binds /\ ~IsBind(op)

QueueSubmit(q, use) ==
  LET by == Modifier(kModifierQueueSubmit, queue_submit_index_ + 1) IN
  /\ ValidUse(q, use)
  /\ Serialised => SerialisedUse(q, use, FALSE)
  /\ queue_submit_index_ < MaxSubmits  \* bound
  /\ queue_submit_index_' = queue_submit_index_ + 1
  /\ Enqueue(q, Submission(use, by), use, by)
  /\ UNCHANGED <<tracker, waiting, queue_bind_sparse_index_, word, sem,
                 call, unretired>>

\* A timeline semaphore that is not tracked would be signaled by the wait
\* helper as if it were binary, which the driver does not define.
QueueBindSparse(q, use) ==
  LET by == Modifier(kModifierQueueBindSparse, queue_bind_sparse_index_ + 1) IN
  /\ ValidUse(q, use)
  /\ Serialised => SerialisedUse(q, use, TRUE)
  /\ BinaryOf(use.waits) \subseteq Binary
  /\ queue_bind_sparse_index_ < MaxBinds  \* bound
  /\ queue_bind_sparse_index_' = queue_bind_sparse_index_ + 1
  /\ Enqueue(q, SparseBind(use, by), use, by)
  /\ UNCHANGED <<tracker, waiting, queue_submit_index_, word, sem,
                 call, unretired>>

-----------------------------------------------------------------------------
(* The GPU.                                                                *)

Fetch(q, kind) == todo[q] # <<>> /\ Head(todo[q]).kind = kind
Fetched(q) == todo' = [todo EXCEPT ![q] = Tail(@)]

GPUWait(q) ==
  LET op == Head(todo[q]) IN
  /\ Fetch(q, "wait")
  /\ \A s \in DOMAIN op.waits : sem[s].value >= op.waits[s]
  /\ sem' = [s \in Semaphores |->
               IF s \in DOMAIN op.waits \cap Binary
               THEN [sem[s] EXCEPT !.value = 0, !.by = op.by] ELSE sem[s]]
  /\ Fetched(q)
  /\ UNCHANGED <<tracker, waiting, ids, word, call, unretired>>

GPUWrite(q) ==
  LET op == Head(todo[q]) IN
  /\ Fetch(q, "write")
  /\ word' = [word EXCEPT ![op.marker][op.half] = op.value]
  /\ Fetched(q)
  /\ UNCHANGED <<tracker, waiting, ids, sem, call, unretired>>

GPUEnd(q) ==
  /\ Fetch(q, "end")
  /\ unretired' = [unretired EXCEPT ![q] = Append(@, Head(todo[q]))]
  /\ Fetched(q)
  /\ UNCHANGED <<tracker, waiting, ids, word, sem, call>>

GPURetire(q) ==
  /\ unretired[q] # <<>>
  /\ LET op == Head(unretired[q])
     IN sem' = [s \in Semaphores |->
                  IF s \in DOMAIN op.signals
                  THEN [sem[s] EXCEPT !.value = op.signals[s], !.by = op.by]
                  ELSE sem[s]]
  /\ unretired' = [unretired EXCEPT ![q] = Tail(@)]
  /\ UNCHANGED <<tracker, waiting, ids, word, call, todo>>

Next ==
  \/ \E t \in Threads :
       \/ \E s \in Semaphores :
            \/ DestroySemaphore(t, s)
            \/ PostCreateSemaphore(t, s) \/ PostCreateFails(t, s)
            \/ \E v \in Values \cup {0} : CreateSemaphore(t, s, v)
            \/ \E v \in Values : HostSignal(t, s, v)
            \/ \E v \in WaitValues : BeginWaitOnSemaphores(t, s, v)
       \/ PostDestroySemaphore(t) \/ PostSignalSemaphore(t)
       \/ WaitReturns(t) \/ WaitFails(t) \/ ReadCounter(t) \/ PostWaitSemaphores(t)
  \/ \E q \in Queues :
       \/ \E use \in Uses : QueueSubmit(q, use) \/ QueueBindSparse(q, use)
       \/ GPUWait(q) \/ GPUWrite(q) \/ GPUEnd(q) \/ GPURetire(q)

Spec == Init /\ [][Next]_vars

-----------------------------------------------------------------------------
(* What is checked.                                                        *)

\* Type invariant.
TypeOK ==
  /\ DOMAIN semaphores_ \subseteq Semaphores
  /\ \A s \in DOMAIN semaphores_ :
       semaphores_[s] \in [marker : Markers, last_modifier_marker : Markers]
  /\ waiting_threads_ \in Seq([tid : Threads \cup {NoTid}, s : Timeline, value : Values])
  /\ sys_gettid \in BOOLEAN
  /\ queue_submit_index_ \in 0 .. MaxSubmits
  /\ queue_bind_sparse_index_ \in 0 .. MaxBinds
  /\ word \in [Markers -> [lo : 0 .. HalfRange - 1, hi : 0 .. HalfRange - 1]]
  /\ carved \in 0 .. MaxMarkers
  /\ \A s \in Binary : sem[s].value \in {0, 1}
  /\ \A s \in Timeline : sem[s].value \in Values \cup {0}
  /\ \A t \in Threads : call[t].s \subseteq Semaphores

\* The operations of calls that a queue has begun to execute.
UnderWay(q) ==
  LET next == SelectInSeq(todo[q], LAMBDA op : op.at = 1)
  IN ToSet(unretired[q])
       \cup ToSet(IF next = 0 THEN todo[q] ELSE SubSeq(todo[q], 1, next - 1))

\* No call that uses s is executed, by the host or by the GPU.
AtRest(s) ==
  /\ Usable(s)
  /\ \A q \in Queues : \A op \in UnderWay(q) : s \notin op.touches
  /\ \A t \in Threads : s \notin CallUses(t)

\* At rest, the value that a dump or a log shows for a tracked semaphore is
\* the semaphore's, so that a hung queue's submits are "WAITING_ON_SEMAPHORES"
\* exactly when they are (QueuedSubmitWaitingOnSemaphores): the resets and the
\* signals of the queues, the host's own signals and the handle's earlier
\* semaphores leave it exact.  It is claimed for an application that is
\* Serialised: where the update after a host wait overlaps a GPU signal, or a
\* sparse bind what other queues do, the value may stay behind until the
\* semaphore is signaled again.
ReportedValueIsExact ==
  \A s \in DOMAIN semaphores_ : AtRest(s) => GetSemaphoreValue(s) = sem[s].value

\* The value shown for a timeline semaphore, read at any moment between the
\* GPU's two writes of it, is never ahead of what the semaphore has reached or
\* the commands under way will signal (WriteMarker writes the low word first),
\* if the application is Serialised.
ReportedValueIsNotAhead ==
  \A s \in DOMAIN semaphores_ \cap Timeline :
    Usable(s) =>
      \/ GetSemaphoreValue(s) <= sem[s].value
      \/ \E q \in Queues : \E op \in UnderWay(q) :
           /\ op.kind = "end" /\ s \in DOMAIN op.signals
           /\ GetSemaphoreValue(s) <= op.signals[s]

\* A "Last modifier" that names a vkQueueSubmit or a vkQueueBindSparse names
\* the one that modified the semaphore last (PrintTrackedSemaphoreInfos), if the
\* application is Serialised.  Modifiers that name the host are left out: the
\* host writes the words of its own the other way round.
NamedModifierIsLast ==
  \A s \in DOMAIN semaphores_ :
    AtRest(s) /\ GetLastModifier(s).type \in {kModifierQueueSubmit, kModifierQueueBindSparse}
      => GetLastModifier(s) = sem[s].by

\* From its Pre to its Post hook a thread waits.
Waiters == {t \in Threads : call[t].pc \in {"wait", "update", "write"}}

\* Where the build knows thread ids, a thread that is blocked in
\* vkWaitSemaphores is in the dump's list with the semaphore and the value it
\* waits for, also when an earlier wait of its own failed and left an entry
\* behind (DumpWaitingThreads).  Without SYS_gettid every entry has the id 0,
\* and the end of a wait may remove the entry of another thread: the list still
\* has at least as many entries as there are threads that wait.
BlockedThreadsAreListed ==
  /\ sys_gettid =>
       \A t \in Threads : call[t].pc = "wait" =>
         \E w \in ToSet(waiting_threads_) :
           w.tid = t /\ w.s \in call[t].s /\ w.value = call[t].value
  /\ Cardinality(Waiters) <= Len(waiting_threads_)
=============================================================================
