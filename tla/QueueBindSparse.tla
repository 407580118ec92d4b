--------------------------- MODULE QueueBindSparse ---------------------------
(***************************************************************************)
(* vkQueueBindSparse with semaphore tracking (QueueBindSparse in           *)
(* src/gfr.cc, src/bind_sparse_utils.cc).  The layer splits the call: a    *)
(* helper vkQueueSubmit, with a command buffer that writes the semaphores' *)
(* markers, goes before each bind info that waits on a binary semaphore    *)
(* and after each one that signals.  The loop that sends the pieces to the *)
(* driver's queue is one step per iteration here.                          *)
(***************************************************************************)
EXTENDS Integers, Sequences, FiniteSets

CONSTANTS
  Semaphores, Binary,  \* all semaphores, and the binary ones
  BindInfos,           \* the VkBindSparseInfos an application may pass
  MaxBindInfos,        \* bound: bindInfoCount
  Failures             \* the driver's calls that may fail: "bind", "submit"

ASSUME BinaryAssumption == Binary \subseteq Semaphores

ASSUME BindInfosAssumption ==
  BindInfos \subseteq [waits : SUBSET Semaphores, signals : SUBSET Semaphores]

ASSUME FailuresAssumption ==
  MaxBindInfos \in Nat /\ Failures \subseteq {"bind", "submit"}

VARIABLES
  pBindInfo,                  \* the application's bind infos
  signaled,                   \* binary semaphores with a pending signal
  pc,                         \* "start", "loop", "rest" or "returned"
  i,                          \* position in queue_operation_types
  next_bind_sparse_info_index,
  available_bind_sparse_info_counter,
  next_submit_info_index,
  last_bind_result,
  queue                       \* what the driver's queue has accepted

loop == <<i, next_bind_sparse_info_index, available_bind_sparse_info_counter,
          next_submit_info_index, last_bind_result>>
vars == <<pBindInfo, signaled, pc, loop, queue>>

bindInfoCount == Len(pBindInfo)

Operation(waits, signals, binds, fence) ==
  [waits |-> waits, signals |-> signals, binds |-> binds, fence |-> fence]

-----------------------------------------------------------------------------
(* The queue's operations in order, on binary semaphores that carry at     *)
(* most one signal: a wait takes the signal, a signal needs its place.     *)

\* The semaphores that have a signal after each of the operations.
Signaled(ops, initially) ==
  LET on[k \in 0 .. Len(ops)] ==
        IF k = 0 THEN initially
        ELSE (on[k - 1] \ ops[k].waits) \cup (ops[k].signals \cap Binary)
  IN on

Possible(op, on) ==
  op.waits \cap Binary \subseteq on /\ op.signals \cap (on \ op.waits) = {}

Executes(ops, initially) ==
  \A k \in 1 .. Len(ops) : Possible(ops[k], Signaled(ops, initially)[k - 1])

\* The operations of the application's own call.
AsCalled ==
  [k \in 1 .. bindInfoCount |->
     Operation(pBindInfo[k].waits, pBindInfo[k].signals, {k}, FALSE)]

Init ==
  /\ pBindInfo \in UNION {[1 .. n -> BindInfos] : n \in 1 .. MaxBindInfos}
  /\ signaled \in SUBSET Binary
  /\ Executes(AsCalled, signaled)
  /\ pc = "start"
  /\ i = 1
  /\ next_bind_sparse_info_index = 0
  /\ available_bind_sparse_info_counter = 0
  /\ next_submit_info_index = 0
  /\ last_bind_result = "VK_SUCCESS"
  /\ queue = <<>>

-----------------------------------------------------------------------------
(* BindSparseUtils.                                                        *)

WaitsOnBinary(b) == b.waits \cap Binary # {}

ShouldExpand ==
  \E k \in 1 .. bindInfoCount :
    pBindInfo[k].signals # {} \/ WaitsOnBinary(pBindInfo[k])

\* Mutant: the helper that waits does not signal again.
WaitHelperKeeping(b) == Operation(b.waits, {}, {}, FALSE)

\* The helper before a bind info waits for what it waits for, and signals
\* the binary semaphores again for it.
WaitHelper(b) == Operation(b.waits, b.waits \cap Binary, {}, FALSE)

\* The helper after a bind info has lost its signals: the bind info has them.
SignalHelper(b) == Operation({}, {}, {}, FALSE)

When(condition, op) == IF condition THEN <<op>> ELSE <<>>

\* The operations for one bind info; {0} stands for kQueueBindSparse.
Expand(b) ==
  When(WaitsOnBinary(b), WaitHelper(b))
  \o <<Operation({}, {}, {0}, FALSE)>>
  \o When(b.signals # {}, SignalHelper(b))

\* queue_operation_types with the submit_infos in their places.
queue_operations ==
  LET expanded[k \in 0 .. bindInfoCount] ==
        IF k = 0 THEN <<>> ELSE expanded[k - 1] \o Expand(pBindInfo[k])
  IN expanded[bindInfoCount]

IsSubmit(op) == op.binds = {}

-----------------------------------------------------------------------------
(* QueueBindSparse.                                                        *)

\* dispatch_table.QueueBindSparse(queue, n, &pBindInfo[first], fence).  The
\* bind infos past the end of the array are whatever lies there.
Bind(first, n, fence) ==
  queue' = queue \o
    IF n = 0 THEN <<Operation({}, {}, {}, fence)>>
    ELSE [k \in 1 .. n |->
            LET b == IF first + k <= bindInfoCount THEN pBindInfo[first + k]
                     ELSE [waits |-> {}, signals |-> {}]
            IN Operation(b.waits, b.signals, {first + k}, fence /\ k = n)]

\* A call that fails leaves the queue as it was.
BindCall(first, n, fence, result) ==
  \/ result = "VK_SUCCESS" /\ Bind(first, n, fence)
  \/ result = "VK_ERROR" /\ "bind" \in Failures /\ UNCHANGED queue

Results == {"VK_SUCCESS", "VK_ERROR"}

Start ==
  /\ pc = "start"
  /\ ShouldExpand
  /\ pc' = "loop"
  /\ UNCHANGED <<pBindInfo, signaled, loop, queue>>

\* The call is passed on as it is: there is nothing to track, or the helper
\* command buffers cannot be allocated.
PassOn ==
  /\ pc = "start"
  /\ \E result \in Results :
       /\ BindCall(0, bindInfoCount, TRUE, result)
       /\ last_bind_result' = result
  /\ pc' = "returned"
  /\ UNCHANGED <<pBindInfo, signaled, i, next_bind_sparse_info_index,
                 available_bind_sparse_info_counter, next_submit_info_index>>

InLoop == pc = "loop" /\ i <= Len(queue_operations)

\* kQueueBindSparse: the bind info is counted, to be sent with others.
CountBindInfo ==
  /\ InLoop /\ ~IsSubmit(queue_operations[i])
  /\ available_bind_sparse_info_counter' = available_bind_sparse_info_counter + 1
  /\ i' = i + 1
  /\ UNCHANGED <<pBindInfo, signaled, pc, next_bind_sparse_info_index,
                 next_submit_info_index, last_bind_result, queue>>

\* Mutant: the fence goes with the bind infos sent before any helper.
FenceAlways == TRUE

\* Mutant: the last bind info is taken for the one after it.
LastIncludedOffByOne ==
  bindInfoCount + 1 =
    next_bind_sparse_info_index + available_bind_sparse_info_counter

\* Signal the fence only if the last bind info is included.
LastIncluded ==
  bindInfoCount =
    next_bind_sparse_info_index + available_bind_sparse_info_counter

\* Mutant: the counter is not cleared after the bind infos are sent.
SentKeepingCounter ==
  /\ next_bind_sparse_info_index' =
       next_bind_sparse_info_index + available_bind_sparse_info_counter
  /\ UNCHANGED available_bind_sparse_info_counter

\* Mutant: the index stays before the bind infos that were sent.
SentKeepingIndex ==
  /\ available_bind_sparse_info_counter' = 0
  /\ UNCHANGED next_bind_sparse_info_index

Sent ==
  /\ next_bind_sparse_info_index' =
       next_bind_sparse_info_index + available_bind_sparse_info_counter
  /\ available_bind_sparse_info_counter' = 0

\* Before a helper, the bind infos counted so far.  A failure breaks the loop.
SendAvailable ==
  /\ InLoop /\ IsSubmit(queue_operations[i])
  /\ available_bind_sparse_info_counter > 0
  /\ \E result \in Results :
       /\ BindCall(next_bind_sparse_info_index,
                   available_bind_sparse_info_counter, LastIncluded, result)
       /\ last_bind_result' = result
       /\ IF result = "VK_SUCCESS"
            THEN Sent /\ UNCHANGED pc
            ELSE /\ pc' = "rest"
                 /\ UNCHANGED <<next_bind_sparse_info_index,
                                available_bind_sparse_info_counter>>
  /\ UNCHANGED <<pBindInfo, signaled, i, next_submit_info_index>>

\* The helper.  A failure breaks the loop with last_bind_result a success.
SendHelper ==
  /\ InLoop /\ IsSubmit(queue_operations[i])
  /\ available_bind_sparse_info_counter = 0
  /\ \/ /\ queue' = Append(queue, queue_operations[i])
        /\ next_submit_info_index' = next_submit_info_index + 1
        /\ i' = i + 1
        /\ UNCHANGED pc
     \/ /\ "submit" \in Failures
        /\ pc' = "rest"
        /\ UNCHANGED <<queue, next_submit_info_index, i>>
  /\ UNCHANGED <<pBindInfo, signaled, next_bind_sparse_info_index,
                 available_bind_sparse_info_counter, last_bind_result>>

LoopEnds ==
  /\ pc = "loop" /\ i > Len(queue_operations)
  /\ pc' = "rest"
  /\ UNCHANGED <<pBindInfo, signaled, loop, queue>>

\* The remaining bind infos at once, after a bind that failed ...
SendRestAfterFailure ==
  /\ pc = "rest" /\ last_bind_result # "VK_SUCCESS"
  /\ \E result \in Results :
       /\ BindCall(next_bind_sparse_info_index,
                   bindInfoCount - next_bind_sparse_info_index, TRUE, result)
       /\ last_bind_result' = result
  /\ pc' = "returned"
  /\ UNCHANGED <<pBindInfo, signaled, i, next_bind_sparse_info_index,
                 available_bind_sparse_info_counter, next_submit_info_index>>

\* ... or if any are found to remain, counted from the helpers sent.
Remaining ==
  bindInfoCount >
    next_bind_sparse_info_index + available_bind_sparse_info_counter

\* bindInfoCount - next_submit_info_index in uint32_t.  Below 0 it wraps to
\* nearly 2^32, cut here at bindInfoCount (bound).
RestCount ==
  LET n == bindInfoCount - next_submit_info_index
  IN IF n < 0 THEN bindInfoCount ELSE n

SendRest ==
  /\ pc = "rest" /\ last_bind_result = "VK_SUCCESS" /\ Remaining
  /\ \E result \in Results :
       /\ BindCall(next_bind_sparse_info_index, RestCount, TRUE, result)
       /\ last_bind_result' = result
  /\ pc' = "returned"
  /\ UNCHANGED <<pBindInfo, signaled, i, next_bind_sparse_info_index,
                 available_bind_sparse_info_counter, next_submit_info_index>>

NothingRemains ==
  /\ pc = "rest" /\ last_bind_result = "VK_SUCCESS" /\ ~Remaining
  /\ pc' = "returned"
  /\ UNCHANGED <<pBindInfo, signaled, loop, queue>>

Next ==
  \/ Start \/ PassOn \/ CountBindInfo \/ SendAvailable \/ SendHelper
  \/ LoopEnds \/ SendRestAfterFailure \/ SendRest \/ NothingRemains

Spec == Init /\ [][Next]_vars

-----------------------------------------------------------------------------
Taken == UNION {queue[k].binds : k \in 1 .. Len(queue)}

\* How many of the first n operations bind.
Binds(ops, n) == Cardinality({k \in 1 .. n : ~IsSubmit(ops[k])})

\* Type invariant.
TypeOK ==
  /\ pBindInfo \in Seq(BindInfos)
  /\ signaled \subseteq Binary
  /\ pc \in {"start", "loop", "rest", "returned"}
  /\ i \in 1 .. 3 * MaxBindInfos + 1
  /\ next_bind_sparse_info_index \in 0 .. bindInfoCount
  /\ available_bind_sparse_info_counter \in 0 .. bindInfoCount
  /\ next_submit_info_index \in 0 .. 2 * bindInfoCount
  /\ last_bind_result \in Results
  /\ queue \in Seq([waits : SUBSET Semaphores, signals : SUBSET Semaphores,
                    binds : SUBSET Nat, fence : BOOLEAN])

\* A helper other than a first one failed and broke the loop: the bind infos
\* counted before it had been sent.
HelperFailed ==
  /\ pc \in {"rest", "returned"}
  /\ 1 < i /\ i <= Len(queue_operations)
  /\ available_bind_sparse_info_counter = 0

Sparse == INSTANCE SparseBinding
            WITH count <- bindInfoCount, bound <- Cardinality(Taken),
                 fenced <- \E k \in 1 .. Len(queue) : queue[k].fence

\* The queue takes the bind infos in the order of the array, none twice and
\* none left out, also when a helper fails and the rest is sent at once.
InOrder ==
  \A k \in 1 .. Len(queue) :
    IsSubmit(queue[k]) \/ queue[k].binds = {Binds(queue, k)}

\* However the call is split, and wherever a bind of the driver fails, the
\* queue takes the bind infos as SparseBinding says: in order, none twice,
\* and the fence with the last of them (QueueBindSparse's two indices).  Only
\* what follows a helper that failed is not such a step: its count is taken
\* from the helpers.
BindsAsAsked ==
  Sparse!Init /\ [][Sparse!Give \/ HelperFailed]_(Sparse!vars)

\* No piece waits for a binary semaphore whose signal another piece, or a
\* helper, has taken, and none is signaled twice: the split call cannot hang
\* the queue where the application's own call would not (GetWaitBinarySemaphores).
HelpersKeepSemaphores == Executes(queue, signaled)

\* A call that reports success, and whose last bind info signals a semaphore,
\* has given the queue every bind info and the fence, unless a helper failed.
SignalingCallIsComplete ==
  pc = "returned" /\ last_bind_result = "VK_SUCCESS" /\ ~HelperFailed
  /\ pBindInfo[bindInfoCount].signals # {} =>
    /\ Taken = 1 .. bindInfoCount
    /\ \E k \in 1 .. Len(queue) : queue[k].fence

\* "If any remaining bind sparse infos, submit them all" (gfr.cc): a call that
\* reports success has given every bind info to the queue.
RemainingAreSubmitted ==
  pc = "returned" /\ last_bind_result = "VK_SUCCESS" =>
    1 .. bindInfoCount \subseteq Taken
=============================================================================
