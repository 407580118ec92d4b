---------------------------- MODULE CommandBuffer ----------------------------
(***************************************************************************)
(* The tracking of a VkCommandBuffer by the layer: GFR::CommandBuffer      *)
(* (src/command.cc), the generated command tracker, and the choice of what *)
(* a dump prints (src/device.cc).                                          *)
(*                                                                         *)
(* While the application records, the layer adds marker writes to the      *)
(* driver's command stream: a TOP_OF_PIPE write when a command is fetched  *)
(* and a BOTTOM_OF_PIPE write when everything before it has retired.  The  *)
(* GPU performs them at its own pace; a dump reads the two marker words    *)
(* and reconstructs how far the GPU got.  An application call (Pre hook,   *)
(* driver call, Post hook) is one step: Vulkan makes the application       *)
(* synchronise the calls on one command buffer.                            *)
(*                                                                         *)
(* Marker words are uint32_t of two halves: the high one identifies the    *)
(* buffer's recording, the low one the command.  LowRange and HighRange    *)
(* are 2^16 in the code and small here.                                    *)
(***************************************************************************)
EXTENDS Integers, Sequences

CONSTANTS
  Primaries, Secondaries,  \* command buffer handles by level
  LowRange, HighRange,     \* values of each half of a marker word
  Configs                  \* the options of the layer with an application

CommandBuffers == Primaries \cup Secondaries
Wrap == LowRange * HighRange

ASSUME RangeAssumption ==
  LowRange \in Nat \ {0, 1} /\ HighRange \in Nat \ {0, 1}

\* A configuration: GFR_INSTRUMENT_ALL_COMMANDS, GFR_DUMP_ALL_COMMAND_BUFFERS,
\* whether recordings are submitted once and then recorded anew, the driver
\* calls that may fail, and how many vkCmd commands are recorded in each of
\* the buffers that the application allocates (a bound).
ASSUME ConfigAssumption ==
  \A c \in Configs :
    /\ c.InstrumentAll \in BOOLEAN /\ c.DumpAll \in BOOLEAN /\ c.OneTime \in BOOLEAN
    /\ c.Failures \subseteq {"markers", "begin", "end", "submit"}
    /\ DOMAIN c.MaxCommands \subseteq CommandBuffers
    /\ \A b \in DOMAIN c.MaxCommands : c.MaxCommands[b] \in Nat

ASSUME LevelAssumption == Primaries \cap Secondaries = {}

VARIABLES
  config,          \* one of Configs, for good
  \* The layer's objects.
  has_buffer_marker,
  begin_marker_value,
  buffer_state,
  commands,        \* tracker_.commands_
  high_bits,       \* command_buffer_marker_high_bits
  \* Marker memory: the word of each buffer's top and bottom marker.
  top, bottom,
  \* The driver and the GPU.
  drv,             \* Vulkan's lifecycle state, "none" when not allocated
  stream,          \* the driver's commands, secondaries' inlined
  front, back      \* how many of them the GPU has fetched and retired

object == <<has_buffer_marker, begin_marker_value, high_bits>>
markers == <<top, bottom>>
gpu == <<front, back>>
vars == <<config, object, buffer_state, commands, markers, drv, stream, gpu>>

InstrumentAll == config.InstrumentAll
DumpAll == config.DumpAll
OneTime == config.OneTime
Failures == config.Failures
MaxCommands == config.MaxCommands

CommandType == {"begin", "instrumented", "plain", "execute", "end"}

BufferState == {"kInitial", "kRecording", "kExecutable", "kPending",
                "kInitialReset"}

\* The states that only exist in reports.
NotStarted == "kSubmittedExecutionNotStarted"
Incomplete == "kSubmittedExecutionIncomplete"
Completed  == "kSubmittedExecutionCompleted"

end_marker_value(c) == begin_marker_value[c] + (LowRange - 1)

Init ==
  /\ config \in Configs
  /\ has_buffer_marker = [c \in CommandBuffers |-> FALSE]
  /\ begin_marker_value = [c \in CommandBuffers |-> 0]
  /\ buffer_state = [c \in CommandBuffers |-> "kInitial"]
  /\ commands = [c \in CommandBuffers |-> <<>>]
  /\ high_bits = 1
  /\ top = [c \in CommandBuffers |-> 0]
  /\ bottom = [c \in CommandBuffers |-> 0]
  /\ drv = [c \in CommandBuffers |-> "none"]
  /\ stream = [c \in CommandBuffers |-> <<>>]
  /\ front = [p \in Primaries |-> 0]
  /\ back = [p \in Primaries |-> 0]

-----------------------------------------------------------------------------
(* What the driver requires of the application, and does.                  *)

Elements(s) == {s[i] : i \in 1 .. Len(s)}

ExecutedBy(p) == UNION {cmd.pCommandBuffers : cmd \in Elements(commands[p])}

\* Changing a secondary invalidates the primaries that recorded it.
DriverState(c, state) ==
  drv' = [b \in CommandBuffers |->
            IF b = c THEN state
            ELSE IF /\ b \in Primaries /\ c \in ExecutedBy(b)
                    /\ drv[b] \in {"recording", "executable"}
                 THEN "invalid" ELSE drv[b]]

\* The progress of a recording that is dropped is forgotten.
DropProgress(C) ==
  /\ front' = [p \in Primaries |-> IF p \in C THEN 0 ELSE front[p]]
  /\ back' = [p \in Primaries |-> IF p \in C THEN 0 ELSE back[p]]

Write(at, c, value) == [at |-> at, cb |-> c, value |-> value]

\* CommandBuffer::WriteMarker: nothing is recorded without markers.
WriteMarker(at, c, value) ==
  IF has_buffer_marker[c] THEN <<Write(at, c, value)>> ELSE <<>>

\* begin_marker_value_ + id in uint32_t.
MarkerValue(c, id) == (begin_marker_value[c] + id) % Wrap

-----------------------------------------------------------------------------
(* vkAllocateCommandBuffers, vkFreeCommandBuffers.                         *)

\* Mutant: a zero begin marker is not skipped.
NextHighBitsUnchecked == high_bits

\* The double check of the constructor: a fetch_add that returned 0 is
\* repeated.
NextHighBits == IF high_bits = 0 THEN 1 ELSE high_bits

\* The words that FreeMarker put in the recycled list and no buffer holds.
RecycledWords ==
  LET free == {c \in DOMAIN MaxCommands : ~has_buffer_marker[c]}
  IN {top[c] : c \in free} \cup {bottom[c] : c \in free}

\* The constructor; the words of recycled markers keep their old contents.
Allocate(c) ==
  /\ drv[c] = "none" /\ c \in DOMAIN MaxCommands
  /\ DriverState(c, "initial")
  /\ buffer_state' = [buffer_state EXCEPT ![c] = "kInitial"]
  /\ \/ /\ has_buffer_marker' = [has_buffer_marker EXCEPT ![c] = TRUE]
        /\ begin_marker_value' =
             [begin_marker_value EXCEPT ![c] = NextHighBits * LowRange]
        /\ high_bits' = (NextHighBits + 1) % HighRange
        /\ \E t, b \in RecycledWords :
             /\ top' = [top EXCEPT ![c] = t]
             /\ bottom' = [bottom EXCEPT ![c] = b]
     \/ /\ "markers" \in Failures
        /\ UNCHANGED <<object, markers>>
  /\ UNCHANGED <<commands, stream, gpu>>

\* The destructor returns the markers; the words are not cleared.
Free(c) ==
  /\ drv[c] \notin {"none", "pending"}
  /\ DriverState(c, "none")
  /\ has_buffer_marker' = [has_buffer_marker EXCEPT ![c] = FALSE]
  /\ begin_marker_value' = [begin_marker_value EXCEPT ![c] = 0]
  /\ buffer_state' = [buffer_state EXCEPT ![c] = "kInitial"]
  /\ commands' = [commands EXCEPT ![c] = <<>>]
  /\ stream' = [stream EXCEPT ![c] = <<>>]
  /\ DropProgress({c})
  /\ UNCHANGED <<high_bits, markers>>

-----------------------------------------------------------------------------
(* Recording.                                                              *)

\* Mutant: the words of the previous recording survive a reset.
KeepMarkers(C) == UNCHANGED markers

\* CommandBuffer::Reset, the host's writes.
ClearMarkers(C) ==
  /\ top' = [c \in CommandBuffers |->
               IF c \in C /\ has_buffer_marker[c] THEN 0 ELSE top[c]]
  /\ bottom' = [c \in CommandBuffers |->
                  IF c \in C /\ has_buffer_marker[c] THEN 0 ELSE bottom[c]]

Command(id, type, executed) ==
  [id |-> id, type |-> type, pCommandBuffers |-> executed]

\* TrackPreX: ids count from 1 in recording order.
Track(c, type, executed) ==
  commands' = [commands EXCEPT ![c] =
                 Append(@, Command(Len(@) + 1, type, executed))]

\* PreBeginCommandBuffer resets and tracks; PostBegin writes both markers
\* into the stream, after the driver's call.  When that failed the buffer
\* is not recording and drops them, but the layer's state is kRecording.
Begin(c, ok) ==
  /\ drv[c] \in {"initial", "executable", "invalid"}
  /\ ok \/ "begin" \in Failures
  /\ DriverState(c, IF ok THEN "recording" ELSE "invalid")
  /\ ClearMarkers({c})
  /\ commands' = [commands EXCEPT ![c] = <<Command(1, "begin", {})>>]
  /\ buffer_state' = [buffer_state EXCEPT ![c] = "kRecording"]
  /\ stream' = [stream EXCEPT ![c] =
                  IF ok THEN WriteMarker("top", c, MarkerValue(c, 1))
                             \o WriteMarker("bottom", c, MarkerValue(c, 1))
                  ELSE <<>>]
  /\ DropProgress({c})
  /\ UNCHANGED object

Instrumented(type) == type # "plain" \/ InstrumentAll

\* Mutant: the bottom marker is written before the command.
RecordedEarlyBottom(c, type, id, body) ==
  IF ~Instrumented(type) THEN body
  ELSE WriteMarker("top", c, MarkerValue(c, id))
       \o WriteMarker("bottom", c, MarkerValue(c, id)) \o body

\* PreX, the driver's command and PostX, of an instrumented command or not.
Recorded(c, type, id, body) ==
  IF ~Instrumented(type) THEN body
  ELSE WriteMarker("top", c, MarkerValue(c, id))
       \o body \o WriteMarker("bottom", c, MarkerValue(c, id))

Recording(c) == drv[c] = "recording" /\ Len(commands[c]) <= MaxCommands[c]

\* Any vkCmdX but vkCmdExecuteCommands.
Record(c, type) ==
  LET id == Len(commands[c]) + 1 IN
  /\ Recording(c)
  /\ Track(c, type, {})
  /\ stream' = [stream EXCEPT ![c] =
                  @ \o Recorded(c, type, id, <<Write("run", c, id)>>)]
  /\ UNCHANGED <<object, buffer_state, markers, drv, gpu>>

\* vkCmdExecuteCommands.  Recording a secondary in a second primary
\* invalidates the first.
ExecuteCommands(p, s) ==
  LET id == Len(commands[p]) + 1 IN
  /\ Recording(p)
  /\ drv[s] = "executable" /\ s \notin ExecutedBy(p)
  /\ drv' = [b \in CommandBuffers |->
               IF /\ b \in Primaries \ {p} /\ s \in ExecutedBy(b)
                  /\ drv[b] \in {"recording", "executable"}
               THEN "invalid" ELSE drv[b]]
  /\ Track(p, "execute", {s})
  /\ stream' = [stream EXCEPT ![p] =
                  @ \o Recorded(p, "execute", id,
                                <<Write("run", p, id)>> \o stream[s])]
  /\ UNCHANGED <<object, buffer_state, markers, gpu>>

\* Mutant: the end of the buffer is not marked.
EndMarkerMissing(c) == <<>>

\* WriteEndCommandBufferMarker.
EndMarker(c) == WriteMarker("bottom", c, end_marker_value(c))

End(c, ok) ==
  /\ drv[c] = "recording"
  /\ ok \/ "end" \in Failures
  /\ DriverState(c, IF ok THEN "executable" ELSE "invalid")
  /\ Track(c, "end", {})
  /\ stream' = [stream EXCEPT ![c] = @ \o EndMarker(c)]
  /\ buffer_state' = [buffer_state EXCEPT ![c] = "kExecutable"]
  /\ UNCHANGED <<object, markers, gpu>>

\* vkResetCommandBuffer of one buffer, vkResetCommandPool of all: every
\* buffer is Reset; the driver drops the recordings, and the primaries
\* that recorded one of them.
Reset(C) ==
  LET live == {c \in C : drv[c] # "none"} IN
  /\ live # {}
  /\ \A c \in C : drv[c] # "pending"
  /\ ClearMarkers(live)
  /\ buffer_state' = [c \in CommandBuffers |->
                        IF c \in live THEN "kInitialReset" ELSE buffer_state[c]]
  /\ commands' = [c \in CommandBuffers |->
                    IF c \in live THEN <<>> ELSE commands[c]]
  /\ stream' = [c \in CommandBuffers |->
                  IF c \in live THEN <<>> ELSE stream[c]]
  /\ drv' = [c \in CommandBuffers |->
               IF c \in live THEN "initial"
               ELSE IF /\ c \in Primaries /\ ExecutedBy(c) \cap live # {}
                       /\ drv[c] \in {"recording", "executable"}
                    THEN "invalid" ELSE drv[c]]
  /\ DropProgress(live)
  /\ UNCHANGED object

-----------------------------------------------------------------------------
(* Submission and execution.                                               *)

\* PreQueueSubmit marks the buffer before the driver's vkQueueSubmit, whose
\* failure it does not undo.
Submit(p, ok) ==
  /\ drv[p] = "executable"
  /\ ok \/ "submit" \in Failures
  /\ buffer_state' = [buffer_state EXCEPT ![p] = "kPending"]
  /\ IF ok
       THEN /\ drv' = [c \in CommandBuffers |->
                         IF c \in {p} \cup ExecutedBy(p) THEN "pending"
                         ELSE drv[c]]
            /\ front' = [front EXCEPT ![p] = 0]
            /\ back' = [back EXCEPT ![p] = 0]
       ELSE UNCHANGED <<drv, gpu>>
  /\ UNCHANGED <<object, commands, markers, stream>>

\* The GPU fetches one more command of a submission.
GPUFetch(p) ==
  /\ drv[p] = "pending"
  /\ front[p] < Len(stream[p])
  /\ LET op == stream[p][front[p] + 1]
     IN top' = IF op.at = "top" THEN [top EXCEPT ![op.cb] = op.value] ELSE top
  /\ front' = [front EXCEPT ![p] = @ + 1]
  /\ UNCHANGED <<object, buffer_state, commands, bottom, drv, stream, back>>

\* The oldest fetched command retires.
GPURetire(p) ==
  /\ drv[p] = "pending"
  /\ back[p] < front[p]
  /\ LET op == stream[p][back[p] + 1]
     IN bottom' = IF op.at = "bottom" THEN [bottom EXCEPT ![op.cb] = op.value]
                  ELSE bottom
  /\ back' = [back EXCEPT ![p] = @ + 1]
  /\ UNCHANGED <<object, buffer_state, commands, top, drv, stream, front>>

\* The application learns that the submission is done.  The layer does not.
Finished(p) ==
  /\ drv[p] = "pending"
  /\ back[p] = Len(stream[p])
  /\ drv' = [c \in CommandBuffers |->
               IF c \in {p} \cup ExecutedBy(p)
               THEN IF OneTime THEN "invalid" ELSE "executable"
               ELSE drv[c]]
  /\ UNCHANGED <<object, buffer_state, commands, markers, stream, gpu>>

Next ==
  /\ UNCHANGED config
  /\ \/ \E c \in CommandBuffers :
          \/ Allocate(c) \/ Free(c)
          \/ \E ok \in BOOLEAN : Begin(c, ok) \/ End(c, ok)
          \/ \E type \in {"instrumented", "plain"} : Record(c, type)
          \/ Reset({c})
     \/ Reset(CommandBuffers)
     \/ \E p \in Primaries :
          \/ \E s \in Secondaries : ExecuteCommands(p, s)
          \/ \E ok \in BOOLEAN : Submit(p, ok)
          \/ GPUFetch(p) \/ GPURetire(p) \/ Finished(p)

Spec == Init /\ [][Next]_vars

\* A GPU that does not hang executes what was submitted.
FairSpec ==
  Spec /\ \A p \in Primaries : WF_vars(GPUFetch(p) /\ UNCHANGED config)
                               /\ WF_vars(GPURetire(p) /\ UNCHANGED config)

-----------------------------------------------------------------------------
(* The reports: what a dump reads from the objects and the marker words.   *)

WasSubmittedToQueue(c) == buffer_state[c] = "kPending"

StartedExecution(c) == top[c] >= begin_marker_value[c]

CompletedExecution(c) == bottom[c] = end_marker_value(c)

GetCommandBufferState(c) ==
  IF ~has_buffer_marker[c] \/ (c \in Primaries /\ ~WasSubmittedToQueue(c))
  THEN buffer_state[c]
  ELSE IF ~StartedExecution(c) THEN NotStarted
  ELSE IF ~CompletedExecution(c) THEN Incomplete
  ELSE Completed

\* uint32_t subtraction.
Distance(c, word) == (word - begin_marker_value[c]) % Wrap

\* Mutant: the bottom marker is read for the top one.
LastStartedFromBottom(c) == Distance(c, bottom[c])

GetLastStartedCommand(c) == Distance(c, top[c])

GetLastCompleteCommand(c) ==
  IF CompletedExecution(c) THEN commands[c][Len(commands[c])].id
  ELSE Distance(c, bottom[c])

\* The state of a secondary, from that of its vkCmdExecuteCommands.
GetSecondaryCommandBufferState(s, execute_state) ==
  CASE execute_state = "NOT_SUBMITTED" -> "kNotSubmitted"
    [] execute_state = "NOT_STARTED"   -> NotStarted
    [] execute_state = "COMPLETED"     -> Completed
    [] OTHER                           -> GetCommandBufferState(s)

\* Mutant: a command is complete once the GPU has fetched it.
ByFetchedCommand(c, id) ==
  CASE id > GetLastStartedCommand(c)   -> "NOT_STARTED"
    [] id <= GetLastStartedCommand(c)  -> "COMPLETED"

ByMarkers(c, id) ==
  CASE id > GetLastStartedCommand(c)   -> "NOT_STARTED"
    [] id <= GetLastStartedCommand(c)
       /\ id <= GetLastCompleteCommand(c) -> "COMPLETED"
    [] OTHER                           -> "INCOMPLETE"

GetCommandState(c, cb_state, cmd) ==
  CASE c \in Primaries /\ ~WasSubmittedToQueue(c)  -> "NOT_SUBMITTED"
    [] c \in Primaries /\ WasSubmittedToQueue(c) /\ has_buffer_marker[c] ->
         ByMarkers(c, cmd.id)
    [] c \in Secondaries /\ has_buffer_marker[c] ->
         (CASE cb_state = "kNotSubmitted" -> "NOT_SUBMITTED"
            [] cb_state = NotStarted      -> "NOT_STARTED"
            [] cb_state = Completed       -> "COMPLETED"
            [] OTHER                      -> ByMarkers(c, cmd.id))
    [] OTHER -> "PENDING"

\* The buffers of DumpIncompleteCommandBuffers, and those for which
\* ValidateCommandBufferNotInUse reports "in use by GPU".
InUse(c) ==
  has_buffer_marker[c] /\ WasSubmittedToQueue(c) /\ ~CompletedExecution(c)

Dumped == {p \in Primaries : drv[p] # "none" /\ (DumpAll \/ InUse(p))}

\* DumpContents prints the commands of an incomplete buffer, or all.
Printed(c, cb_state) ==
  {[cb |-> c, id |-> cmd.id, type |-> cmd.type, executes |-> cmd.pCommandBuffers,
    state |-> GetCommandState(c, cb_state, cmd)] :
     cmd \in IF DumpAll \/ cb_state = Incomplete THEN Elements(commands[c])
             ELSE {}}

\* The command lines of the dump of a primary: its own and, under each
\* vkCmdExecuteCommands, those of the secondaries (DumpCmdExecuteCommands).
Lines(p) ==
  LET own == Printed(p, GetCommandBufferState(p))
  IN own \cup
     UNION {UNION {Printed(s, GetSecondaryCommandBufferState(s, line.state)) :
                     s \in line.executes} : line \in own}

-----------------------------------------------------------------------------
(* What is checked.                                                        *)

\* Type invariant of the layer's objects, the markers and the GPU's state.
TypeOK ==
  /\ config \in Configs
  /\ has_buffer_marker \in [CommandBuffers -> BOOLEAN]
  /\ begin_marker_value \in [CommandBuffers -> 0 .. Wrap - LowRange]
  /\ \A c \in CommandBuffers : has_buffer_marker[c] => begin_marker_value[c] # 0
  /\ buffer_state \in [CommandBuffers -> BufferState]
  /\ commands \in [CommandBuffers ->
       Seq([id : Nat, type : CommandType, pCommandBuffers : SUBSET Secondaries])]
  /\ high_bits \in 0 .. HighRange - 1
  /\ top \in [CommandBuffers -> 0 .. Wrap - 1]
  /\ bottom \in [CommandBuffers -> 0 .. Wrap - 1]
  /\ drv \in [CommandBuffers -> {"none", "initial", "recording", "executable",
                                 "pending", "invalid"}]
  /\ stream \in [CommandBuffers ->
       Seq([at : {"top", "bottom", "run"}, cb : CommandBuffers, value : Nat])]
  /\ front \in [Primaries -> Nat]
  /\ back \in [Primaries -> Nat]

InFlight(p) == drv[p] = "pending" /\ back[p] < Len(stream[p])

\* For a submitted buffer with markers the reported state is the GPU's:
\* not started before its first command is fetched, completed once its last
\* one has retired, incomplete in between (GetCommandBufferState on words
\* that an earlier recording, or an earlier owner, has written).
StateReportExact ==
  \A p \in Primaries :
    drv[p] = "pending" /\ has_buffer_marker[p] =>
      GetCommandBufferState(p) =
        IF front[p] = 0 THEN NotStarted
        ELSE IF InFlight(p) THEN Incomplete ELSE Completed

\* Every tracked buffer that the GPU has not finished is in the dump: "a log
\* of the command buffers that failed to execute" (README.md, Basic Usage).
IncompleteIsDumped ==
  \A p \in Primaries : has_buffer_marker[p] /\ InFlight(p) => p \in Dumped

\* The dump of incomplete buffers, and the message "Reset of VkCommandBuffer
\* in use by GPU", name only buffers that are in flight
\* (DumpCommandBuffers, ValidateCommandBufferNotInUse).
OnlyInFlightIsReported == \A p \in Primaries : InUse(p) => InFlight(p)

\* The place of a command in the driver's stream of the primary that runs it.
Places(p, line) ==
  {i \in 1 .. Len(stream[p]) : stream[p][i] = Write("run", line.cb, line.id)}

BeginRetired(c) == has_buffer_marker[c] /\ bottom[c] # 0

\* A command that a dump shows as completed, in the buffer itself or in a
\* secondary it executes, has retired: kCommandCompleted is "submitted and
\* executed" (command.h).  This holds once the buffer's begin marker has
\* retired: before, the bottom word is the 0 of Reset, and the difference
\* that GetLastCompleteCommand takes is larger than any id.
CompletedReportsAreTrueAfterBegin ==
  \A p \in Dumped : \A line \in Lines(p) :
    line.state = "COMPLETED" /\ BeginRetired(line.cb) =>
      \A i \in Places(p, line) : i <= back[p]

\* A command that a dump shows as not started has not been fetched by the
\* GPU: kCommandNotStarted is "submitted, not started" (command.h).  This holds
\* for the instrumented commands of a submission in flight: the others write
\* no marker, and a dump of all buffers may find a secondary that was recorded
\* anew under the vkCmdExecuteCommands of a primary that is done.
InstrumentedNotStartedReportsAreTrue ==
  \A p \in Dumped : \A line \in Lines(p) :
    drv[p] = "pending" /\ line.state = "NOT_STARTED" /\ Instrumented(line.type) =>
      \A i \in Places(p, line) : i > front[p]

\* When the GPU has stopped in the middle of a buffer, the dump points at the
\* commands it is running: an instrumented one that was fetched and has not
\* retired reads INCOMPLETE, in the primary and in the secondaries
\* (GetCommandState between the two markers).
RunningIsIncomplete ==
  \A p \in Dumped : \A line \in Lines(p) :
    drv[p] = "pending" /\ BeginRetired(line.cb) /\ Instrumented(line.type)
    /\ (\E i \in Places(p, line) : back[p] < i /\ i <= front[p])
      => line.state = "INCOMPLETE"

\* The abstract stage of a primary, from what the layer would report.
ReportedStage ==
  [p \in Primaries |->
     CASE GetCommandBufferState(p) = NotStarted -> "notStarted"
       [] GetCommandBufferState(p) = Incomplete -> "incomplete"
       [] GetCommandBufferState(p) = Completed  -> "completed"
       [] OTHER                                 -> "unsubmitted"]

Report == INSTANCE SubmissionReport WITH Buffers <- Primaries,
                                         report <- ReportedStage

\* The reports implement SubmissionReport: they move forward only, one stage
\* at a time, and no call on another buffer, no reuse of a marker and no
\* recording of a secondary takes one back.
ReportsMoveForward == Report!Spec

\* A submission that the GPU does not hang on leaves the dump of incomplete
\* buffers for good, until the buffer is submitted again.
SubmittedIsEventuallyComplete ==
  \A p \in Primaries :
    drv[p] = "pending" ~> (~InUse(p) /\ back[p] = Len(stream[p]))
=============================================================================
