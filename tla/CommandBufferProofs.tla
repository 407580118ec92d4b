------------------------- MODULE CommandBufferProofs -------------------------
(***************************************************************************)
(* CommandBuffer, for every set of buffers, every width of the halves of a *)
(* marker word and every number of recordings: types; and, as long as a    *)
(* recording is submitted once and fits in the low half, the reported      *)
(* state of a submission is the GPU's, the reports implement               *)
(* SubmissionReport, and what a dump says of single commands is true.      *)
(***************************************************************************)
EXTENDS CommandBuffer, SequenceTheorems, TLAPS

\* What the application and the layer's marker words must keep to: each
\* recording is executed once, and no command has the id of the end marker.
OneTimeAndShort ==
  /\ OneTime
  /\ \A b \in DOMAIN MaxCommands : MaxCommands[b] + 2 < LowRange

NoSubmitFails == "submit" \notin Failures

-----------------------------------------------------------------------------
(* The inductive invariant.                                                *)

Op == [at : {"top", "bottom", "run"}, cb : CommandBuffers, value : Nat]

\* The operations of a buffer's stream: its own and those of secondaries.
Ops(c) == {w \in Op : /\ w.cb \in {c} \cup Secondaries
                      /\ w.at # "run" => w.value < Wrap}

StreamsFit == \A c \in CommandBuffers : stream[c] \in Seq(Ops(c))

Typed == TypeOK /\ StreamsFit

\* What the GPU executes does not change under it.
InBounds == \A p \in Primaries : drv[p] = "pending" => front[p] <= Len(stream[p])

TypeInv == Typed /\ InBounds

\* The operations whose own markers are strictly between the first and the
\* last value of the buffer's recording.
Between(c) ==
  {w \in Ops(c) : w.cb = c /\ w.at # "run" =>
                    begin_marker_value[c] < w.value /\ w.value < end_marker_value(c)}

BeginsMarked(c) ==
  stream[c] # <<>> /\ stream[c][1] = Write("top", c, begin_marker_value[c] + 1)

\* A recording before and after vkEndCommandBuffer: it begins with a top
\* marker, and only its last operation writes the end marker.
Open(c) == BeginsMarked(c) /\ stream[c] \in Seq(Between(c))

Closed(c) ==
  /\ BeginsMarked(c)
  /\ stream[c][Len(stream[c])] = Write("bottom", c, end_marker_value(c))
  /\ \A i \in 1 .. Len(stream[c]) - 1 : stream[c][i] \in Between(c)

Clear(c) == top[c] = 0 /\ bottom[c] = 0

\* What the two words say of a submission in flight.
Progress(p) ==
  /\ back[p] <= front[p] /\ front[p] <= Len(stream[p])
  /\ IF front[p] = 0 THEN top[p] = 0 ELSE top[p] > begin_marker_value[p]
  /\ back[p] = Len(stream[p]) <=> CompletedExecution(p)

Marked(p) ==
  /\ drv[p] = "recording"  => Open(p) /\ Clear(p)
  /\ drv[p] = "executable" => Closed(p) /\ Clear(p)
  /\ drv[p] = "pending"    => Closed(p) /\ Progress(p)

\* A buffer that the layer still holds for submitted has been executed.
Settled(p) ==
  buffer_state[p] = "kPending" =>
    /\ drv[p] \in {"pending", "invalid"}
    /\ has_buffer_marker[p] /\ drv[p] = "invalid" =>
         top[p] > begin_marker_value[p] /\ CompletedExecution(p)

Faithful(p) ==
  /\ drv[p] # "none" => p \in DOMAIN MaxCommands
  /\ drv[p] = "pending" => buffer_state[p] = "kPending"
  /\ has_buffer_marker[p] => Marked(p)
  /\ NoSubmitFails => Settled(p)

IInv == TypeInv /\ OneTimeAndShort /\ \A p \in Primaries : Faithful(p)

-----------------------------------------------------------------------------
(* Words and sequences.                                                    *)

LEMMA WordSize ==
  /\ Wrap \in Nat /\ LowRange <= Wrap
  /\ \A h \in 0 .. HighRange - 1 : h * LowRange \in 0 .. Wrap - LowRange
  /\ \A h \in 1 .. HighRange - 1 : h * LowRange >= LowRange
<1> USE RangeAssumption
<1>1. Wrap \in Nat /\ LowRange <= Wrap BY DEF Wrap
<1>2. ASSUME NEW h \in 0 .. HighRange - 1
      PROVE  h * LowRange \in 0 .. Wrap - LowRange
  <2>1. (h + 1) * LowRange <= HighRange * LowRange OBVIOUS
  <2>2. h * LowRange \in Nat OBVIOUS
  <2>3. (h + 1) * LowRange = h * LowRange + LowRange OBVIOUS
  <2>4. HighRange * LowRange = Wrap BY DEF Wrap
  <2>5. QED BY <2>1, <2>2, <2>3, <2>4
<1>3. \A h \in 1 .. HighRange - 1 : h * LowRange >= LowRange OBVIOUS
<1>4. QED BY <1>1, <1>2, <1>3

LEMMA SmallMod ==
  ASSUME NEW w \in Nat \ {0}, NEW x \in 0 .. w - 1
  PROVE  x % w = x
OBVIOUS

LEMMA ModRange ==
  ASSUME NEW w \in Nat \ {0}, NEW x \in Nat
  PROVE  x % w \in 0 .. w - 1
OBVIOUS

LEMMA SeqOfMore ==
  ASSUME NEW S, NEW T, S \subseteq T, NEW s \in Seq(S)
  PROVE  s \in Seq(T)
OBVIOUS

-----------------------------------------------------------------------------
(* Types.                                                                  *)

LEMMA MarkersFit ==
  ASSUME TypeOK, NEW c \in CommandBuffers
  PROVE  /\ \A id \in Nat : MarkerValue(c, id) \in 0 .. Wrap - 1
         /\ end_marker_value(c) \in 0 .. Wrap - 1
<1>1. begin_marker_value[c] \in 0 .. Wrap - LowRange BY DEF TypeOK
<1>2. Wrap \in Nat \ {0} /\ LowRange \in Nat \ {0}
  BY WordSize, RangeAssumption
<1>3. ASSUME NEW id \in Nat PROVE MarkerValue(c, id) \in 0 .. Wrap - 1
  <2>1. begin_marker_value[c] + id \in Nat BY <1>1
  <2> DEFINE word == begin_marker_value[c] + id
  <2> HIDE DEF word
  <2>2. word % Wrap \in 0 .. Wrap - 1 BY <1>2, <2>1, ModRange DEF word
  <2>3. QED BY <2>2 DEF MarkerValue, word
<1>4. QED BY <1>1, <1>2, <1>3 DEF end_marker_value

LEMMA WriteFits ==
  ASSUME NEW c \in CommandBuffers, NEW at \in {"top", "bottom"},
         NEW value \in 0 .. Wrap - 1
  PROVE  WriteMarker(at, c, value) \in Seq(Ops(c))
<1>1. Write(at, c, value) \in Ops(c) BY WordSize DEF Write, Ops, Op
<1>2. <<Write(at, c, value)>> \in Seq(Ops(c)) BY <1>1
<1>3. QED BY <1>2, EmptySeq DEF WriteMarker

LEMMA RecordedFits ==
  ASSUME TypeOK, NEW c \in CommandBuffers, NEW type, NEW id \in Nat,
         NEW body \in Seq(Ops(c))
  PROVE  Recorded(c, type, id, body) \in Seq(Ops(c))
<1> DEFINE t == WriteMarker("top", c, MarkerValue(c, id))
           b == WriteMarker("bottom", c, MarkerValue(c, id))
<1>1. t \in Seq(Ops(c)) /\ b \in Seq(Ops(c)) BY MarkersFit, WriteFits
<1> HIDE DEF t, b
<1>2. t \o body \in Seq(Ops(c)) BY <1>1, ConcatProperties
<1>3. (t \o body) \o b \in Seq(Ops(c)) BY <1>1, <1>2, ConcatProperties
<1>4. QED BY <1>3 DEF Recorded, t, b

LEMMA RunFits ==
  ASSUME NEW c \in CommandBuffers, NEW id \in Nat
  PROVE  <<Write("run", c, id)>> \in Seq(Ops(c))
<1>1. Write("run", c, id) \in Ops(c) BY DEF Write, Ops, Op
<1>2. QED BY <1>1

LEMMA InlinedFits ==
  ASSUME StreamsFit, NEW p \in Primaries, NEW s \in Secondaries
  PROVE  stream[s] \in Seq(Ops(p))
<1>1. stream[s] \in Seq(Ops(s)) BY DEF StreamsFit, CommandBuffers
<1>2. Ops(s) \subseteq Ops(p) BY DEF Ops
<1>3. QED BY <1>1, <1>2, SeqOfMore

LEMMA StreamTyped ==
  ASSUME NEW st, st = [c \in CommandBuffers |-> st[c]],
         \A c \in CommandBuffers : st[c] \in Seq(Ops(c))
  PROVE  st \in [CommandBuffers -> Seq(Op)]
<1>1. ASSUME NEW c \in CommandBuffers PROVE st[c] \in Seq(Op)
  <2>1. Ops(c) \subseteq Op BY DEF Ops
  <2>2. QED BY <2>1, SeqOfMore
<1>2. QED BY <1>1

Tracked == [id : Nat, type : CommandType, pCommandBuffers : SUBSET Secondaries]

DriverStates ==
  {"none", "initial", "recording", "executable", "pending", "invalid"}

LEMMA InitTyped == Init => TypeInv
<1> SUFFICES ASSUME Init PROVE TypeInv
  OBVIOUS
<1>1. <<>> \in Seq(Tracked) /\ <<>> \in Seq(Op)
      /\ \A c \in CommandBuffers : <<>> \in Seq(Ops(c))
  BY EmptySeq
<1>2. StreamsFit BY <1>1 DEF Init, StreamsFit
<1>3. 0 \in 0 .. Wrap - LowRange /\ 0 \in 0 .. Wrap - 1
      /\ 1 \in 0 .. HighRange - 1
  BY WordSize, RangeAssumption
<1>4. TypeOK BY <1>1, <1>3 DEF Init, TypeOK, Tracked, Op, BufferState
<1>5. InBounds BY DEF Init, InBounds, CommandBuffers
<1>6. QED BY <1>2, <1>4, <1>5 DEF TypeInv, Typed

LEMMA TrackedFits ==
  ASSUME TypeOK, NEW c \in CommandBuffers, NEW type \in CommandType,
         NEW S \in SUBSET Secondaries, Track(c, type, S)
  PROVE  commands' \in [CommandBuffers -> Seq(Tracked)]
<1>1. commands[c] \in Seq(Tracked) BY DEF TypeOK, Tracked
<1>2. Command(Len(commands[c]) + 1, type, S) \in Tracked
  BY <1>1 DEF Command, Tracked
<1>3. Append(commands[c], Command(Len(commands[c]) + 1, type, S)) \in Seq(Tracked)
  BY <1>1, <1>2, AppendProperties
<1>4. QED BY <1>3 DEF Track, TypeOK, Tracked

LEMMA StateFits ==
  ASSUME TypeOK, NEW c, NEW state \in DriverStates, DriverState(c, state)
  PROVE  drv' \in [CommandBuffers -> DriverStates]
BY DEF TypeOK, DriverState, DriverStates

\* A step that keeps the types of the streams and of what else it writes.
LEMMA StreamStep ==
  ASSUME TypeInv, NEW c \in CommandBuffers, NEW s \in Seq(Ops(c)),
         stream' = [stream EXCEPT ![c] = s]
  PROVE  StreamsFit' /\ stream' \in [CommandBuffers -> Seq(Op)]
<1>1. ASSUME NEW b \in CommandBuffers PROVE stream'[b] \in Seq(Ops(b))
  BY DEF TypeInv, Typed, TypeOK, StreamsFit
<1>2. stream' = [b \in CommandBuffers |-> stream'[b]]
  BY DEF TypeInv, Typed, TypeOK
<1>3. QED BY <1>1, <1>2, StreamTyped DEF StreamsFit

LEMMA StreamKept ==
  ASSUME TypeInv, UNCHANGED stream
  PROVE  StreamsFit' /\ stream' \in [CommandBuffers -> Seq(Op)]
BY DEF TypeInv, Typed, TypeOK, StreamsFit, Op

LEMMA StepTyped == TypeInv /\ [Next]_vars => Typed'
<1> SUFFICES ASSUME TypeInv, [Next]_vars PROVE Typed'
  OBVIOUS
<1> USE DEF Op, Tracked, DriverStates
<1>0. TypeOK BY DEF TypeInv, Typed
<1>1. ASSUME NEW c \in CommandBuffers, Allocate(c), UNCHANGED config PROVE Typed'
  <2>1. StreamsFit' /\ stream' \in [CommandBuffers -> Seq(Op)]
    BY <1>1, StreamKept DEF Allocate
  <2>2. drv' \in [CommandBuffers -> DriverStates]
    BY <1>0, <1>1, StateFits DEF Allocate
  <2>3. /\ has_buffer_marker' \in [CommandBuffers -> BOOLEAN]
        /\ begin_marker_value' \in [CommandBuffers -> 0 .. Wrap - LowRange]
        /\ \A b \in CommandBuffers : has_buffer_marker'[b] => begin_marker_value'[b] # 0
        /\ high_bits' \in 0 .. HighRange - 1
    <3>1. NextHighBits \in 1 .. HighRange - 1
      BY <1>0, RangeAssumption DEF TypeOK, NextHighBits
    <3>2. NextHighBits * LowRange \in 0 .. Wrap - LowRange /\ NextHighBits * LowRange # 0
      BY <3>1, WordSize, RangeAssumption
    <3>3. (NextHighBits + 1) % HighRange \in 0 .. HighRange - 1
      <4>1. NextHighBits + 1 \in Nat /\ HighRange \in Nat \ {0}
        BY <3>1, RangeAssumption
      <4> DEFINE n == NextHighBits + 1
      <4> HIDE DEF n
      <4>2. n % HighRange \in 0 .. HighRange - 1 BY <4>1, ModRange DEF n
      <4>3. QED BY <4>2 DEF n
    <3>4. CASE UNCHANGED object BY <1>0, <3>4 DEF TypeOK, object
    <3>5. CASE /\ has_buffer_marker' = [has_buffer_marker EXCEPT ![c] = TRUE]
               /\ begin_marker_value' =
                    [begin_marker_value EXCEPT ![c] = NextHighBits * LowRange]
               /\ high_bits' = (NextHighBits + 1) % HighRange
      <4> DEFINE begin == NextHighBits * LowRange
      <4>1. begin \in 0 .. Wrap - LowRange /\ begin # 0 BY <3>2
      <4> HIDE DEF begin
      <4>2. /\ has_buffer_marker \in [CommandBuffers -> BOOLEAN]
            /\ begin_marker_value \in [CommandBuffers -> 0 .. Wrap - LowRange]
            /\ \A b \in CommandBuffers : has_buffer_marker[b] => begin_marker_value[b] # 0
        BY <1>0 DEF TypeOK
      <4>3. begin_marker_value' = [begin_marker_value EXCEPT ![c] = begin]
        BY <3>5 DEF begin
      <4>4. QED BY <3>3, <3>5, <4>1, <4>2, <4>3
    <3>6. QED BY <1>1, <3>4, <3>5 DEF Allocate
  <2>4. /\ top' \in [CommandBuffers -> 0 .. Wrap - 1]
        /\ bottom' \in [CommandBuffers -> 0 .. Wrap - 1]
    <3>1. RecycledWords \subseteq 0 .. Wrap - 1
      BY <1>0, ConfigAssumption DEF TypeOK, RecycledWords, MaxCommands
    <3>2. /\ top \in [CommandBuffers -> 0 .. Wrap - 1]
          /\ bottom \in [CommandBuffers -> 0 .. Wrap - 1]
      BY <1>0 DEF TypeOK
    <3>3. \/ top' = top /\ bottom' = bottom
          \/ \E t, b \in RecycledWords :
               top' = [top EXCEPT ![c] = t] /\ bottom' = [bottom EXCEPT ![c] = b]
      BY <1>1 DEF Allocate, markers
    <3>4. QED BY <3>1, <3>2, <3>3
  <2>5. /\ config' \in Configs /\ buffer_state' \in [CommandBuffers -> BufferState]
        /\ commands' \in [CommandBuffers -> Seq(Tracked)]
        /\ front' \in [Primaries -> Nat] /\ back' \in [Primaries -> Nat]
    BY <1>0, <1>1 DEF Allocate, TypeOK, BufferState, gpu
  <2>6. QED BY <2>1, <2>2, <2>3, <2>4, <2>5 DEF Typed, TypeOK
<1>2. ASSUME NEW c \in CommandBuffers, Free(c), UNCHANGED config PROVE Typed'
  <2>1. StreamsFit' /\ stream' \in [CommandBuffers -> Seq(Op)]
    BY <1>2, StreamStep, EmptySeq DEF Free
  <2>2. drv' \in [CommandBuffers -> DriverStates]
    BY <1>0, <1>2, StateFits DEF Free
  <2>3. 0 \in 0 .. Wrap - LowRange BY WordSize, RangeAssumption
  <2>4. /\ has_buffer_marker' \in [CommandBuffers -> BOOLEAN]
        /\ begin_marker_value' \in [CommandBuffers -> 0 .. Wrap - LowRange]
        /\ \A b \in CommandBuffers : has_buffer_marker'[b] => begin_marker_value'[b] # 0
    BY <1>0, <1>2, <2>3 DEF Free, TypeOK
  <2>5. commands' \in [CommandBuffers -> Seq(Tracked)]
    BY <1>0, <1>2, EmptySeq DEF Free, TypeOK
  <2>6. /\ config' \in Configs /\ buffer_state' \in [CommandBuffers -> BufferState]
        /\ high_bits' \in 0 .. HighRange - 1
        /\ top' \in [CommandBuffers -> 0 .. Wrap - 1]
        /\ bottom' \in [CommandBuffers -> 0 .. Wrap - 1]
        /\ front' \in [Primaries -> Nat] /\ back' \in [Primaries -> Nat]
    BY <1>0, <1>2 DEF Free, TypeOK, BufferState, DropProgress, markers
  <2>7. QED BY <2>1, <2>2, <2>4, <2>5, <2>6 DEF Typed, TypeOK
<1>3. ASSUME NEW c \in CommandBuffers, NEW ok \in BOOLEAN, Begin(c, ok), UNCHANGED config
      PROVE  Typed'
  <2>1. StreamsFit' /\ stream' \in [CommandBuffers -> Seq(Op)]
    <3> DEFINE t == WriteMarker("top", c, MarkerValue(c, 1))
               b == WriteMarker("bottom", c, MarkerValue(c, 1))
    <3>1. t \in Seq(Ops(c)) /\ b \in Seq(Ops(c)) BY <1>0, MarkersFit, WriteFits
    <3> HIDE DEF t, b
    <3>2. t \o b \in Seq(Ops(c)) BY <3>1, ConcatProperties
    <3>3. stream' = [stream EXCEPT ![c] = IF ok THEN t \o b ELSE <<>>]
      BY <1>3 DEF Begin, t, b
    <3>4. QED BY <3>2, <3>3, StreamStep, EmptySeq
  <2>2. drv' \in [CommandBuffers -> DriverStates]
    BY <1>0, <1>3, StateFits DEF Begin
  <2>3. commands' \in [CommandBuffers -> Seq(Tracked)]
    <3>1. Command(1, "begin", {}) \in Tracked BY DEF Command, CommandType
    <3>2. <<Command(1, "begin", {})>> \in Seq(Tracked) BY <3>1
    <3>3. QED BY <1>0, <1>3, <3>2 DEF Begin, TypeOK
  <2>4. 0 \in 0 .. Wrap - 1 BY WordSize, RangeAssumption
  <2>5. /\ top' \in [CommandBuffers -> 0 .. Wrap - 1]
        /\ bottom' \in [CommandBuffers -> 0 .. Wrap - 1]
    BY <1>0, <1>3, <2>4 DEF Begin, ClearMarkers, TypeOK
  <2>6. /\ config' \in Configs /\ buffer_state' \in [CommandBuffers -> BufferState]
        /\ UNCHANGED <<has_buffer_marker, begin_marker_value, high_bits>>
        /\ front' \in [Primaries -> Nat] /\ back' \in [Primaries -> Nat]
    BY <1>0, <1>3 DEF Begin, TypeOK, BufferState, DropProgress, object
  <2>7. QED BY <1>0, <2>1, <2>2, <2>3, <2>5, <2>6 DEF Typed, TypeOK
<1>4. ASSUME NEW c \in CommandBuffers, NEW ok \in BOOLEAN, End(c, ok), UNCHANGED config
      PROVE  Typed'
  <2>1. StreamsFit' /\ stream' \in [CommandBuffers -> Seq(Op)]
    <3>1. EndMarker(c) \in Seq(Ops(c))
      BY <1>0, MarkersFit, WriteFits DEF EndMarker
    <3>2. stream[c] \o EndMarker(c) \in Seq(Ops(c))
      BY <3>1, ConcatProperties DEF TypeInv, Typed, StreamsFit
    <3>3. stream' = [stream EXCEPT ![c] = stream[c] \o EndMarker(c)]
      BY <1>0, <1>4 DEF End, TypeOK
    <3>4. QED BY <3>2, <3>3, StreamStep
  <2>2. drv' \in [CommandBuffers -> DriverStates]
    BY <1>0, <1>4, StateFits DEF End
  <2>3. commands' \in [CommandBuffers -> Seq(Tracked)]
    <3>1. Track(c, "end", {}) /\ {} \in SUBSET Secondaries /\ "end" \in CommandType
      BY <1>4 DEF End, CommandType
    <3>2. QED BY <1>0, <3>1, TrackedFits
  <2>4. /\ config' \in Configs /\ buffer_state' \in [CommandBuffers -> BufferState]
        /\ UNCHANGED <<has_buffer_marker, begin_marker_value, high_bits, top, bottom,
                       front, back>>
    BY <1>0, <1>4 DEF End, TypeOK, BufferState, object, markers, gpu
  <2>5. QED BY <1>0, <2>1, <2>2, <2>3, <2>4 DEF Typed, TypeOK
<1>5. ASSUME NEW c \in CommandBuffers, NEW type \in {"instrumented", "plain"},
             Record(c, type), UNCHANGED config
      PROVE  Typed'
  <2>1. StreamsFit' /\ stream' \in [CommandBuffers -> Seq(Op)]
    <3> DEFINE id == Len(commands[c]) + 1
               r == Recorded(c, type, id, <<Write("run", c, id)>>)
    <3>1. id \in Nat BY <1>0 DEF TypeOK
    <3>2. r \in Seq(Ops(c)) BY <1>0, <3>1, RecordedFits, RunFits
    <3>3. stream' = [stream EXCEPT ![c] = stream[c] \o r]
      BY <1>0, <1>5 DEF Record, TypeOK
    <3> HIDE DEF r
    <3>4. stream[c] \o r \in Seq(Ops(c))
      BY <3>2, ConcatProperties DEF TypeInv, Typed, StreamsFit
    <3>5. QED BY <3>3, <3>4, StreamStep
  <2>2. commands' \in [CommandBuffers -> Seq(Tracked)]
    <3>1. Track(c, type, {}) /\ {} \in SUBSET Secondaries /\ type \in CommandType
      BY <1>5 DEF Record, CommandType
    <3>2. QED BY <1>0, <3>1, TrackedFits
  <2>3. UNCHANGED <<config, has_buffer_marker, begin_marker_value, high_bits,
                    buffer_state, top, bottom, drv, front, back>>
    BY <1>5 DEF Record, object, markers, gpu
  <2>4. QED BY <1>0, <2>1, <2>2, <2>3 DEF Typed, TypeOK
<1>6. ASSUME NEW p \in Primaries, NEW s \in Secondaries, ExecuteCommands(p, s),
             UNCHANGED config
      PROVE  Typed'
  <2>0. p \in CommandBuffers BY DEF CommandBuffers
  <2>1. StreamsFit' /\ stream' \in [CommandBuffers -> Seq(Op)]
    <3> DEFINE id == Len(commands[p]) + 1
               run == <<Write("run", p, id)>>
               body == run \o stream[s]
               r == Recorded(p, "execute", id, body)
    <3>1. id \in Nat BY <1>0, <2>0 DEF TypeOK
    <3>2. run \in Seq(Ops(p)) /\ stream[s] \in Seq(Ops(p))
      BY <2>0, <3>1, RunFits, InlinedFits DEF TypeInv, Typed
    <3> HIDE DEF run
    <3>3. body \in Seq(Ops(p)) BY <3>2, ConcatProperties
    <3>4. stream' = [stream EXCEPT ![p] = stream[p] \o r]
      BY <1>0, <1>6, <2>0 DEF ExecuteCommands, TypeOK, run
    <3> HIDE DEF body, id
    <3>5. r \in Seq(Ops(p)) BY <1>0, <2>0, <3>1, <3>3, RecordedFits
    <3> HIDE DEF r
    <3>6. stream[p] \o r \in Seq(Ops(p))
      BY <2>0, <3>5, ConcatProperties DEF TypeInv, Typed, StreamsFit
    <3>7. QED BY <2>0, <3>4, <3>6, StreamStep
  <2>2. commands' \in [CommandBuffers -> Seq(Tracked)]
    <3>1. /\ Track(p, "execute", {s})
          /\ {s} \in SUBSET Secondaries /\ "execute" \in CommandType
      BY <1>6 DEF ExecuteCommands, CommandType
    <3>2. QED BY <1>0, <2>0, <3>1, TrackedFits
  <2>3. drv' \in [CommandBuffers -> DriverStates]
    BY <1>0, <1>6 DEF ExecuteCommands, TypeOK
  <2>4. UNCHANGED <<config, has_buffer_marker, begin_marker_value, high_bits,
                    buffer_state, top, bottom, front, back>>
    BY <1>6 DEF ExecuteCommands, object, markers, gpu
  <2>5. QED BY <1>0, <2>1, <2>2, <2>3, <2>4 DEF Typed, TypeOK
<1>7. ASSUME NEW C \in SUBSET CommandBuffers, Reset(C), UNCHANGED config PROVE Typed'
  <2> DEFINE live == {c \in C : drv[c] # "none"}
  <2>1. StreamsFit' /\ stream' \in [CommandBuffers -> Seq(Op)]
    <3>1. \A c \in CommandBuffers : stream'[c] \in Seq(Ops(c))
      BY <1>7, EmptySeq DEF Reset, TypeInv, Typed, StreamsFit
    <3>2. stream' = [c \in CommandBuffers |-> stream'[c]]
      BY <1>7 DEF Reset
    <3>3. QED BY <3>1, <3>2, StreamTyped DEF StreamsFit
  <2>2. drv' \in [CommandBuffers -> DriverStates]
    BY <1>0, <1>7 DEF Reset, TypeOK
  <2>3. commands' \in [CommandBuffers -> Seq(Tracked)]
    BY <1>0, <1>7, EmptySeq DEF Reset, TypeOK
  <2>4. 0 \in 0 .. Wrap - 1 BY WordSize, RangeAssumption
  <2>5. /\ top' \in [CommandBuffers -> 0 .. Wrap - 1]
        /\ bottom' \in [CommandBuffers -> 0 .. Wrap - 1]
    BY <1>0, <1>7, <2>4 DEF Reset, ClearMarkers, TypeOK
  <2>6. /\ config' \in Configs /\ buffer_state' \in [CommandBuffers -> BufferState]
        /\ UNCHANGED <<has_buffer_marker, begin_marker_value, high_bits>>
        /\ front' \in [Primaries -> Nat] /\ back' \in [Primaries -> Nat]
    BY <1>0, <1>7 DEF Reset, TypeOK, BufferState, DropProgress, object
  <2>7. QED BY <1>0, <2>1, <2>2, <2>3, <2>5, <2>6 DEF Typed, TypeOK
<1>8. ASSUME NEW p \in Primaries, NEW ok \in BOOLEAN, Submit(p, ok), UNCHANGED config
      PROVE  Typed'
  <2>1. StreamsFit' /\ stream' \in [CommandBuffers -> Seq(Op)]
    BY <1>8, StreamKept DEF Submit
  <2>2. drv' \in [CommandBuffers -> DriverStates]
    BY <1>0, <1>8 DEF Submit, TypeOK
  <2>3. buffer_state' \in [CommandBuffers -> BufferState]
    BY <1>0, <1>8 DEF Submit, TypeOK, BufferState
  <2>4. front' \in [Primaries -> Nat] /\ back' \in [Primaries -> Nat]
    <3>1. front \in [Primaries -> Nat] /\ back \in [Primaries -> Nat]
      BY <1>0 DEF TypeOK
    <3>2. \/ front' = [front EXCEPT ![p] = 0] /\ back' = [back EXCEPT ![p] = 0]
          \/ front' = front /\ back' = back
      BY <1>8 DEF Submit, gpu
    <3>3. QED BY <3>1, <3>2
  <2>5. UNCHANGED <<config, has_buffer_marker, begin_marker_value, high_bits,
                    commands, top, bottom>>
    BY <1>8 DEF Submit, object, markers
  <2>6. QED BY <1>0, <2>1, <2>2, <2>3, <2>4, <2>5 DEF Typed, TypeOK
<1>9. ASSUME NEW p \in Primaries, GPUFetch(p), UNCHANGED config PROVE Typed'
  <2>1. StreamsFit' /\ stream' \in [CommandBuffers -> Seq(Op)]
    BY <1>9, StreamKept DEF GPUFetch
  <2>2. stream[p][front[p] + 1] \in Ops(p)
    <3>1. p \in CommandBuffers /\ front[p] \in Nat /\ stream[p] \in Seq(Ops(p))
      BY <1>0 DEF TypeInv, Typed, TypeOK, StreamsFit, CommandBuffers
    <3>2. front[p] + 1 \in 1 .. Len(stream[p]) BY <1>9, <3>1 DEF GPUFetch
    <3>3. QED BY <3>1, <3>2, ElementOfSeq
  <2>3. top' \in [CommandBuffers -> 0 .. Wrap - 1]
    <3> DEFINE op == stream[p][front[p] + 1]
    <3>1. top \in [CommandBuffers -> 0 .. Wrap - 1] BY <1>0 DEF TypeOK
    <3>2. top' = IF op.at = "top" THEN [top EXCEPT ![op.cb] = op.value] ELSE top
      BY <1>9 DEF GPUFetch
    <3>3. /\ op.cb \in CommandBuffers /\ op.value \in Nat
          /\ op.at = "top" => op.value < Wrap
      BY <2>2 DEF Ops
    <3> HIDE DEF op
    <3>4. QED BY <3>1, <3>2, <3>3, WordSize
  <2>4. front' \in [Primaries -> Nat]
    <3>1. front \in [Primaries -> Nat] BY <1>0 DEF TypeOK
    <3>2. front' = [front EXCEPT ![p] = front[p] + 1] BY <1>9 DEF GPUFetch
    <3>3. QED BY <3>1, <3>2
  <2>5. UNCHANGED <<config, has_buffer_marker, begin_marker_value, high_bits,
                    buffer_state, commands, bottom, drv, back>>
    BY <1>9 DEF GPUFetch, object
  <2>6. QED BY <1>0, <2>1, <2>3, <2>4, <2>5 DEF Typed, TypeOK
<1>10. ASSUME NEW p \in Primaries, GPURetire(p), UNCHANGED config PROVE Typed'
  <2>1. StreamsFit' /\ stream' \in [CommandBuffers -> Seq(Op)]
    BY <1>10, StreamKept DEF GPURetire
  <2>2. stream[p][back[p] + 1] \in Ops(p)
    <3>1. /\ p \in CommandBuffers /\ front[p] \in Nat /\ back[p] \in Nat
          /\ stream[p] \in Seq(Ops(p))
      BY <1>0 DEF TypeInv, Typed, TypeOK, StreamsFit, CommandBuffers
    <3>2. back[p] + 1 \in 1 .. Len(stream[p])
      BY <1>10, <3>1 DEF GPURetire, TypeInv, InBounds
    <3>3. QED BY <3>1, <3>2, ElementOfSeq
  <2>3. bottom' \in [CommandBuffers -> 0 .. Wrap - 1]
    <3> DEFINE op == stream[p][back[p] + 1]
    <3>1. bottom \in [CommandBuffers -> 0 .. Wrap - 1] BY <1>0 DEF TypeOK
    <3>2. bottom' = IF op.at = "bottom" THEN [bottom EXCEPT ![op.cb] = op.value]
                    ELSE bottom
      BY <1>10 DEF GPURetire
    <3>3. /\ op.cb \in CommandBuffers /\ op.value \in Nat
          /\ op.at = "bottom" => op.value < Wrap
      BY <2>2 DEF Ops
    <3> HIDE DEF op
    <3>4. QED BY <3>1, <3>2, <3>3, WordSize
  <2>4. back' \in [Primaries -> Nat]
    <3>1. back \in [Primaries -> Nat] BY <1>0 DEF TypeOK
    <3>2. back' = [back EXCEPT ![p] = back[p] + 1] BY <1>10 DEF GPURetire
    <3>3. QED BY <3>1, <3>2
  <2>5. UNCHANGED <<config, has_buffer_marker, begin_marker_value, high_bits,
                    buffer_state, commands, top, drv, front>>
    BY <1>10 DEF GPURetire, object
  <2>6. QED BY <1>0, <2>1, <2>3, <2>4, <2>5 DEF Typed, TypeOK
<1>11. ASSUME NEW p \in Primaries, Finished(p), UNCHANGED config PROVE Typed'
  <2>1. StreamsFit' /\ stream' \in [CommandBuffers -> Seq(Op)]
    BY <1>11, StreamKept DEF Finished
  <2>2. drv' \in [CommandBuffers -> DriverStates]
    BY <1>0, <1>11 DEF Finished, TypeOK
  <2>3. UNCHANGED <<config, has_buffer_marker, begin_marker_value, high_bits,
                    buffer_state, commands, top, bottom, front, back>>
    BY <1>11 DEF Finished, object, markers, gpu
  <2>4. QED BY <1>0, <2>1, <2>2, <2>3 DEF Typed, TypeOK
<1>12. CASE UNCHANGED vars
  <2>1. StreamsFit' /\ stream' \in [CommandBuffers -> Seq(Op)]
    BY <1>12, StreamKept DEF vars
  <2>2. QED BY <1>0, <1>12, <2>1 DEF Typed, TypeOK, vars, object, markers, gpu
<1>13. QED
  BY <1>1, <1>2, <1>3, <1>4, <1>5, <1>6, <1>7, <1>8, <1>9, <1>10, <1>11, <1>12
     DEF Next, CommandBuffers

LEMMA ExecutesSecondaries ==
  ASSUME TypeOK, NEW p \in Primaries
  PROVE  ExecutedBy(p) \subseteq Secondaries
<1>1. commands[p] \in Seq([id : Nat, type : CommandType,
                           pCommandBuffers : SUBSET Secondaries])
  BY DEF TypeOK, CommandBuffers
<1>2. ASSUME NEW i \in 1 .. Len(commands[p])
      PROVE  commands[p][i].pCommandBuffers \subseteq Secondaries
  <2>1. commands[p][i] \in [id : Nat, type : CommandType,
                            pCommandBuffers : SUBSET Secondaries]
    BY <1>1, ElementOfSeq
  <2>2. QED BY <2>1
<1>3. QED BY <1>2 DEF ExecutedBy, Elements

LEMMA StepInBounds == TypeInv /\ [Next]_vars => InBounds'
<1> SUFFICES ASSUME TypeInv, [Next]_vars, NEW q \in Primaries, drv'[q] = "pending"
             PROVE  front'[q] <= Len(stream'[q])
  BY DEF InBounds
<1> DEFINE Same == drv[q] = "pending" /\ stream'[q] = stream[q] /\ front'[q] = front[q]
<1>0. /\ q \in CommandBuffers /\ front \in [Primaries -> Nat]
      /\ stream = [b \in CommandBuffers |-> stream[b]]
      /\ stream[q] \in Seq(Ops(q)) /\ Len(stream[q]) \in Nat
  BY DEF TypeInv, Typed, TypeOK, StreamsFit, CommandBuffers
<1>1. Same => front'[q] <= Len(stream'[q])
  BY DEF TypeInv, InBounds
<1>2. ASSUME NEW c \in CommandBuffers, Allocate(c) PROVE Same
  BY <1>0, <1>2 DEF Allocate, DriverState, gpu
<1>3. ASSUME NEW c \in CommandBuffers, Free(c) PROVE Same
  BY <1>0, <1>3 DEF Free, DriverState, DropProgress
<1>4. ASSUME NEW c \in CommandBuffers, NEW ok \in BOOLEAN, Begin(c, ok) PROVE Same
  <2>1. c # q /\ drv[q] = "pending" BY <1>0, <1>4 DEF Begin, DriverState
  <2>2. QED BY <1>0, <1>4, <2>1 DEF Begin, DropProgress
<1>5. ASSUME NEW c \in CommandBuffers, NEW ok \in BOOLEAN, End(c, ok) PROVE Same
  <2>1. c # q /\ drv[q] = "pending" BY <1>0, <1>5 DEF End, DriverState
  <2>2. QED BY <1>0, <1>5, <2>1 DEF End, gpu
<1>6. ASSUME NEW c \in CommandBuffers, NEW type, Record(c, type) PROVE Same
  BY <1>0, <1>6 DEF Record, Recording, gpu
<1>7. ASSUME NEW p \in Primaries, NEW s \in Secondaries, ExecuteCommands(p, s) PROVE Same
  BY <1>0, <1>7 DEF ExecuteCommands, Recording, gpu
<1>8. ASSUME NEW C \in SUBSET CommandBuffers, Reset(C) PROVE Same
  BY <1>0, <1>8 DEF Reset, DropProgress
<1>9. ASSUME NEW p \in Primaries, NEW ok \in BOOLEAN, Submit(p, ok)
      PROVE  front'[q] <= Len(stream'[q])
  <2>1. stream' = stream BY <1>9 DEF Submit
  <2>2. CASE q = p /\ ok BY <1>0, <1>9, <2>1, <2>2 DEF Submit
  <2>3. CASE q = p /\ ~ok
    <3>1. drv[q] = "executable" /\ drv'[q] = drv[q] BY <1>9, <2>3 DEF Submit
    <3>2. QED BY <3>1
  <2>4. CASE q # p
    <3>1. front'[q] = front[q] BY <1>0, <1>9, <2>4 DEF Submit, gpu
    <3>2. q \notin ExecutedBy(p)
      BY ExecutesSecondaries, LevelAssumption DEF TypeInv, Typed
    <3>3. drv[q] = "pending" BY <1>0, <1>9, <2>4, <3>2 DEF Submit
    <3>4. QED BY <1>1, <2>1, <3>1, <3>3
  <2>5. QED BY <2>2, <2>3, <2>4
<1>10. ASSUME NEW p \in Primaries, GPUFetch(p) PROVE front'[q] <= Len(stream'[q])
  <2>1. stream' = stream /\ drv' = drv BY <1>10 DEF GPUFetch
  <2>2. CASE q = p
    <3>1. front[q] < Len(stream[q]) /\ front'[q] = front[q] + 1
      BY <1>0, <1>10, <2>2 DEF GPUFetch
    <3>2. QED BY <1>0, <2>1, <3>1
  <2>3. CASE q # p
    <3>1. front'[q] = front[q] BY <1>0, <1>10, <2>3 DEF GPUFetch
    <3>2. QED BY <1>1, <2>1, <3>1
  <2>4. QED BY <2>2, <2>3
<1>11. ASSUME NEW p \in Primaries, GPURetire(p) PROVE Same
  BY <1>11 DEF GPURetire
<1>12. ASSUME NEW p \in Primaries, Finished(p) PROVE Same
  <2>1. stream' = stream /\ front' = front BY <1>12 DEF Finished, gpu
  <2>2. drv' = [b \in CommandBuffers |->
                  IF b \in {p} \cup ExecutedBy(p)
                  THEN IF OneTime THEN "invalid" ELSE "executable"
                  ELSE drv[b]]
    BY <1>12 DEF Finished
  <2>3. drv[q] = "pending" BY <1>0, <2>2
  <2>4. QED BY <2>1, <2>3
<1>13. CASE UNCHANGED vars
  <2>1. drv' = drv /\ stream' = stream /\ front' = front
    BY <1>13 DEF vars, gpu
  <2>2. QED BY <1>1, <2>1
<1> HIDE DEF Same
<1>14. QED
  BY <1>1, <1>2, <1>3, <1>4, <1>5, <1>6, <1>7, <1>8, <1>9, <1>10, <1>11, <1>12,
     <1>13
     DEF Next, CommandBuffers

\* The layer's objects, the marker words and the GPU's state have their
\* types: no value written into a marker overflows its word (uint32_t), and
\* no live buffer has the begin marker 0 that stands for none.
THEOREM TypeCorrect == Spec => []TypeOK
<1>1. TypeInv /\ [Next]_vars => TypeInv'
  BY StepTyped, StepInBounds DEF TypeInv
<1>2. TypeInv => TypeOK BY DEF TypeInv, Typed
<1>3. QED BY InitTyped, <1>1, <1>2, PTL DEF Spec

-----------------------------------------------------------------------------
(* What a step does to a primary.                                          *)

LEMMA MarkerIsBetween ==
  ASSUME TypeOK, NEW c \in CommandBuffers, NEW id \in 1 .. LowRange - 2,
         NEW at \in {"top", "bottom"}
  PROVE  /\ MarkerValue(c, id) = begin_marker_value[c] + id
         /\ WriteMarker(at, c, MarkerValue(c, id)) \in Seq(Between(c))
<1>1. begin_marker_value[c] \in 0 .. Wrap - LowRange BY DEF TypeOK
<1>2. /\ Wrap \in Nat \ {0} /\ LowRange \in Nat
      /\ begin_marker_value[c] + id \in 0 .. Wrap - 1
  BY <1>1, WordSize, RangeAssumption
<1>3. MarkerValue(c, id) = begin_marker_value[c] + id
  <2> DEFINE word == begin_marker_value[c] + id
  <2> HIDE DEF word
  <2>1. word % Wrap = word BY <1>2, SmallMod DEF word
  <2>2. QED BY <2>1 DEF MarkerValue, word
<1>4. Write(at, c, MarkerValue(c, id)) \in Between(c)
  BY <1>1, <1>2, <1>3 DEF Write, Between, Ops, Op, end_marker_value
<1>5. <<Write(at, c, MarkerValue(c, id))>> \in Seq(Between(c)) BY <1>4
<1>6. QED BY <1>3, <1>5, EmptySeq DEF WriteMarker

LEMMA RecordedIsBetween ==
  ASSUME TypeOK, NEW c \in CommandBuffers, NEW type, NEW id \in 1 .. LowRange - 2,
         NEW body \in Seq(Between(c))
  PROVE  Recorded(c, type, id, body) \in Seq(Between(c))
<1> DEFINE t == WriteMarker("top", c, MarkerValue(c, id))
           b == WriteMarker("bottom", c, MarkerValue(c, id))
<1>1. t \in Seq(Between(c)) /\ b \in Seq(Between(c)) BY MarkerIsBetween
<1> HIDE DEF t, b
<1>2. t \o body \in Seq(Between(c)) BY <1>1, ConcatProperties
<1>3. (t \o body) \o b \in Seq(Between(c)) BY <1>1, <1>2, ConcatProperties
<1>4. QED BY <1>3 DEF Recorded, t, b

LEMMA RunIsBetween ==
  ASSUME NEW c \in CommandBuffers, NEW id \in Nat
  PROVE  <<Write("run", c, id)>> \in Seq(Between(c))
<1>1. Write("run", c, id) \in Between(c) BY DEF Write, Between, Ops, Op
<1>2. QED BY <1>1

LEMMA InlinedIsBetween ==
  ASSUME StreamsFit, NEW p \in Primaries, NEW s \in Secondaries
  PROVE  stream[s] \in Seq(Between(p))
<1>1. stream[s] \in Seq(Ops(s)) BY DEF StreamsFit, CommandBuffers
<1>2. Ops(s) \subseteq Between(p) BY LevelAssumption DEF Ops, Between
<1>3. QED BY <1>1, <1>2, SeqOfMore

\* A step that leaves a primary alone, except that it may invalidate it.
Kept(p) ==
  /\ has_buffer_marker'[p] = has_buffer_marker[p]
  /\ begin_marker_value'[p] = begin_marker_value[p]
  /\ buffer_state'[p] = buffer_state[p]
  /\ top'[p] = top[p] /\ bottom'[p] = bottom[p]
  /\ stream'[p] = stream[p]
  /\ front'[p] = front[p] /\ back'[p] = back[p]
  /\ \/ drv'[p] = drv[p]
     \/ drv[p] \in {"recording", "executable"} /\ drv'[p] = "invalid"

LEMMA KeptIsFaithful ==
  ASSUME NEW p \in Primaries, Faithful(p), Kept(p), UNCHANGED config
  PROVE  Faithful(p)'
<1>1. Between(p)' = Between(p) BY DEF Kept, Between, end_marker_value
<1>2. ASSUME has_buffer_marker[p] PROVE Marked(p)'
  <2>1. Marked(p) BY <1>2 DEF Faithful
  <2>2. CASE drv'[p] = drv[p]
    BY <1>1, <2>1, <2>2
       DEF Kept, Marked, Open, Closed, Clear, Progress, BeginsMarked,
           end_marker_value, CompletedExecution
  <2>3. CASE drv'[p] = "invalid" BY <2>3 DEF Marked
  <2>4. QED BY <2>2, <2>3 DEF Kept
<1>3. ASSUME Settled(p) PROVE Settled(p)'
  BY <1>3 DEF Kept, Settled, end_marker_value, CompletedExecution
<1>4. QED
  BY <1>2, <1>3 DEF Faithful, Kept, MaxCommands, NoSubmitFails, Failures

\* A primary in a state of which nothing is said.
LEMMA OutsideIsFaithful ==
  ASSUME NEW p \in Primaries, drv'[p] # "none" => p \in DOMAIN MaxCommands',
         drv'[p] \in {"none", "initial", "invalid"}, buffer_state'[p] # "kPending"
  PROVE  Faithful(p)'
BY DEF Faithful, Marked, Settled, NoSubmitFails

\* Recording adds commands between the two markers of the buffer.
LEMMA LongerIsOpen ==
  ASSUME TypeOK, NEW p \in Primaries, Open(p), NEW r \in Seq(Between(p)),
         stream' = [stream EXCEPT ![p] = stream[p] \o r],
         UNCHANGED begin_marker_value
  PROVE  Open(p)'
<1>1. stream'[p] = stream[p] \o r BY DEF TypeOK, CommandBuffers
<1>2. /\ stream[p] \in Seq(Between(p)) /\ stream[p] # <<>>
      /\ 1 \in 1 .. Len(stream[p])
  BY EmptySeq DEF Open, BeginsMarked
<1>3. /\ stream'[p] \in Seq(Between(p))
      /\ Len(stream'[p]) = Len(stream[p]) + Len(r)
      /\ stream'[p][1] = stream[p][1]
  <2>1. Len(stream[p]) \in Nat /\ Len(r) \in Nat BY <1>2
  <2>2. 1 \in 1 .. Len(stream[p]) + Len(r) /\ 1 <= Len(stream[p]) BY <1>2, <2>1
  <2>3. QED BY <1>1, <1>2, <2>2, ConcatProperties
<1>4. stream'[p] # <<>> BY <1>2, <1>3, EmptySeq
<1>5. Between(p)' = Between(p) BY DEF Between, end_marker_value
<1>6. QED BY <1>3, <1>4, <1>5 DEF Open, BeginsMarked

LEMMA BeginFaithful ==
  ASSUME TypeInv, TypeInv', OneTimeAndShort, UNCHANGED config,
         NEW q \in Primaries, Faithful(q), NEW ok \in BOOLEAN, Begin(q, ok)
  PROVE  Faithful(q)'
<1>0. TypeOK /\ q \in CommandBuffers BY DEF TypeInv, Typed, CommandBuffers
<1>1. q \in DOMAIN MaxCommands' /\ MaxCommands' = MaxCommands
  BY DEF Begin, Faithful, MaxCommands
<1>2. /\ buffer_state'[q] = "kRecording"
      /\ UNCHANGED <<has_buffer_marker, begin_marker_value>>
  BY <1>0 DEF Begin, TypeOK, object
<1>3. CASE ~ok
  <2>1. drv'[q] = "invalid" BY <1>0, <1>3 DEF Begin, DriverState
  <2>2. QED BY <1>1, <1>2, <2>1, OutsideIsFaithful
<1>4. CASE ok
  <2>1. drv'[q] = "recording" BY <1>0, <1>4 DEF Begin, DriverState
  <2>2. ASSUME has_buffer_marker[q] PROVE Open(q)' /\ Clear(q)'
    <3>1. Clear(q)' BY <1>0, <2>2 DEF Begin, ClearMarkers, Clear
    <3> DEFINE first == Write("top", q, begin_marker_value[q] + 1)
               t == WriteMarker("top", q, MarkerValue(q, 1))
               b == WriteMarker("bottom", q, MarkerValue(q, 1))
    <3>2. 1 \in 1 .. LowRange - 2
      BY <1>0, <1>1, ConfigAssumption, RangeAssumption
         DEF OneTimeAndShort, TypeOK, MaxCommands
    <3>3. t \in Seq(Between(q)) /\ b \in Seq(Between(q)) /\ t = <<first>>
      BY <1>0, <2>2, <3>2, MarkerIsBetween DEF WriteMarker
    <3>4. stream'[q] = t \o b
      BY <1>0, <1>4 DEF Begin, TypeOK
    <3>5. Len(t) = 1 /\ t[1] = first BY <3>3
    <3> HIDE DEF t, b, first
    <3>6. /\ stream'[q] \in Seq(Between(q)) /\ Len(stream'[q]) = 1 + Len(b)
          /\ stream'[q][1] = first
      <4>1. Len(b) \in Nat BY <3>3
      <4>2. 1 \in 1 .. Len(t) + Len(b) BY <3>5, <4>1
      <4>3. QED BY <3>3, <3>4, <3>5, <4>2, ConcatProperties
    <3>7. stream'[q] # <<>>
      <4>1. Len(b) \in Nat BY <3>3
      <4>2. QED BY <3>6, <4>1, EmptySeq
    <3>8. Between(q)' = Between(q) BY <1>2 DEF Between, end_marker_value
    <3>9. QED BY <1>2, <3>1, <3>6, <3>7, <3>8 DEF Open, BeginsMarked, first
  <2>3. QED
    BY <1>1, <1>2, <2>1, <2>2 DEF Faithful, Marked, Settled, NoSubmitFails
<1>5. QED BY <1>3, <1>4

LEMMA EndFaithful ==
  ASSUME TypeInv, UNCHANGED config,
         NEW q \in Primaries, Faithful(q), NEW ok \in BOOLEAN, End(q, ok)
  PROVE  Faithful(q)'
<1>0. TypeOK /\ q \in CommandBuffers BY DEF TypeInv, Typed, CommandBuffers
<1>1. q \in DOMAIN MaxCommands' /\ MaxCommands' = MaxCommands /\ drv[q] = "recording"
  BY DEF End, Faithful, MaxCommands
<1>2. /\ buffer_state'[q] = "kExecutable"
      /\ UNCHANGED <<has_buffer_marker, begin_marker_value, top, bottom>>
  BY <1>0 DEF End, TypeOK, object, markers
<1>3. CASE ~ok
  <2>1. drv'[q] = "invalid" BY <1>0, <1>3 DEF End, DriverState
  <2>2. QED BY <1>1, <1>2, <2>1, OutsideIsFaithful
<1>4. CASE ok
  <2>1. drv'[q] = "executable" BY <1>0, <1>4 DEF End, DriverState
  <2>2. ASSUME has_buffer_marker[q] PROVE Closed(q)' /\ Clear(q)'
    <3>1. Open(q) /\ Clear(q) BY <1>1, <2>2 DEF Faithful, Marked
    <3>2. Clear(q)' BY <1>2, <3>1 DEF Clear
    <3> DEFINE s == stream[q]
               last == Write("bottom", q, end_marker_value(q))
    <3>3. stream'[q] = s \o <<last>>
      BY <1>0, <2>2 DEF End, EndMarker, WriteMarker, TypeOK
    <3>4. s \in Seq(Between(q)) /\ s # <<>> /\ Len(s) \in Nat \ {0}
          /\ s[1] = Write("top", q, begin_marker_value[q] + 1)
      BY <3>1, EmptySeq DEF Open, BeginsMarked
    <3> HIDE DEF s, last
    <3>5. /\ Len(stream'[q]) = Len(s) + 1
          /\ \A i \in 1 .. Len(s) : stream'[q][i] = s[i]
          /\ stream'[q][Len(s) + 1] = last
      BY <3>3, <3>4
    <3>6. \A i \in 1 .. Len(s) : stream'[q][i] \in Between(q)
      BY <3>4, <3>5, ElementOfSeq
    <3>7. stream'[q] # <<>> BY <3>4, <3>5, EmptySeq
    <3>8. stream'[q][1] = s[1] BY <3>4, <3>5
    <3>9. Between(q)' = Between(q) /\ end_marker_value(q)' = end_marker_value(q)
      BY <1>2 DEF Between, end_marker_value
    <3>10. Len(stream'[q]) - 1 = Len(s) BY <3>4, <3>5
    <3>11. QED
      BY <1>2, <3>2, <3>4, <3>5, <3>6, <3>7, <3>8, <3>9, <3>10
         DEF Closed, BeginsMarked, last
  <2>3. QED
    BY <1>1, <1>2, <2>1, <2>2 DEF Faithful, Marked, Settled, NoSubmitFails
<1>5. QED BY <1>3, <1>4

\* A vkCmd call on the buffer, given what it adds to the stream.
LEMMA LongerIsFaithful ==
  ASSUME TypeInv, UNCHANGED config, NEW q \in Primaries, Faithful(q),
         drv[q] = "recording", drv'[q] = "recording", NEW r \in Seq(Between(q)),
         stream' = [stream EXCEPT ![q] = stream[q] \o r],
         UNCHANGED <<has_buffer_marker, begin_marker_value, buffer_state, top, bottom>>
  PROVE  Faithful(q)'
<1>1. TypeOK BY DEF TypeInv, Typed
<1>2. ASSUME has_buffer_marker[q] PROVE Open(q)' /\ Clear(q)'
  <2>1. Open(q) /\ Clear(q) BY <1>2 DEF Faithful, Marked
  <2>2. Clear(q)' BY <2>1 DEF Clear
  <2>3. QED BY <1>1, <2>1, <2>2, LongerIsOpen
<1>3. MaxCommands' = MaxCommands /\ Failures' = Failures
  BY DEF MaxCommands, Failures
<1>4. NoSubmitFails => buffer_state[q] # "kPending"
  BY DEF Faithful, Settled
<1>5. QED BY <1>2, <1>3, <1>4 DEF Faithful, Marked, Settled, NoSubmitFails

LEMMA NextIdFits ==
  ASSUME TypeOK, OneTimeAndShort, NEW q \in Primaries, Faithful(q), Recording(q)
  PROVE  Len(commands[q]) + 1 \in 1 .. LowRange - 2
<1>1. q \in DOMAIN MaxCommands BY DEF Recording, Faithful
<1>2. MaxCommands[q] \in Nat /\ MaxCommands[q] + 2 < LowRange
  BY <1>1, ConfigAssumption DEF TypeOK, MaxCommands, OneTimeAndShort
<1>3. Len(commands[q]) \in Nat /\ Len(commands[q]) <= MaxCommands[q]
  BY DEF TypeOK, Recording, CommandBuffers
<1>4. QED BY <1>2, <1>3, RangeAssumption

LEMMA RecordFaithful ==
  ASSUME TypeInv, OneTimeAndShort, UNCHANGED config,
         NEW q \in Primaries, Faithful(q), NEW type, Record(q, type)
  PROVE  Faithful(q)'
<1>0. TypeOK /\ q \in CommandBuffers BY DEF TypeInv, Typed, CommandBuffers
<1> DEFINE id == Len(commands[q]) + 1
           body == <<Write("run", q, id)>>
           r == Recorded(q, type, id, body)
<1>1. id \in 1 .. LowRange - 2 BY <1>0, NextIdFits DEF Record
<1>2. body \in Seq(Between(q)) BY <1>0, <1>1, RunIsBetween
<1>3. /\ stream' = [stream EXCEPT ![q] = stream[q] \o r]
      /\ drv[q] = "recording" /\ drv'[q] = "recording"
      /\ UNCHANGED <<has_buffer_marker, begin_marker_value, buffer_state, top, bottom>>
  BY <1>0 DEF Record, Recording, TypeOK, object, markers
<1> HIDE DEF id, body
<1>4. r \in Seq(Between(q)) BY <1>0, <1>1, <1>2, RecordedIsBetween
<1> HIDE DEF r
<1>5. QED BY <1>3, <1>4, LongerIsFaithful

LEMMA ExecuteFaithful ==
  ASSUME TypeInv, OneTimeAndShort, UNCHANGED config,
         NEW q \in Primaries, Faithful(q), NEW s \in Secondaries,
         ExecuteCommands(q, s)
  PROVE  Faithful(q)'
<1>0. TypeOK /\ StreamsFit /\ q \in CommandBuffers
  BY DEF TypeInv, Typed, CommandBuffers
<1> DEFINE id == Len(commands[q]) + 1
           run == <<Write("run", q, id)>>
           body == run \o stream[s]
           r == Recorded(q, "execute", id, body)
<1>1. id \in 1 .. LowRange - 2 BY <1>0, NextIdFits DEF ExecuteCommands
<1>2. run \in Seq(Between(q)) /\ stream[s] \in Seq(Between(q))
  BY <1>0, <1>1, RunIsBetween, InlinedIsBetween
<1>3. /\ stream' = [stream EXCEPT ![q] = stream[q] \o r]
      /\ drv[q] = "recording" /\ drv'[q] = "recording"
      /\ UNCHANGED <<has_buffer_marker, begin_marker_value, buffer_state, top, bottom>>
  BY <1>0 DEF ExecuteCommands, Recording, TypeOK, object, markers
<1> HIDE DEF id, run
<1>4. body \in Seq(Between(q)) BY <1>2, ConcatProperties
<1> HIDE DEF body
<1>5. r \in Seq(Between(q)) BY <1>0, <1>1, <1>4, RecordedIsBetween
<1> HIDE DEF r
<1>6. QED BY <1>3, <1>5, LongerIsFaithful

LEMMA PrimaryTypes ==
  ASSUME TypeInv, NEW q \in Primaries
  PROVE  /\ TypeOK /\ q \in CommandBuffers
         /\ stream[q] \in Seq(Ops(q)) /\ Len(stream[q]) \in Nat
         /\ begin_marker_value[q] \in Nat
         /\ front[q] \in Nat /\ back[q] \in Nat
         /\ top \in [CommandBuffers -> 0 .. Wrap - 1]
         /\ bottom \in [CommandBuffers -> 0 .. Wrap - 1]
<1>1. TypeOK /\ StreamsFit /\ q \in CommandBuffers
  BY DEF TypeInv, Typed, CommandBuffers
<1>2. stream[q] \in Seq(Ops(q)) /\ Len(stream[q]) \in Nat
  BY <1>1 DEF StreamsFit
<1>3. begin_marker_value[q] \in Nat
  <2>1. begin_marker_value[q] \in 0 .. Wrap - LowRange BY <1>1 DEF TypeOK
  <2>2. QED BY <2>1
<1>4. /\ top \in [CommandBuffers -> 0 .. Wrap - 1]
      /\ bottom \in [CommandBuffers -> 0 .. Wrap - 1]
      /\ front[q] \in Nat /\ back[q] \in Nat
  BY <1>1 DEF TypeOK
<1>5. QED BY <1>1, <1>2, <1>3, <1>4

LEMMA SubmitFaithful ==
  ASSUME TypeInv, UNCHANGED config, NEW q \in Primaries, Faithful(q),
         NEW ok \in BOOLEAN, Submit(q, ok)
  PROVE  Faithful(q)'
<1>0. TypeOK /\ q \in CommandBuffers /\ LowRange \in Nat \ {0, 1}
  BY RangeAssumption DEF TypeInv, Typed, CommandBuffers
<1>1. /\ MaxCommands' = MaxCommands /\ Failures' = Failures
      /\ drv[q] = "executable" /\ q \in DOMAIN MaxCommands
      /\ buffer_state'[q] = "kPending"
      /\ UNCHANGED <<has_buffer_marker, begin_marker_value, top, bottom, stream>>
  BY <1>0 DEF Submit, Faithful, MaxCommands, Failures, TypeOK, object, markers
<1>2. ASSUME has_buffer_marker[q]
      PROVE  Closed(q) /\ Clear(q) /\ Closed(q)' /\ Clear(q)'
  <2>1. Closed(q) /\ Clear(q) BY <1>1, <1>2 DEF Faithful, Marked
  <2>2. Between(q)' = Between(q) /\ end_marker_value(q)' = end_marker_value(q)
    BY <1>1 DEF Between, end_marker_value
  <2>3. QED BY <1>1, <2>1, <2>2 DEF Closed, Clear, BeginsMarked
<1>3. CASE ~ok
  <2>1. drv'[q] = "executable" /\ "submit" \in Failures BY <1>1, <1>3 DEF Submit
  <2>2. QED BY <1>1, <1>2, <2>1 DEF Faithful, Marked, NoSubmitFails
<1>4. CASE ok
  <2>1. drv'[q] = "pending" BY <1>0, <1>4 DEF Submit
  <2>2. front'[q] = 0 /\ back'[q] = 0 BY <1>0, <1>4 DEF Submit, TypeOK
  <2>3. ASSUME has_buffer_marker[q] PROVE Progress(q)'
    <3>1. Len(stream'[q]) \in Nat /\ Len(stream'[q]) # 0
      <4>1. stream[q] \in Seq(Ops(q)) /\ stream[q] # <<>>
        BY <1>0, <1>2, <2>3 DEF Closed, BeginsMarked, TypeInv, Typed, StreamsFit
      <4>2. QED BY <1>1, <4>1, EmptySeq
    <3>2. begin_marker_value[q] \in Nat BY <1>0, WordSize DEF TypeOK
    <3>3. ~CompletedExecution(q)'
      BY <1>0, <1>2, <2>3, <3>2, <1>1 DEF Clear, CompletedExecution,
         end_marker_value
    <3>4. top'[q] = 0 BY <1>1, <1>2, <2>3 DEF Clear
    <3>5. QED BY <2>2, <3>1, <3>3, <3>4 DEF Progress
  <2>4. QED
    BY <1>1, <1>2, <2>1, <2>3 DEF Faithful, Marked, Settled, NoSubmitFails
<1>5. QED BY <1>3, <1>4

\* The operation that the GPU fetches or retires.
LEMMA GPUOp ==
  ASSUME TypeInv, NEW q \in Primaries, Closed(q), NEW i \in 1 .. Len(stream[q])
  PROVE  LET op == stream[q][i] IN
         /\ op.at = "top" /\ op.cb = q => op.value > begin_marker_value[q]
         /\ i = 1 => op = Write("top", q, begin_marker_value[q] + 1)
         /\ op.at = "bottom" /\ op.cb = q =>
              (op.value = end_marker_value(q) <=> i = Len(stream[q]))
         /\ i = Len(stream[q]) => op = Write("bottom", q, end_marker_value(q))
<1>0. /\ TypeOK /\ q \in CommandBuffers
      /\ stream[q] \in Seq(Ops(q)) /\ Len(stream[q]) \in Nat
      /\ begin_marker_value[q] \in Nat
  BY PrimaryTypes
<1> DEFINE op == stream[q][i]
<1>1. CASE i = Len(stream[q])
  <2>1. op = Write("bottom", q, end_marker_value(q)) BY <1>1 DEF Closed
  <2>2. i # 1 BY <2>1 DEF Closed, BeginsMarked, Write
  <2>3. QED BY <1>1, <2>1, <2>2 DEF Write
<1>2. CASE i # Len(stream[q])
  <2>1. i \in 1 .. Len(stream[q]) - 1 BY <1>0, <1>2
  <2>2. op \in Between(q) BY <2>1 DEF Closed
  <2>3. i = 1 => op = Write("top", q, begin_marker_value[q] + 1)
    BY DEF Closed, BeginsMarked
  <2>4. op.at = "top" /\ op.cb = q => op.value > begin_marker_value[q]
    BY <1>0, <2>2 DEF Between, Ops, Op
  <2>5. op.at = "bottom" /\ op.cb = q => op.value # end_marker_value(q)
    BY <1>0, <2>2, RangeAssumption DEF Between, Ops, Op, end_marker_value
  <2> HIDE DEF op
  <2>6. QED BY <1>2, <2>3, <2>4, <2>5 DEF op
<1>3. QED BY <1>1, <1>2

LEMMA FetchFaithful ==
  ASSUME TypeInv, UNCHANGED config, NEW q \in Primaries, Faithful(q), GPUFetch(q)
  PROVE  Faithful(q)'
<1>0. /\ TypeOK /\ q \in CommandBuffers /\ front[q] \in Nat /\ back[q] \in Nat
      /\ Len(stream[q]) \in Nat /\ begin_marker_value[q] \in Nat
      /\ top \in [CommandBuffers -> 0 .. Wrap - 1]
  BY PrimaryTypes
<1>1. /\ MaxCommands' = MaxCommands /\ Failures' = Failures /\ drv[q] = "pending"
      /\ UNCHANGED <<has_buffer_marker, begin_marker_value, buffer_state, bottom,
                     drv, stream, back>>
  BY DEF GPUFetch, MaxCommands, Failures, object
<1>2. front[q] < Len(stream[q]) /\ front'[q] = front[q] + 1
  BY <1>0 DEF GPUFetch, TypeOK
<1>3. ASSUME has_buffer_marker[q] PROVE Closed(q)' /\ Progress(q)'
  <2>1. Closed(q) /\ Progress(q) BY <1>1, <1>3 DEF Faithful, Marked
  <2>2. Between(q)' = Between(q) /\ end_marker_value(q)' = end_marker_value(q)
    BY <1>1 DEF Between, end_marker_value
  <2>3. Closed(q)' BY <1>1, <2>1, <2>2 DEF Closed, BeginsMarked
  <2> DEFINE op == stream[q][front[q] + 1]
  <2>4. front[q] + 1 \in 1 .. Len(stream[q]) BY <1>0, <1>2
  <2>5. /\ op.at = "top" /\ op.cb = q => op.value > begin_marker_value[q]
        /\ front[q] + 1 = 1 => op = Write("top", q, begin_marker_value[q] + 1)
    BY <2>1, <2>4, GPUOp
  <2>6. top' = IF op.at = "top" THEN [top EXCEPT ![op.cb] = op.value] ELSE top
    BY DEF GPUFetch
  <2>7. top'[q] = IF op.at = "top" /\ op.cb = q THEN op.value ELSE top[q]
    <3> HIDE DEF op
    <3>1. QED BY <1>0, <2>6
  <2>8. top'[q] > begin_marker_value[q]
    <3>1. CASE front[q] = 0 
      <4>1. op.at = "top" /\ op.cb = q BY <2>5, <3>1 DEF Write
      <4> HIDE DEF op
      <4>2. QED BY <2>5, <2>7, <4>1
    <3>2. CASE front[q] # 0
      <4>1. top[q] > begin_marker_value[q] BY <2>1, <3>2 DEF Progress
      <4> HIDE DEF op
      <4>2. QED BY <2>5, <2>7, <4>1
    <3>3. QED BY <3>1, <3>2
  <2>9. CompletedExecution(q)' = CompletedExecution(q)
    BY <1>1, <2>2 DEF CompletedExecution
  <2>10. Progress(q)'
    <3>1. /\ back'[q] <= front'[q] /\ front'[q] <= Len(stream'[q])
      BY <1>0, <1>1, <1>2, <2>1 DEF Progress
    <3>2. front'[q] # 0 BY <1>0, <1>2
    <3>3. back'[q] = Len(stream'[q]) <=> CompletedExecution(q)'
      BY <1>1, <2>1, <2>9 DEF Progress
    <3>4. QED BY <1>1, <2>8, <3>1, <3>2, <3>3 DEF Progress
  <2>11. QED BY <2>3, <2>10
<1>4. QED BY <1>1, <1>3 DEF Faithful, Marked, Settled, NoSubmitFails

LEMMA RetireFaithful ==
  ASSUME TypeInv, UNCHANGED config, NEW q \in Primaries, Faithful(q), GPURetire(q)
  PROVE  Faithful(q)'
<1>0. /\ TypeOK /\ q \in CommandBuffers /\ front[q] \in Nat /\ back[q] \in Nat
      /\ Len(stream[q]) \in Nat /\ front[q] <= Len(stream[q])
      /\ bottom \in [CommandBuffers -> 0 .. Wrap - 1]
  BY PrimaryTypes DEF TypeInv, InBounds, GPURetire
<1>1. /\ MaxCommands' = MaxCommands /\ Failures' = Failures /\ drv[q] = "pending"
      /\ UNCHANGED <<has_buffer_marker, begin_marker_value, buffer_state, top,
                     drv, stream, front>>
  BY DEF GPURetire, MaxCommands, Failures, object
<1>2. back[q] < front[q] /\ back'[q] = back[q] + 1
  BY <1>0 DEF GPURetire, TypeOK
<1>3. ASSUME has_buffer_marker[q] PROVE Closed(q)' /\ Progress(q)'
  <2>1. Closed(q) /\ Progress(q) BY <1>1, <1>3 DEF Faithful, Marked
  <2>2. Between(q)' = Between(q) /\ end_marker_value(q)' = end_marker_value(q)
    BY <1>1 DEF Between, end_marker_value
  <2>3. Closed(q)' BY <1>1, <2>1, <2>2 DEF Closed, BeginsMarked
  <2> DEFINE op == stream[q][back[q] + 1]
             last == back[q] + 1 = Len(stream[q])
  <2>4. back[q] + 1 \in 1 .. Len(stream[q]) BY <1>0, <1>2
  <2>5. /\ op.at = "bottom" /\ op.cb = q => (op.value = end_marker_value(q) <=> last)
        /\ last => op = Write("bottom", q, end_marker_value(q))
    BY <2>1, <2>4, GPUOp
  <2>6. bottom' = IF op.at = "bottom" THEN [bottom EXCEPT ![op.cb] = op.value]
                  ELSE bottom
    BY DEF GPURetire
  <2>7. bottom'[q] = IF op.at = "bottom" /\ op.cb = q THEN op.value ELSE bottom[q]
    <3> HIDE DEF op
    <3>1. QED BY <1>0, <2>6
  <2>8. bottom[q] # end_marker_value(q)
    BY <1>0, <1>2, <2>1 DEF Progress, CompletedExecution
  <2>9. last => op.at = "bottom" /\ op.cb = q BY <2>5 DEF Write
  <2>10. bottom'[q] = end_marker_value(q) <=> last
    <3> HIDE DEF op, last
    <3>1. QED BY <2>5, <2>7, <2>8, <2>9
  <2>11. Progress(q)'
    <3>1. back'[q] <= front'[q] /\ front'[q] <= Len(stream'[q]) /\ front'[q] # 0
      BY <1>0, <1>1, <1>2
    <3>2. top'[q] > begin_marker_value'[q]
      BY <1>0, <1>1, <1>2, <2>1 DEF Progress
    <3>3. back'[q] = Len(stream'[q]) <=> CompletedExecution(q)'
      BY <1>1, <1>2, <2>2, <2>10 DEF CompletedExecution
    <3>4. QED BY <3>1, <3>2, <3>3 DEF Progress
  <2>12. QED BY <2>3, <2>11
<1>4. QED BY <1>1, <1>3 DEF Faithful, Marked, Settled, NoSubmitFails

LEMMA FinishedFaithful ==
  ASSUME TypeInv, OneTimeAndShort, UNCHANGED config,
         NEW q \in Primaries, Faithful(q), Finished(q)
  PROVE  Faithful(q)'
<1>0. /\ TypeOK /\ q \in CommandBuffers /\ stream[q] \in Seq(Ops(q))
      /\ front[q] \in Nat /\ back[q] \in Nat
  BY PrimaryTypes
<1>1. /\ MaxCommands' = MaxCommands /\ Failures' = Failures
      /\ drv[q] = "pending" /\ back[q] = Len(stream[q])
      /\ UNCHANGED <<has_buffer_marker, begin_marker_value, buffer_state, top,
                     bottom, stream, front, back>>
  BY DEF Finished, MaxCommands, Failures, object, markers, gpu
<1>2. drv'[q] = "invalid"
  <2>1. drv' = [c \in CommandBuffers |->
                  IF c \in {q} \cup ExecutedBy(q)
                  THEN IF OneTime THEN "invalid" ELSE "executable"
                  ELSE drv[c]]
    BY DEF Finished
  <2>2. QED BY <1>0, <2>1 DEF OneTimeAndShort
<1>3. ASSUME has_buffer_marker[q]
      PROVE  top'[q] > begin_marker_value'[q] /\ CompletedExecution(q)'
  <2>1. Closed(q) /\ Progress(q) BY <1>1, <1>3 DEF Faithful, Marked
  <2>2. front[q] # 0
    <3>1. Len(stream[q]) \in Nat /\ Len(stream[q]) # 0
      BY <1>0, <2>1, EmptySeq DEF Closed, BeginsMarked
    <3>2. QED BY <1>0, <1>1, <2>1, <3>1 DEF Progress
  <2>3. QED
    BY <1>1, <2>1, <2>2 DEF Progress, CompletedExecution, end_marker_value
<1>4. QED BY <1>1, <1>2, <1>3 DEF Faithful, Marked, Settled, NoSubmitFails

\* The GPU writes to the words of the primary it executes and of secondaries.
LEMMA GPULeavesAlone ==
  ASSUME TypeInv, NEW p \in Primaries, NEW q \in Primaries \ {p},
         NEW i \in 1 .. Len(stream[p])
  PROVE  stream[p][i].cb # q
<1>1. stream[p][i] \in Ops(p) BY PrimaryTypes, ElementOfSeq
<1>2. QED BY <1>1, LevelAssumption DEF Ops

LEMMA OthersKept ==
  ASSUME TypeInv, NEW q \in Primaries
  PROVE  /\ \A c \in CommandBuffers \ {q} :
              \/ Allocate(c) \/ Free(c)
              \/ \E ok \in BOOLEAN : Begin(c, ok) \/ End(c, ok)
              \/ \E type \in {"instrumented", "plain"} : Record(c, type)
              => Kept(q)
         /\ \A p \in Primaries \ {q} :
              \/ \E s \in Secondaries : ExecuteCommands(p, s)
              \/ \E ok \in BOOLEAN : Submit(p, ok)
              \/ GPUFetch(p) \/ GPURetire(p) \/ Finished(p)
              => Kept(q)
<1>0. TypeOK /\ q \in CommandBuffers BY PrimaryTypes
<1> USE DEF object, markers, gpu
<1>1. ASSUME NEW c \in CommandBuffers \ {q}, Allocate(c) PROVE Kept(q)
  BY <1>0, <1>1 DEF Allocate, DriverState, Kept, TypeOK
<1>2. ASSUME NEW c \in CommandBuffers \ {q}, Free(c) PROVE Kept(q)
  BY <1>0, <1>2 DEF Free, DriverState, DropProgress, Kept, TypeOK
<1>3. ASSUME NEW c \in CommandBuffers \ {q}, NEW ok \in BOOLEAN, Begin(c, ok)
      PROVE  Kept(q)
  BY <1>0, <1>3 DEF Begin, DriverState, ClearMarkers, DropProgress, Kept, TypeOK
<1>4. ASSUME NEW c \in CommandBuffers \ {q}, NEW ok \in BOOLEAN, End(c, ok)
      PROVE  Kept(q)
  BY <1>0, <1>4 DEF End, DriverState, Kept, TypeOK
<1>5. ASSUME NEW c \in CommandBuffers \ {q}, NEW type, Record(c, type) PROVE Kept(q)
  BY <1>0, <1>5 DEF Record, Kept, TypeOK
<1>6. ASSUME NEW p \in Primaries \ {q}, NEW s \in Secondaries, ExecuteCommands(p, s)
      PROVE  Kept(q)
  BY <1>0, <1>6 DEF ExecuteCommands, Kept, TypeOK
<1>7. ASSUME NEW p \in Primaries \ {q}, NEW ok \in BOOLEAN, Submit(p, ok)
      PROVE  Kept(q)
  <2>1. q \notin ExecutedBy(p) BY <1>0, ExecutesSecondaries, LevelAssumption
  <2>2. drv'[q] = drv[q] BY <1>0, <1>7, <2>1 DEF Submit
  <2>3. front'[q] = front[q] /\ back'[q] = back[q]
    <3>1. front \in [Primaries -> Nat] /\ back \in [Primaries -> Nat]
      BY <1>0 DEF TypeOK
    <3>2. \/ front' = [front EXCEPT ![p] = 0] /\ back' = [back EXCEPT ![p] = 0]
          \/ front' = front /\ back' = back
      BY <1>7 DEF Submit
    <3>3. QED BY <3>1, <3>2
  <2>4. QED BY <1>0, <1>7, <2>2, <2>3 DEF Submit, Kept, TypeOK
<1>8. ASSUME NEW p \in Primaries \ {q}, GPUFetch(p) PROVE Kept(q)
  <2> DEFINE op == stream[p][front[p] + 1]
  <2>1. front[p] + 1 \in 1 .. Len(stream[p])
    <3>1. front[p] \in Nat /\ Len(stream[p]) \in Nat BY PrimaryTypes
    <3>2. QED BY <1>8, <3>1 DEF GPUFetch
  <2>2. op.cb # q BY <2>1, GPULeavesAlone
  <2>3. top' = IF op.at = "top" THEN [top EXCEPT ![op.cb] = op.value] ELSE top
    BY <1>8 DEF GPUFetch
  <2> HIDE DEF op
  <2>4. top'[q] = top[q] BY <1>0, <2>2, <2>3, PrimaryTypes
  <2>5. front'[q] = front[q] BY <1>8 DEF GPUFetch, TypeOK
  <2>6. QED BY <1>8, <2>4, <2>5 DEF GPUFetch, Kept
<1>9. ASSUME NEW p \in Primaries \ {q}, GPURetire(p) PROVE Kept(q)
  <2> DEFINE op == stream[p][back[p] + 1]
  <2>1. back[p] + 1 \in 1 .. Len(stream[p])
    <3>1. /\ front[p] \in Nat /\ back[p] \in Nat /\ Len(stream[p]) \in Nat
      BY PrimaryTypes
    <3>2. QED BY <1>9, <3>1 DEF GPURetire, TypeInv, InBounds
  <2>2. op.cb # q BY <2>1, GPULeavesAlone
  <2>3. bottom' = IF op.at = "bottom" THEN [bottom EXCEPT ![op.cb] = op.value]
                  ELSE bottom
    BY <1>9 DEF GPURetire
  <2> HIDE DEF op
  <2>4. bottom'[q] = bottom[q] BY <1>0, <2>2, <2>3, PrimaryTypes
  <2>5. back'[q] = back[q] BY <1>9 DEF GPURetire, TypeOK
  <2>6. QED BY <1>9, <2>4, <2>5 DEF GPURetire, Kept
<1>10. ASSUME NEW p \in Primaries \ {q}, Finished(p) PROVE Kept(q)
  <2>1. q \notin ExecutedBy(p) BY <1>0, ExecutesSecondaries, LevelAssumption
  <2>2. drv' = [c \in CommandBuffers |->
                  IF c \in {p} \cup ExecutedBy(p)
                  THEN IF OneTime THEN "invalid" ELSE "executable"
                  ELSE drv[c]]
    BY <1>10 DEF Finished
  <2>3. drv'[q] = drv[q] BY <1>0, <2>1, <2>2
  <2>4. QED BY <1>10, <2>3 DEF Finished, Kept
<1>11. QED
  BY <1>1, <1>2, <1>3, <1>4, <1>5, <1>6, <1>7, <1>8, <1>9, <1>10

LEMMA StepFaithful ==
  ASSUME IInv, TypeInv', [Next]_vars, NEW q \in Primaries
  PROVE  Faithful(q)'
<1>0. /\ TypeInv /\ TypeOK /\ OneTimeAndShort /\ Faithful(q)
      /\ q \in CommandBuffers
  BY PrimaryTypes DEF IInv
<1>1. CASE UNCHANGED vars
  <2>1. Kept(q) /\ UNCHANGED config BY <1>1 DEF vars, object, markers, gpu, Kept
  <2>2. QED BY <1>0, <2>1, KeptIsFaithful
<1>2. ASSUME UNCHANGED config, Kept(q) PROVE Faithful(q)'
  BY <1>0, <1>2, KeptIsFaithful
<1>3. ASSUME UNCHANGED config, Allocate(q) PROVE Faithful(q)'
  <2>1. drv'[q] = "initial" /\ buffer_state'[q] = "kInitial"
    BY <1>0, <1>3 DEF Allocate, DriverState, TypeOK
  <2>2. q \in DOMAIN MaxCommands' BY <1>3 DEF Allocate, MaxCommands
  <2>3. QED BY <2>1, <2>2, OutsideIsFaithful
<1>4. ASSUME UNCHANGED config, Free(q) PROVE Faithful(q)'
  <2>1. drv'[q] = "none" /\ buffer_state'[q] = "kInitial"
    BY <1>0, <1>4 DEF Free, DriverState, TypeOK
  <2>2. QED BY <2>1, OutsideIsFaithful
<1>5. ASSUME UNCHANGED config, NEW C \in SUBSET CommandBuffers, Reset(C)
      PROVE  Faithful(q)'
  <2>1. CASE q \in C /\ drv[q] # "none"
    <3>1. drv'[q] = "initial" /\ buffer_state'[q] = "kInitialReset"
      BY <1>0, <1>5, <2>1 DEF Reset
    <3>2. q \in DOMAIN MaxCommands'
      BY <1>0, <1>5, <2>1 DEF Faithful, MaxCommands
    <3>3. QED BY <3>1, <3>2, OutsideIsFaithful
  <2>2. CASE ~(q \in C /\ drv[q] # "none")
    <3>1. Kept(q)
      BY <1>0, <1>5, <2>2
         DEF Reset, ClearMarkers, DropProgress, Kept, TypeOK, object
    <3>2. QED BY <1>2, <1>5, <3>1
  <2>3. QED BY <2>1, <2>2
<1>6. ASSUME UNCHANGED config, NEW ok \in BOOLEAN, Begin(q, ok) \/ End(q, ok)
      PROVE  Faithful(q)'
  BY <1>0, <1>6, BeginFaithful, EndFaithful
<1>7. ASSUME UNCHANGED config, NEW type, Record(q, type) PROVE Faithful(q)'
  BY <1>0, <1>7, RecordFaithful
<1>8. ASSUME UNCHANGED config, NEW s \in Secondaries, ExecuteCommands(q, s)
      PROVE  Faithful(q)'
  BY <1>0, <1>8, ExecuteFaithful
<1>9. ASSUME UNCHANGED config, NEW ok \in BOOLEAN, Submit(q, ok) PROVE Faithful(q)'
  BY <1>0, <1>9, SubmitFaithful
<1>10. ASSUME UNCHANGED config, GPUFetch(q) \/ GPURetire(q) \/ Finished(q)
       PROVE  Faithful(q)'
  BY <1>0, <1>10, FetchFaithful, RetireFaithful, FinishedFaithful
<1>11. CASE Next
  <2>1. UNCHANGED config BY <1>11 DEF Next
  <2>2. ASSUME NEW c \in CommandBuffers,
               \/ Allocate(c) \/ Free(c)
               \/ \E ok \in BOOLEAN : Begin(c, ok) \/ End(c, ok)
               \/ \E type \in {"instrumented", "plain"} : Record(c, type)
        PROVE  Faithful(q)'
    <3>1. CASE c = q BY <2>1, <2>2, <3>1, <1>3, <1>4, <1>6, <1>7
    <3>2. CASE c # q
      <4>1. Kept(q) BY <1>0, <2>2, <3>2, OthersKept
      <4>2. QED BY <1>2, <2>1, <4>1
    <3>3. QED BY <3>1, <3>2
  <2>3. ASSUME NEW p \in Primaries,
               \/ \E s \in Secondaries : ExecuteCommands(p, s)
               \/ \E ok \in BOOLEAN : Submit(p, ok)
               \/ GPUFetch(p) \/ GPURetire(p) \/ Finished(p)
        PROVE  Faithful(q)'
    <3>1. CASE p = q BY <2>1, <2>3, <3>1, <1>8, <1>9, <1>10
    <3>2. CASE p # q
      <4>1. Kept(q) BY <1>0, <2>3, <3>2, OthersKept
      <4>2. QED BY <1>2, <2>1, <4>1
    <3>3. QED BY <3>1, <3>2
  <2>4. ASSUME NEW c \in CommandBuffers, Reset({c}) PROVE Faithful(q)'
    BY <1>5, <2>1, <2>4
  <2>5. Reset(CommandBuffers) => Faithful(q)' BY <1>5, <2>1
  <2>6. QED BY <1>11, <2>2, <2>3, <2>4, <2>5 DEF Next
<1>12. QED BY <1>1, <1>11

LEMMA InitInvariant == Init /\ OneTimeAndShort => IInv
<1> SUFFICES ASSUME Init, OneTimeAndShort, NEW p \in Primaries PROVE Faithful(p)
  BY InitTyped DEF IInv
<1>1. drv[p] = "none" /\ buffer_state[p] = "kInitial"
  BY DEF Init, CommandBuffers
<1>2. QED BY <1>1 DEF Faithful, Marked, Settled, NoSubmitFails

LEMMA StepInvariant == IInv /\ [Next]_vars => IInv'
<1> SUFFICES ASSUME IInv, [Next]_vars PROVE IInv'
  OBVIOUS
<1>1. TypeInv' BY StepTyped, StepInBounds DEF IInv, TypeInv
<1>2. config' = config BY DEF Next, vars
<1>3. OneTimeAndShort' BY <1>2 DEF IInv, OneTimeAndShort, OneTime, MaxCommands
<1>4. QED BY <1>1, <1>3, StepFaithful DEF IInv

LEMMA Invariant == Spec /\ OneTimeAndShort => []IInv
BY InitInvariant, StepInvariant, PTL DEF Spec

-----------------------------------------------------------------------------
(* The reports.                                                            *)

LEMMA InvariantIsExact == IInv => StateReportExact
<1> SUFFICES ASSUME IInv, NEW p \in Primaries, drv[p] = "pending", has_buffer_marker[p]
             PROVE  GetCommandBufferState(p) =
                      IF front[p] = 0 THEN NotStarted
                      ELSE IF InFlight(p) THEN Incomplete ELSE Completed
  BY DEF StateReportExact
<1>1. /\ TypeInv /\ Progress(p) /\ Closed(p) /\ WasSubmittedToQueue(p)
  BY DEF IInv, Faithful, Marked, WasSubmittedToQueue
<1>2. /\ top[p] \in Nat /\ begin_marker_value[p] \in Nat /\ begin_marker_value[p] # 0
      /\ front[p] \in Nat /\ back[p] \in Nat /\ Len(stream[p]) \in Nat
  BY <1>1, PrimaryTypes DEF TypeOK
<1>3. StartedExecution(p) <=> front[p] # 0
  BY <1>1, <1>2 DEF Progress, StartedExecution
<1>4. CompletedExecution(p) <=> ~InFlight(p)
  BY <1>1, <1>2 DEF Progress, InFlight
<1>5. QED BY <1>1, <1>3, <1>4 DEF GetCommandBufferState

\* The state that GetCommandBufferState reports of a submission is the GPU's,
\* whatever the words held before: not started, incomplete or completed.
THEOREM ReportsAreExact == Spec /\ OneTimeAndShort => []StateReportExact
BY Invariant, InvariantIsExact, PTL

LEMMA InvariantDumps == IInv => IncompleteIsDumped
<1> SUFFICES ASSUME IInv, NEW p \in Primaries, has_buffer_marker[p], InFlight(p)
             PROVE  p \in Dumped
  BY DEF IncompleteIsDumped
<1>1. drv[p] = "pending" /\ back[p] # Len(stream[p])
  BY PrimaryTypes DEF InFlight, IInv
<1>2. InUse(p)
  BY <1>1 DEF IInv, Faithful, Marked, Progress, InUse, WasSubmittedToQueue
<1>3. QED BY <1>1, <1>2 DEF Dumped

\* A marked buffer that the GPU has not finished is in the dump (the run
\* CommandBufferResubmit shows that a second execution is not).
THEOREM UnfinishedAreDumped == Spec /\ OneTimeAndShort => []IncompleteIsDumped
BY Invariant, InvariantDumps, PTL

LEMMA InvariantReportsInFlight == IInv /\ NoSubmitFails => OnlyInFlightIsReported
<1> SUFFICES ASSUME IInv, NoSubmitFails, NEW p \in Primaries, InUse(p)
             PROVE  InFlight(p)
  BY DEF OnlyInFlightIsReported
<1>1. /\ has_buffer_marker[p] /\ buffer_state[p] = "kPending"
      /\ ~CompletedExecution(p)
  BY DEF InUse, WasSubmittedToQueue
<1>2. TypeInv /\ drv[p] = "pending"
  BY <1>1 DEF IInv, Faithful, Settled, NoSubmitFails
<1>3. Progress(p) BY <1>1, <1>2 DEF IInv, Faithful, Marked
<1>4. front[p] \in Nat /\ back[p] \in Nat /\ Len(stream[p]) \in Nat
  BY <1>2, PrimaryTypes
<1>5. QED BY <1>1, <1>2, <1>3, <1>4 DEF Progress, InFlight

\* Only buffers in flight are in the dump of incomplete ones and in "in use
\* by GPU", if no vkQueueSubmit fails: the layer does not undo kPending.
THEOREM ReportedAreInFlight ==
  Spec /\ OneTimeAndShort /\ NoSubmitFails => []OnlyInFlightIsReported
<1>1. NoSubmitFails /\ [Next]_vars => NoSubmitFails'
  BY DEF NoSubmitFails, Failures, Next, vars
<1>2. QED BY Invariant, InvariantReportsInFlight, <1>1, PTL DEF Spec

-----------------------------------------------------------------------------
(* The refinement of SubmissionReport.                                     *)

\* ReportedStage, spelled out.
Stage(p) ==
  IF ~has_buffer_marker[p] \/ buffer_state[p] # "kPending" THEN "unsubmitted"
  ELSE IF top[p] < begin_marker_value[p] THEN "notStarted"
  ELSE IF bottom[p] # end_marker_value(p) THEN "incomplete"
  ELSE "completed"

StagesAreReported == ReportedStage = [p \in Primaries |-> Stage(p)]

LEMMA StageIsReported == TypeInv => StagesAreReported
<1> SUFFICES ASSUME TypeInv PROVE StagesAreReported
  OBVIOUS
<1>1. ASSUME NEW p \in Primaries
      PROVE  (CASE GetCommandBufferState(p) = NotStarted -> "notStarted"
                [] GetCommandBufferState(p) = Incomplete -> "incomplete"
                [] GetCommandBufferState(p) = Completed  -> "completed"
                [] OTHER                                 -> "unsubmitted")
             = Stage(p)
  <2>1. buffer_state[p] \in BufferState /\ top[p] \in Nat /\ begin_marker_value[p] \in Nat
    <3>1. TypeOK /\ p \in CommandBuffers BY PrimaryTypes
    <3>2. buffer_state[p] \in BufferState BY <3>1 DEF TypeOK
    <3>3. QED BY <3>1, <3>2, PrimaryTypes
  <2>2. StartedExecution(p) <=> ~(top[p] < begin_marker_value[p])
    BY <2>1 DEF StartedExecution
  <2>3. CASE ~has_buffer_marker[p] \/ buffer_state[p] # "kPending"
    <3>1. GetCommandBufferState(p) = buffer_state[p]
      BY <2>3 DEF GetCommandBufferState, WasSubmittedToQueue
    <3>2. /\ buffer_state[p] # NotStarted /\ buffer_state[p] # Incomplete
          /\ buffer_state[p] # Completed
      BY <2>1 DEF BufferState, NotStarted, Incomplete, Completed
    <3>3. QED BY <2>3, <3>1, <3>2 DEF Stage
  <2>4. CASE has_buffer_marker[p] /\ buffer_state[p] = "kPending"
    <3>1. GetCommandBufferState(p) =
            IF ~StartedExecution(p) THEN NotStarted
            ELSE IF ~CompletedExecution(p) THEN Incomplete ELSE Completed
      BY <2>4 DEF GetCommandBufferState, WasSubmittedToQueue
    <3>2. QED
      BY <2>2, <2>4, <3>1 DEF Stage, CompletedExecution, NotStarted,
         Incomplete, Completed
  <2>5. QED BY <2>3, <2>4
<1>2. QED BY <1>1 DEF ReportedStage, StagesAreReported

ExactStage(p) ==
  IF front[p] = 0 THEN "notStarted"
  ELSE IF back[p] # Len(stream[p]) THEN "incomplete"
  ELSE "completed"

StagesAreExact ==
  \A p \in Primaries :
    drv[p] = "pending" /\ has_buffer_marker[p] => Stage(p) = ExactStage(p)

LEMMA StageIsExact == IInv => StagesAreExact
<1> SUFFICES ASSUME IInv, NEW p \in Primaries, drv[p] = "pending", has_buffer_marker[p]
             PROVE  Stage(p) = ExactStage(p)
  BY DEF StagesAreExact
<1>1. TypeInv /\ Progress(p) /\ buffer_state[p] = "kPending"
  BY DEF IInv, Faithful, Marked
<1>2. /\ top[p] \in Nat /\ begin_marker_value[p] \in Nat /\ begin_marker_value[p] # 0
      /\ front[p] \in Nat /\ back[p] \in Nat /\ Len(stream[p]) \in Nat
  BY <1>1, PrimaryTypes DEF TypeOK
<1>3. QED BY <1>1, <1>2 DEF Stage, ExactStage, Progress, CompletedExecution

\* Out of flight there is nothing to report, or a submission that is done.
LEMMA IdleStage ==
  ASSUME IInv, NoSubmitFails, NEW p \in Primaries, drv[p] # "pending"
  PROVE  /\ Stage(p) \in {"unsubmitted", "completed"}
         /\ drv[p] # "invalid" => Stage(p) = "unsubmitted"
<1>1. TypeInv /\ Settled(p) BY DEF IInv, Faithful, NoSubmitFails
<1>2. top[p] \in Nat /\ begin_marker_value[p] \in Nat BY <1>1, PrimaryTypes
<1>3. CASE ~has_buffer_marker[p] \/ buffer_state[p] # "kPending"
  BY <1>3 DEF Stage
<1>4. CASE has_buffer_marker[p] /\ buffer_state[p] = "kPending"
  BY <1>1, <1>2, <1>4 DEF Settled, Stage, CompletedExecution
<1>5. QED BY <1>3, <1>4

\* What Forget allows for one primary: its stage stays or is forgotten.
Quiet(p) ==
  \/ Stage(p)' = Stage(p)
  \/ Stage(p) \in {"unsubmitted", "completed"} /\ Stage(p)' = "unsubmitted"

LEMMA KeptIsQuiet ==
  ASSUME NEW p, Kept(p)
  PROVE  Stage(p)' = Stage(p)
BY DEF Kept, Stage, end_marker_value

\* The stages of primaries in an abstract step.
LEMMA QuietIsForget ==
  ASSUME TypeInv, TypeInv', \A p \in Primaries : Quiet(p)
  PROVE  Report!Next
<1>1. ReportedStage = [p \in Primaries |-> Stage(p)]
  BY StageIsReported DEF StagesAreReported
<1>2. ReportedStage' = [p \in Primaries |-> Stage(p)']
  <2>1. TypeInv' => StagesAreReported' BY StageIsReported, PTL
  <2>2. QED BY <2>1 DEF StagesAreReported
<1> DEFINE B == {p \in Primaries : /\ Stage(p) \in {"unsubmitted", "completed"}
                                   /\ Stage(p)' = "unsubmitted"}
<1>3. ReportedStage' = [p \in Primaries |-> IF p \in B THEN "unsubmitted"
                                            ELSE ReportedStage[p]]
  BY <1>1, <1>2 DEF Quiet
<1>4. \A p \in B : ReportedStage[p] \in {"unsubmitted", "completed"} BY <1>1
<1>5. Report!Forget BY <1>3, <1>4 DEF Report!Forget
<1>6. QED BY <1>5 DEF Report!Next

LEMMA MoveIsStep ==
  ASSUME TypeInv, TypeInv', NEW p \in Primaries,
         \A q \in Primaries \ {p} : Stage(q)' = Stage(q),
         \/ Stage(p) = "unsubmitted" /\ Stage(p)' = "notStarted"
         \/ Stage(p) = "notStarted" /\ Stage(p)' = "incomplete"
         \/ Stage(p) = "incomplete" /\ Stage(p)' = "completed"
  PROVE  Report!Next
<1>1. ReportedStage = [q \in Primaries |-> Stage(q)]
  BY StageIsReported DEF StagesAreReported
<1>2. ReportedStage' = [q \in Primaries |-> Stage(q)']
  <2>1. TypeInv' => StagesAreReported' BY StageIsReported, PTL
  <2>2. QED BY <2>1 DEF StagesAreReported
<1>3. ReportedStage[p] = Stage(p) BY <1>1
<1>4. ReportedStage' = [ReportedStage EXCEPT ![p] = Stage(p)'] BY <1>1, <1>2
<1>5. Report!Submit(p) \/ Report!Start(p) \/ Report!Finish(p)
  BY <1>3, <1>4 DEF Report!Submit, Report!Start, Report!Finish, Report!Move
<1>6. QED BY <1>5 DEF Report!Next

LEMMA StepRefines ==
  ASSUME IInv, IInv', NoSubmitFails, [Next]_vars
  PROVE  [Report!Next]_ReportedStage
<1>0. TypeInv /\ TypeInv' /\ TypeOK BY DEF IInv, TypeInv, Typed
<1> SUFFICES Report!Next OBVIOUS
<1>1. CASE UNCHANGED vars
  <2>1. \A p \in Primaries : Stage(p)' = Stage(p)
    BY <1>1 DEF vars, object, markers, Stage, end_marker_value
  <2>2. QED BY <1>0, <2>1, QuietIsForget DEF Quiet
<1>2. ASSUME NEW c \in CommandBuffers,
             \/ Allocate(c) \/ Free(c)
             \/ \E ok \in BOOLEAN : Begin(c, ok) \/ End(c, ok)
             \/ \E type \in {"instrumented", "plain"} : Record(c, type)
      PROVE  Report!Next
  <2> SUFFICES ASSUME NEW q \in Primaries PROVE Quiet(q)
    BY <1>0, QuietIsForget
  <2>0. q \in CommandBuffers BY DEF CommandBuffers
  <2>1. CASE c # q
    <3>1. Kept(q) BY <1>0, <1>2, <2>1, OthersKept
    <3>2. QED BY <3>1, KeptIsQuiet DEF Quiet
  <2>2. CASE c = q /\ \E type \in {"instrumented", "plain"} : Record(c, type)
    <3>1. UNCHANGED <<has_buffer_marker, begin_marker_value, buffer_state, top, bottom>>
      BY <2>2 DEF Record, object, markers
    <3>2. QED BY <3>1 DEF Quiet, Stage, end_marker_value
  <2>3. CASE c = q /\ ~\E type \in {"instrumented", "plain"} : Record(c, type)
    <3>1. drv[q] # "pending"
      BY <1>2, <2>3 DEF Allocate, Free, Begin, End
    <3>2. buffer_state'[q] # "kPending"
      <4>1. buffer_state \in [CommandBuffers -> BufferState] BY <1>0 DEF TypeOK
      <4>2. buffer_state'[q] \in {"kInitial", "kRecording", "kExecutable"}
        BY <1>2, <2>0, <2>3, <4>1 DEF Allocate, Free, Begin, End
      <4>3. QED BY <4>2
    <3>3. Stage(q)' = "unsubmitted" BY <3>2 DEF Stage
    <3>4. QED BY <3>1, <3>3, IdleStage DEF Quiet
  <2>4. QED BY <2>1, <2>2, <2>3
<1>3. ASSUME NEW C \in SUBSET CommandBuffers, Reset(C) PROVE Report!Next
  <2> SUFFICES ASSUME NEW q \in Primaries PROVE Quiet(q)
    BY <1>0, QuietIsForget
  <2>0. q \in CommandBuffers BY DEF CommandBuffers
  <2>1. CASE q \in C /\ drv[q] # "none"
    <3>1. drv[q] # "pending" /\ buffer_state'[q] = "kInitialReset"
      BY <1>3, <2>0, <2>1 DEF Reset
    <3>2. Stage(q)' = "unsubmitted" BY <3>1 DEF Stage
    <3>3. QED BY <3>1, <3>2, IdleStage DEF Quiet
  <2>2. CASE ~(q \in C /\ drv[q] # "none")
    <3>1. /\ has_buffer_marker' = has_buffer_marker
          /\ begin_marker_value' = begin_marker_value
          /\ buffer_state'[q] = buffer_state[q]
          /\ top'[q] = top[q] /\ bottom'[q] = bottom[q]
      BY <1>0, <1>3, <2>0, <2>2 DEF Reset, ClearMarkers, object
    <3>2. QED BY <3>1 DEF Quiet, Stage, end_marker_value
  <2>3. QED BY <2>1, <2>2
<1>4. ASSUME NEW p \in Primaries,
             \/ \E s \in Secondaries : ExecuteCommands(p, s)
             \/ \E ok \in BOOLEAN : Submit(p, ok)
             \/ GPUFetch(p) \/ GPURetire(p) \/ Finished(p)
      PROVE  Report!Next
  <2>1. ASSUME NEW q \in Primaries \ {p} PROVE Stage(q)' = Stage(q)
    <3>1. Kept(q) BY <1>0, <1>4, OthersKept
    <3>2. QED BY <3>1, KeptIsQuiet
  <2>2. Quiet(p) => Report!Next BY <1>0, <2>1, QuietIsForget DEF Quiet
  <2> DEFINE moves == \/ Stage(p) = "unsubmitted" /\ Stage(p)' = "notStarted"
                      \/ Stage(p) = "notStarted" /\ Stage(p)' = "incomplete"
                      \/ Stage(p) = "incomplete" /\ Stage(p)' = "completed"
  <2>3. moves => Report!Next BY <1>0, <2>1, MoveIsStep
  <2>4. drv[p] = "pending" /\ has_buffer_marker[p] => Stage(p) = ExactStage(p)
    BY StageIsExact DEF StagesAreExact
  <2>5. drv'[p] = "pending" /\ has_buffer_marker'[p] => Stage(p)' = ExactStage(p)'
    <3>1. IInv' => StagesAreExact' BY StageIsExact, PTL
    <3>2. QED BY <3>1 DEF StagesAreExact
  <2>6. /\ p \in CommandBuffers /\ front[p] \in Nat /\ back[p] \in Nat
        /\ Len(stream[p]) \in Nat /\ front \in [Primaries -> Nat]
        /\ back \in [Primaries -> Nat]
    BY <1>0, PrimaryTypes DEF TypeOK
  <2>7. ASSUME ~has_buffer_marker[p], has_buffer_marker' = has_buffer_marker
        PROVE  Quiet(p)
    BY <2>7 DEF Quiet, Stage
  <2>8. has_buffer_marker' = has_buffer_marker
    BY <1>4 DEF ExecuteCommands, Submit, GPUFetch, GPURetire, Finished, object
  <2>9. CASE \E s \in Secondaries : ExecuteCommands(p, s)
    <3>1. UNCHANGED <<has_buffer_marker, begin_marker_value, buffer_state, top, bottom>>
      BY <2>9 DEF ExecuteCommands, object, markers
    <3>2. QED BY <2>2, <3>1 DEF Quiet, Stage, end_marker_value
  <2>10. CASE Finished(p)
    <3>1. UNCHANGED <<has_buffer_marker, begin_marker_value, buffer_state, top, bottom>>
      BY <2>10 DEF Finished, object, markers
    <3>2. QED BY <2>2, <3>1 DEF Quiet, Stage, end_marker_value
  <2>11. ASSUME has_buffer_marker[p], NEW ok \in BOOLEAN, Submit(p, ok)
         PROVE  moves
    <3>1. ok BY <2>11 DEF Submit, NoSubmitFails
    <3>2. Stage(p) = "unsubmitted"
      <4>1. drv[p] = "executable" BY <2>11 DEF Submit
      <4>2. QED BY <4>1, IdleStage
    <3>3. drv'[p] = "pending" /\ front'[p] = 0
      BY <2>6, <2>11, <3>1 DEF Submit
    <3>4. Stage(p)' = "notStarted" BY <2>5, <2>8, <2>11, <3>3 DEF ExactStage
    <3>5. QED BY <3>2, <3>4
  <2>12. ASSUME has_buffer_marker[p], GPUFetch(p) PROVE moves \/ Quiet(p)
    <3>1. /\ drv[p] = "pending" /\ drv' = drv /\ stream' = stream /\ back' = back
          /\ front[p] < Len(stream[p]) /\ front'[p] = front[p] + 1
      BY <2>6, <2>12 DEF GPUFetch
    <3>2. back[p] <= front[p]
      BY <2>12, <3>1 DEF IInv, Faithful, Marked, Progress
    <3>3. Stage(p) = IF front[p] = 0 THEN "notStarted" ELSE "incomplete"
      BY <2>4, <2>6, <2>12, <3>1, <3>2 DEF ExactStage
    <3>4. Stage(p)' = "incomplete"
      BY <2>5, <2>6, <2>8, <2>12, <3>1, <3>2 DEF ExactStage
    <3>5. QED BY <3>3, <3>4 DEF Quiet
  <2>13. ASSUME has_buffer_marker[p], GPURetire(p) PROVE moves \/ Quiet(p)
    <3>1. /\ drv[p] = "pending" /\ drv' = drv /\ stream' = stream /\ front' = front
          /\ back[p] < front[p] /\ back'[p] = back[p] + 1
      BY <2>6, <2>13 DEF GPURetire
    <3>2. front[p] <= Len(stream[p])
      BY <2>13, <3>1 DEF IInv, Faithful, Marked, Progress
    <3>3. Stage(p) = "incomplete"
      BY <2>4, <2>6, <2>13, <3>1, <3>2 DEF ExactStage
    <3>4. Stage(p)' \in {"incomplete", "completed"}
      BY <2>5, <2>6, <2>8, <2>13, <3>1, <3>2 DEF ExactStage
    <3>5. QED BY <3>3, <3>4 DEF Quiet
  <2> HIDE DEF moves
  <2>14. QED
    BY <1>4, <2>2, <2>3, <2>7, <2>8, <2>9, <2>10, <2>11, <2>12, <2>13
<1>5. QED BY <1>1, <1>2, <1>3, <1>4 DEF Next

\* The reports of CommandBuffer implement SubmissionReport: each submission's
\* goes from not started over incomplete to completed and is forgotten only
\* then, and no call on another buffer moves it.
THEOREM ReportsRefine ==
  Spec /\ OneTimeAndShort /\ NoSubmitFails => ReportsMoveForward
<1>1. Init => Report!Init
  <2> SUFFICES ASSUME Init PROVE Report!Init
    OBVIOUS
  <2>1. ReportedStage = [p \in Primaries |-> Stage(p)]
    BY InitTyped, StageIsReported DEF StagesAreReported
  <2>2. \A p \in Primaries : Stage(p) = "unsubmitted"
    BY DEF Init, Stage, CommandBuffers
  <2>3. QED BY <2>1, <2>2 DEF Report!Init
<1>2. NoSubmitFails /\ [Next]_vars => NoSubmitFails'
  BY DEF NoSubmitFails, Failures, Next, vars
<1>3. IInv /\ IInv' /\ NoSubmitFails /\ [Next]_vars => [Report!Next]_ReportedStage
  BY StepRefines
<1>4. QED
  BY Invariant, <1>1, <1>2, <1>3, PTL DEF Spec, ReportsMoveForward, Report!Spec

-----------------------------------------------------------------------------
(* The operations of one buffer in a stream.  They are in the order of the *)
(* commands they belong to: of each the top marker, the command itself and *)
(* the bottom marker.                                                      *)

Of(t, c) == {i \in 1 .. Len(t) : t[i].cb = c}

\* The command of an operation of a buffer whose begin marker is first.
IdOf(op, first) == IF op.at = "run" THEN op.value ELSE op.value - first

Rank(op) == IF op.at = "top" THEN 0 ELSE IF op.at = "run" THEN 1 ELSE 2

Key(op, first) == 3 * IdOf(op, first) + Rank(op)

Sorted(t, c, first) ==
  \A i, j \in Of(t, c) : i < j => Key(t[i], first) < Key(t[j], first)

\* They belong to one of the n commands, or are the end marker.
Known(t, c, first, n) ==
  \A i \in Of(t, c) :
    /\ 1 <= IdOf(t[i], first) /\ IdOf(t[i], first) < LowRange
    /\ t[i] # Write("bottom", c, first + (LowRange - 1)) =>
         IdOf(t[i], first) <= n /\ IdOf(t[i], first) < LowRange - 1

\* A traced command comes after its top marker.
Preceded(t, c, first, traced) ==
  \A i \in Of(t, c) :
    t[i].at = "run" /\ t[i].value \in traced =>
      \E j \in 1 .. i : t[j] = Write("top", c, first + t[i].value)

Layout(t, c, first, n, traced) ==
  /\ Sorted(t, c, first)
  /\ Known(t, c, first, n)
  /\ Preceded(t, c, first, traced)

Foreign(t, c) == \A i \in 1 .. Len(t) : t[i].cb # c

\* The operations of a secondary lie between the two markers of the
\* vkCmdExecuteCommands.
Inside(t, s, p, value) ==
  \E j, k \in 1 .. Len(t) :
    /\ t[j] = Write("top", p, value)
    /\ t[k] = Write("bottom", p, value)
    /\ \A i \in Of(t, s) : j < i /\ i < k

LEMMA OpTyped ==
  ASSUME NEW op \in Op, NEW first \in Nat
  PROVE  IdOf(op, first) \in Int /\ Rank(op) \in 0 .. 2 /\ Key(op, first) \in Int
<1>1. op.value \in Nat BY DEF Op
<1>2. IdOf(op, first) \in Int BY <1>1 DEF IdOf
<1>3. Rank(op) \in 0 .. 2 BY DEF Rank
<1>4. QED BY <1>2, <1>3 DEF Key

\* Where an operation of a concatenation comes from.
LEMMA OfConcat ==
  ASSUME NEW t \in Seq(Op), NEW u \in Seq(Op)
  PROVE  /\ t \o u \in Seq(Op) /\ Len(t \o u) = Len(t) + Len(u)
         /\ Len(t) \in Nat /\ Len(u) \in Nat
         /\ \A i \in 1 .. Len(t) : i \in 1 .. Len(t \o u) /\ (t \o u)[i] = t[i]
         /\ \A i \in 1 .. Len(u) :
              Len(t) + i \in 1 .. Len(t \o u) /\ (t \o u)[Len(t) + i] = u[i]
         /\ \A i \in 1 .. Len(t \o u) :
              i \in 1 .. Len(t) \/ i - Len(t) \in 1 .. Len(u)
<1>1. Len(t) \in Nat /\ Len(u) \in Nat OBVIOUS
<1>2. t \o u \in Seq(Op) /\ Len(t \o u) = Len(t) + Len(u) BY ConcatProperties
<1>3. \A i \in 1 .. Len(t) + Len(u) :
        (t \o u)[i] = IF i <= Len(t) THEN t[i] ELSE u[i - Len(t)]
  BY ConcatProperties
<1>4. \A i \in 1 .. Len(t) : i \in 1 .. Len(t \o u) /\ (t \o u)[i] = t[i]
  BY <1>1, <1>2, <1>3
<1>5. ASSUME NEW i \in 1 .. Len(u)
      PROVE  Len(t) + i \in 1 .. Len(t \o u) /\ (t \o u)[Len(t) + i] = u[i]
  <2>1. Len(t) + i \in 1 .. Len(t) + Len(u) /\ ~(Len(t) + i <= Len(t)) BY <1>1
  <2>2. Len(t) + i - Len(t) = i BY <1>1
  <2>3. QED BY <1>2, <1>3, <2>1, <2>2
<1>6. \A i \in 1 .. Len(t \o u) : i \in 1 .. Len(t) \/ i - Len(t) \in 1 .. Len(u)
  BY <1>1, <1>2
<1>7. QED BY <1>1, <1>2, <1>4, <1>5, <1>6

LEMMA SortedConcat ==
  ASSUME NEW t \in Seq(Op), NEW u \in Seq(Op), NEW c, NEW first \in Nat,
         Sorted(t, c, first), Sorted(u, c, first),
         \A i \in Of(t, c), j \in Of(u, c) : Key(t[i], first) < Key(u[j], first)
  PROVE  Sorted(t \o u, c, first)
<1> DEFINE v == t \o u
<1>1. /\ Len(v) = Len(t) + Len(u) /\ Len(t) \in Nat /\ Len(u) \in Nat
      /\ \A i \in 1 .. Len(t) : v[i] = t[i]
      /\ \A i \in 1 .. Len(u) : v[Len(t) + i] = u[i]
      /\ \A i \in 1 .. Len(v) : i \in 1 .. Len(t) \/ i - Len(t) \in 1 .. Len(u)
  BY OfConcat
<1> HIDE DEF v
<1> SUFFICES ASSUME NEW i \in Of(v, c), NEW j \in Of(v, c), i < j
             PROVE  Key(v[i], first) < Key(v[j], first)
  BY DEF Sorted, v
<1>2. i \in 1 .. Len(v) /\ j \in 1 .. Len(v) /\ v[i].cb = c /\ v[j].cb = c
  BY DEF Of
<1>3. CASE j \in 1 .. Len(t)
  <2>1. i \in 1 .. Len(t) BY <1>1, <1>2, <1>3
  <2>2. i \in Of(t, c) /\ j \in Of(t, c) BY <1>1, <1>2, <1>3, <2>1 DEF Of
  <2>3. QED BY <1>1, <1>3, <2>1, <2>2 DEF Sorted
<1>4. CASE i - Len(t) \in 1 .. Len(u)
  <2> DEFINE k == i - Len(t)
             l == j - Len(t)
  <2>1. /\ l \in 1 .. Len(u) /\ k < l
        /\ i = Len(t) + k /\ j = Len(t) + l
    BY <1>1, <1>2, <1>4
  <2> HIDE DEF l, k
  <2>2. k \in 1 .. Len(u) BY <1>4 DEF k
  <2>3. v[i] = u[k] /\ v[j] = u[l] BY <1>1, <2>1, <2>2
  <2>4. k \in Of(u, c) /\ l \in Of(u, c) BY <1>2, <2>1, <2>2, <2>3 DEF Of
  <2>5. QED BY <2>1, <2>3, <2>4 DEF Sorted
<1>5. CASE i \in 1 .. Len(t) /\ j - Len(t) \in 1 .. Len(u)
  <2> DEFINE l == j - Len(t)
  <2>1. l \in 1 .. Len(u) /\ j = Len(t) + l BY <1>1, <1>2, <1>5
  <2> HIDE DEF l
  <2>2. v[i] = t[i] /\ v[j] = u[l] BY <1>1, <1>5, <2>1
  <2>3. i \in Of(t, c) /\ l \in Of(u, c) BY <1>2, <1>5, <2>1, <2>2 DEF Of
  <2>4. QED BY <2>2, <2>3
<1>6. QED BY <1>1, <1>2, <1>3, <1>4, <1>5

LEMMA KnownConcat ==
  ASSUME NEW t \in Seq(Op), NEW u \in Seq(Op), NEW c, NEW first, NEW n,
         Known(t, c, first, n), Known(u, c, first, n)
  PROVE  Known(t \o u, c, first, n)
<1> DEFINE v == t \o u
           Good(op) ==
             /\ 1 <= IdOf(op, first) /\ IdOf(op, first) < LowRange
             /\ op # Write("bottom", c, first + (LowRange - 1)) =>
                  IdOf(op, first) <= n /\ IdOf(op, first) < LowRange - 1
<1>1. /\ Len(t) \in Nat
      /\ \A i \in 1 .. Len(t) : v[i] = t[i]
      /\ \A i \in 1 .. Len(u) : v[Len(t) + i] = u[i]
      /\ \A i \in 1 .. Len(v) : i \in 1 .. Len(t) \/ i - Len(t) \in 1 .. Len(u)
  BY OfConcat
<1>2. /\ \A i \in Of(t, c) : Good(t[i])
      /\ \A i \in Of(u, c) : Good(u[i])
  BY DEF Known
<1> HIDE DEF v, Good
<1>3. ASSUME NEW i \in Of(v, c) PROVE Good(v[i])
  <2>1. i \in 1 .. Len(v) /\ v[i].cb = c BY DEF Of
  <2>2. CASE i \in 1 .. Len(t)
    <3>1. i \in Of(t, c) BY <1>1, <2>1, <2>2 DEF Of
    <3>2. QED BY <1>1, <1>2, <2>2, <3>1
  <2>3. CASE i - Len(t) \in 1 .. Len(u)
    <3>0. PICK k \in 1 .. Len(u) : k = i - Len(t) BY <2>3
    <3>1. i = Len(t) + k BY <1>1, <2>1, <3>0
    <3>2. v[i] = u[k] BY <1>1, <3>1
    <3>3. k \in Of(u, c) BY <2>1, <3>2 DEF Of
    <3>4. QED BY <1>2, <3>2, <3>3
  <2>4. QED BY <1>1, <2>1, <2>2, <2>3
<1>4. QED BY <1>3 DEF Known, Good, v

LEMMA PrecededConcat ==
  ASSUME NEW t \in Seq(Op), NEW u \in Seq(Op), NEW c, NEW first, NEW traced,
         Preceded(t, c, first, traced), Preceded(u, c, first, traced)
  PROVE  Preceded(t \o u, c, first, traced)
<1> DEFINE v == t \o u
<1>1. /\ Len(t) \in Nat
      /\ \A i \in 1 .. Len(t) : v[i] = t[i]
      /\ \A i \in 1 .. Len(u) : v[Len(t) + i] = u[i]
      /\ \A i \in 1 .. Len(v) : i \in 1 .. Len(t) \/ i - Len(t) \in 1 .. Len(u)
  BY OfConcat
<1> HIDE DEF v
<1> SUFFICES ASSUME NEW i \in Of(v, c), v[i].at = "run", v[i].value \in traced
             PROVE  \E j \in 1 .. i : v[j] = Write("top", c, first + v[i].value)
  BY DEF Preceded, v
<1>2. i \in 1 .. Len(v) /\ v[i].cb = c BY DEF Of
<1>3. CASE i \in 1 .. Len(t)
  <2>1. i \in Of(t, c) /\ v[i] = t[i] BY <1>1, <1>2, <1>3 DEF Of
  <2>2. PICK j \in 1 .. i : t[j] = Write("top", c, first + t[i].value)
    BY <2>1 DEF Preceded
  <2>3. j \in 1 .. Len(t) BY <1>1, <1>3
  <2>4. QED BY <1>1, <2>1, <2>2, <2>3
<1>4. CASE i - Len(t) \in 1 .. Len(u)
  <2>0. PICK k \in 1 .. Len(u) : k = i - Len(t) BY <1>4
  <2>1. i = Len(t) + k BY <1>1, <1>2, <2>0
  <2>2. v[i] = u[k] BY <1>1, <2>1
  <2>3. k \in Of(u, c) BY <1>2, <2>2 DEF Of
  <2>4. PICK j \in 1 .. k : u[j] = Write("top", c, first + u[k].value)
    BY <2>2, <2>3 DEF Preceded
  <2>5. j \in 1 .. Len(u) /\ Len(t) + j \in 1 .. i BY <1>1, <2>1
  <2>6. QED BY <1>1, <2>2, <2>4, <2>5
<1>5. QED BY <1>1, <1>2, <1>3, <1>4

LEMMA LayoutConcat ==
  ASSUME NEW t \in Seq(Op), NEW u \in Seq(Op), NEW c, NEW first \in Nat, NEW n,
         NEW traced, Layout(t, c, first, n, traced), Layout(u, c, first, n, traced),
         \A i \in Of(t, c), j \in Of(u, c) : Key(t[i], first) < Key(u[j], first)
  PROVE  Layout(t \o u, c, first, n, traced)
BY SortedConcat, KnownConcat, PrecededConcat DEF Layout

LEMMA ForeignLayout ==
  ASSUME NEW t \in Seq(Op), NEW c, Foreign(t, c), NEW first, NEW n, NEW traced
  PROVE  Of(t, c) = {} /\ Layout(t, c, first, n, traced)
<1>1. Of(t, c) = {} BY DEF Foreign, Of
<1>2. QED BY <1>1 DEF Layout, Sorted, Known, Preceded

\* Operations of others change nothing, before or after.
LEMMA LayoutBeside ==
  ASSUME NEW t \in Seq(Op), NEW u \in Seq(Op), NEW c, NEW first \in Nat, NEW n,
         NEW traced,
         \/ Layout(t, c, first, n, traced) /\ Foreign(u, c)
         \/ Foreign(t, c) /\ Layout(u, c, first, n, traced)
  PROVE  Layout(t \o u, c, first, n, traced)
<1>1. CASE Foreign(u, c) /\ Layout(t, c, first, n, traced)
  BY <1>1, ForeignLayout, LayoutConcat
<1>2. CASE Foreign(t, c) /\ Layout(u, c, first, n, traced)
  BY <1>2, ForeignLayout, LayoutConcat
<1>3. QED BY <1>1, <1>2

\* Nor do they at the end of a primary.
LEMMA StaysInside ==
  ASSUME NEW t \in Seq(Op), NEW r \in Seq(Op), NEW s, Foreign(r, s),
         NEW p, NEW value, Inside(t, s, p, value)
  PROVE  Inside(t \o r, s, p, value)
<1>1. /\ Len(t) \in Nat
      /\ \A i \in 1 .. Len(t) : i \in 1 .. Len(t \o r) /\ (t \o r)[i] = t[i]
      /\ \A i \in 1 .. Len(r) : (t \o r)[Len(t) + i] = r[i]
      /\ \A i \in 1 .. Len(t \o r) : i \in 1 .. Len(t) \/ i - Len(t) \in 1 .. Len(r)
  BY OfConcat
<1>2. PICK j, k \in 1 .. Len(t) :
        /\ t[j] = Write("top", p, value)
        /\ t[k] = Write("bottom", p, value)
        /\ \A i \in Of(t, s) : j < i /\ i < k
  BY DEF Inside
<1>3. ASSUME NEW i \in Of(t \o r, s) PROVE i \in Of(t, s)
  <2>1. i \in 1 .. Len(t \o r) /\ (t \o r)[i].cb = s BY DEF Of
  <2>2. CASE i \in 1 .. Len(t) BY <1>1, <2>1, <2>2 DEF Of
  <2>3. CASE i - Len(t) \in 1 .. Len(r)
    <3>1. PICK l \in 1 .. Len(r) : l = i - Len(t) BY <2>3
    <3>2. i = Len(t) + l BY <1>1, <2>1, <3>1
    <3>3. QED BY <1>1, <2>1, <3>2 DEF Foreign
  <2>4. QED BY <1>1, <2>1, <2>2, <2>3
<1>4. QED BY <1>1, <1>2, <1>3 DEF Inside

\* One more command is tracked.
LEMMA LayoutGrows ==
  ASSUME NEW t \in Seq(Op), NEW c, NEW first \in Nat, NEW n \in Nat, NEW traced,
         NEW more, more \cap 1 .. n \subseteq traced, Layout(t, c, first, n, traced)
  PROVE  Layout(t, c, first, n + 1, more)
<1>1. ASSUME NEW i \in Of(t, c)
      PROVE  t[i] \in Op /\ t[i].value \in Nat /\ i \in 1 .. Len(t)
  <2>1. i \in 1 .. Len(t) BY DEF Of
  <2>2. t[i] \in Op BY <2>1, ElementOfSeq
  <2>3. QED BY <2>1, <2>2 DEF Op
<1>2. Sorted(t, c, first) BY DEF Layout
<1>3. Known(t, c, first, n + 1)
  <2>1. Known(t, c, first, n) BY DEF Layout
  <2>2. \A i \in Of(t, c) : IdOf(t[i], first) \in Int BY <1>1, OpTyped
  <2>3. QED BY <2>1, <2>2 DEF Known
<1>4. Preceded(t, c, first, more)
  <2>1. Known(t, c, first, n) /\ Preceded(t, c, first, traced) BY DEF Layout
  <2> SUFFICES ASSUME NEW i \in Of(t, c), t[i].at = "run", t[i].value \in more
               PROVE  \E j \in 1 .. i : t[j] = Write("top", c, first + t[i].value)
    BY DEF Preceded
  <2>2. t[i] # Write("bottom", c, first + (LowRange - 1)) BY DEF Write
  <2>3. IdOf(t[i], first) = t[i].value BY DEF IdOf
  <2>4. 1 <= t[i].value /\ t[i].value <= n BY <2>1, <2>2, <2>3 DEF Known
  <2>5. t[i].value \in traced BY <1>1, <2>4
  <2>6. QED BY <2>1, <2>5 DEF Preceded
<1>5. QED BY <1>2, <1>3, <1>4 DEF Layout

-----------------------------------------------------------------------------
(* The invariant about single commands.                                    *)

\* A recording that was not invalidated.
Valid(c) == drv[c] \in {"recording", "executable", "pending"}

\* The commands whose top marker is written.
Traced(c) ==
  IF has_buffer_marker[c]
    THEN {id \in 1 .. Len(commands[c]) : Instrumented(commands[c][id].type)}
    ELSE {}

Laid(t, c) == Layout(t, c, begin_marker_value[c], Len(commands[c]), Traced(c))

Numbered(c) == \A k \in 1 .. Len(commands[c]) : commands[c][k].id = k

\* A secondary executes no other buffer.
Alone(c) == c \in Secondaries => \A i \in 1 .. Len(stream[c]) : stream[c][i].cb = c

\* The end marker of a recording is yet to come.
Unfinished(c) ==
  /\ Len(commands[c]) < LowRange - 1
  /\ \A i \in Of(stream[c], c) :
       IdOf(stream[c][i], begin_marker_value[c]) <= Len(commands[c])

Own(c) ==
  /\ drv[c] # "none" => c \in DOMAIN MaxCommands
  /\ Numbered(c) /\ Alone(c)
  /\ Valid(c) => Laid(stream[c], c)
  /\ drv[c] = "recording" => Unfinished(c)
  /\ Valid(c) /\ has_buffer_marker[c] =>
       2 <= Len(stream[c]) /\ stream[c][2] = Write("bottom", c, begin_marker_value[c] + 1)
  /\ drv[c] \in {"recording", "executable"} /\ has_buffer_marker[c] => Clear(c)

\* A secondary is executed by one command of the primary.
Enclosed(p, s) ==
  has_buffer_marker[p] =>
    \A e \in 1 .. Len(commands[p]) :
      s \in commands[p][e].pCommandBuffers =>
        Inside(stream[p], s, p, begin_marker_value[p] + e)

\* The secondaries of a primary are as they were when it recorded them.
Executes(p) ==
  Valid(p) =>
    /\ \A s \in ExecutedBy(p) :
         /\ drv[s] = IF drv[p] = "pending" THEN "pending" ELSE "executable"
         /\ Laid(stream[p], s) /\ Enclosed(p, s)
    /\ \A i \in 1 .. Len(stream[p]) : stream[p][i].cb \in {p} \cup ExecutedBy(p)
    /\ \A e \in 1 .. Len(commands[p]) :
         commands[p][e].pCommandBuffers # {} => commands[p][e].type = "execute"

\* No secondary is in two primaries that could be submitted.
Apart ==
  \A p, q \in Primaries :
    p # q /\ Valid(p) /\ Valid(q) => ExecutedBy(p) \cap ExecutedBy(q) = {}

\* A word holds the last value that one of the first n operations wrote to it.
Latest(w, at, t, n, c) ==
  /\ \A i \in Of(t, c) : i <= n /\ t[i].at = at => t[i].value <= w
  /\ w = 0 \/ \E i \in Of(t, c) : i <= n /\ t[i] = Write(at, c, w)

WordsOf(p, c) ==
  has_buffer_marker[c] => /\ Latest(top[c], "top", stream[p], front[p], c)
                          /\ Latest(bottom[c], "bottom", stream[p], back[p], c)

Words(p) ==
  drv[p] = "pending" =>
    /\ back[p] <= front[p] /\ front[p] <= Len(stream[p])
    /\ \A c \in {p} \cup ExecutedBy(p) : WordsOf(p, c)

\* A submission that the layer holds for submitted is in flight or done.
Done(p) ==
  /\ drv[p] = "pending" => buffer_state[p] = "kPending"
  /\ NoSubmitFails /\ buffer_state[p] = "kPending" =>
       /\ drv[p] \in {"pending", "invalid"}
       /\ drv[p] = "invalid" => back[p] = Len(stream[p])

Details ==
  /\ Apart
  /\ \A c \in CommandBuffers : Own(c)
  /\ \A p \in Primaries : Executes(p) /\ Words(p) /\ Done(p)

Detailed == IInv /\ Details

-----------------------------------------------------------------------------
(* Steps on other buffers.                                                 *)

LEMMA BufferTypes ==
  ASSUME TypeInv, NEW c \in CommandBuffers
  PROVE  /\ TypeOK /\ StreamsFit
         /\ stream[c] \in Seq(Op) /\ Len(stream[c]) \in Nat
         /\ commands[c] \in Seq(Tracked) /\ Len(commands[c]) \in Nat
         /\ begin_marker_value[c] \in Nat
         /\ begin_marker_value[c] \in 0 .. Wrap - LowRange
         /\ has_buffer_marker[c] \in BOOLEAN
         /\ top[c] \in Nat /\ bottom[c] \in Nat
<1>1. TypeOK /\ StreamsFit BY DEF TypeInv, Typed
<1>2. stream[c] \in Seq(Op) BY <1>1 DEF TypeOK, Op
<1>3. commands[c] \in Seq(Tracked) BY <1>1 DEF TypeOK, Tracked
<1>4. begin_marker_value[c] \in 0 .. Wrap - LowRange /\ has_buffer_marker[c] \in BOOLEAN
  BY <1>1 DEF TypeOK
<1>5. Wrap \in Nat /\ LowRange \in Nat BY WordSize, RangeAssumption
<1>6. top[c] \in 0 .. Wrap - 1 /\ bottom[c] \in 0 .. Wrap - 1 BY <1>1 DEF TypeOK
<1>7. QED BY <1>1, <1>2, <1>3, <1>4, <1>5, <1>6

LEMMA ExecutedAreSecondaries ==
  ASSUME TypeOK, NEW p \in Primaries
  PROVE  /\ ExecutedBy(p) \subseteq Secondaries
         /\ p \notin ExecutedBy(p)
         /\ \A e \in 1 .. Len(commands[p]) :
              commands[p][e].pCommandBuffers \subseteq ExecutedBy(p)
         /\ \A s \in ExecutedBy(p) :
              \E e \in 1 .. Len(commands[p]) : s \in commands[p][e].pCommandBuffers
<1>1. commands[p] \in Seq(Tracked) BY DEF TypeOK, Tracked, CommandBuffers
<1>2. \A e \in 1 .. Len(commands[p]) : commands[p][e] \in Tracked
  BY <1>1, ElementOfSeq
<1>3. ExecutedBy(p) \subseteq Secondaries
  BY <1>2 DEF ExecutedBy, Elements, Tracked
<1>4. QED BY <1>3, LevelAssumption DEF ExecutedBy, Elements

SameRecording(c) ==
  /\ has_buffer_marker'[c] = has_buffer_marker[c]
  /\ begin_marker_value'[c] = begin_marker_value[c]
  /\ commands'[c] = commands[c]
  /\ stream'[c] = stream[c]

SameWords(c) == top'[c] = top[c] /\ bottom'[c] = bottom[c]

LEMMA SameLaid ==
  ASSUME NEW c, NEW t, SameRecording(c), UNCHANGED config
  PROVE  Traced(c)' = Traced(c) /\ (t' = t => Laid(t, c)' = Laid(t, c))
<1>1. Traced(c)' = Traced(c)
  BY DEF SameRecording, Traced, Instrumented, InstrumentAll
<1>2. QED BY <1>1 DEF Laid, SameRecording

LEMMA SameExecuted ==
  ASSUME NEW p, SameRecording(p)
  PROVE  ExecutedBy(p)' = ExecutedBy(p)
BY DEF SameRecording, ExecutedBy, Elements

LEMMA OwnKept ==
  ASSUME NEW c, Own(c), SameRecording(c), UNCHANGED config,
         drv'[c] # "none" => drv[c] # "none",
         Valid(c)' => Valid(c),
         drv'[c] = "recording" => drv[c] = "recording",
         drv'[c] \in {"recording", "executable"} =>
           drv[c] \in {"recording", "executable"} /\ SameWords(c)
  PROVE  Own(c)'
<1>1. stream'[c] = stream[c] BY DEF SameRecording
<1>2. Laid(stream[c], c)' = Laid(stream[c], c)
  <2>1. Traced(c)' = Traced(c)
    BY DEF SameRecording, Traced, Instrumented, InstrumentAll
  <2>2. QED BY <2>1 DEF Laid, SameRecording
<1>3. Numbered(c)' /\ Alone(c)' BY DEF Own, SameRecording, Numbered, Alone
<1>4. Unfinished(c) => Unfinished(c)' BY DEF SameRecording, Unfinished
<1>5. Clear(c) /\ SameWords(c) => Clear(c)' BY DEF Clear, SameWords
<1>6. QED BY <1>2, <1>3, <1>4, <1>5 DEF Own, SameRecording, MaxCommands

\* What a primary executes stays, if its secondaries stay.
LEMMA ExecutesKept ==
  ASSUME NEW p, Executes(p), SameRecording(p), UNCHANGED config,
         Valid(p)' =>
           /\ Valid(p)
           /\ \A s \in ExecutedBy(p) :
                /\ SameRecording(s)
                /\ drv'[s] = IF drv'[p] = "pending" THEN "pending" ELSE "executable"
  PROVE  Executes(p)'
<1> SUFFICES ASSUME Valid(p)' PROVE
      /\ \A s \in ExecutedBy(p)' :
           /\ drv'[s] = IF drv'[p] = "pending" THEN "pending" ELSE "executable"
           /\ Laid(stream[p], s)' /\ Enclosed(p, s)'
      /\ \A i \in 1 .. Len(stream'[p]) : stream'[p][i].cb \in {p} \cup ExecutedBy(p)'
      /\ \A e \in 1 .. Len(commands'[p]) :
           commands'[p][e].pCommandBuffers # {} => commands'[p][e].type = "execute"
  BY DEF Executes
<1>1. ExecutedBy(p)' = ExecutedBy(p) BY SameExecuted
<1>2. ASSUME NEW s \in ExecutedBy(p)
      PROVE  Laid(stream[p], s)' /\ Enclosed(p, s)'
  <2>1. Laid(stream[p], s) /\ Enclosed(p, s) BY DEF Executes
  <2>2. Enclosed(p, s)' BY <2>1 DEF Enclosed, SameRecording
  <2>3. SameRecording(s) OBVIOUS
  <2>4. Traced(s)' = Traced(s)
    BY <2>3 DEF SameRecording, Traced, Instrumented, InstrumentAll
  <2>5. Laid(stream[p], s)' = Laid(stream[p], s)
    BY <2>3, <2>4 DEF Laid, SameRecording
  <2>6. QED BY <2>1, <2>2, <2>5
<1>3. QED BY <1>1, <1>2 DEF Executes, SameRecording

LEMMA WordsKept ==
  ASSUME NEW p, Words(p), SameRecording(p),
         drv'[p] = "pending" =>
           /\ drv[p] = "pending" /\ front'[p] = front[p] /\ back'[p] = back[p]
           /\ \A c \in {p} \cup ExecutedBy(p) : SameRecording(c) /\ SameWords(c)
  PROVE  Words(p)'
<1>1. ExecutedBy(p)' = ExecutedBy(p) BY SameExecuted
<1>2. QED BY <1>1 DEF Words, WordsOf, SameRecording, SameWords

\* A step that changes what is recorded and written of some buffers only, and
\* invalidates the primaries that executed one of them.
Beside(C) ==
  /\ UNCHANGED config
  /\ \A b \in CommandBuffers \ C :
       /\ SameRecording(b) /\ SameWords(b) /\ buffer_state'[b] = buffer_state[b]
       /\ \/ drv'[b] = drv[b]
          \/ /\ b \in Primaries /\ drv[b] \in {"recording", "executable"}
             /\ drv'[b] = "invalid"
  /\ \A p \in Primaries \ C :
       /\ front'[p] = front[p] /\ back'[p] = back[p]
       /\ Valid(p)' => ExecutedBy(p) \cap C = {}

LEMMA BesideKeeps ==
  ASSUME Detailed, NEW C, Beside(C)
  PROVE  /\ \A c \in CommandBuffers \ C : Own(c)'
         /\ \A p \in Primaries \ C :
              Executes(p)' /\ Words(p)' /\ Done(p)'
<1>0. TypeOK BY DEF Detailed, Details, IInv, TypeInv, Typed
<1>1. ASSUME NEW c \in CommandBuffers \ C PROVE Own(c)'
  <2>1. /\ Own(c) /\ SameRecording(c) /\ SameWords(c) /\ UNCHANGED config
        /\ \/ drv'[c] = drv[c]
           \/ drv[c] \in {"recording", "executable"} /\ drv'[c] = "invalid"
    BY DEF Detailed, Details, Beside
  <2>2. QED BY <2>1, OwnKept DEF Valid
<1>2. ASSUME NEW p \in Primaries \ C
      PROVE  Executes(p)' /\ Words(p)' /\ Done(p)'
  <2>1. /\ p \in CommandBuffers \ C
        /\ SameRecording(p) /\ SameWords(p) /\ UNCHANGED config
        /\ buffer_state'[p] = buffer_state[p]
        /\ front'[p] = front[p] /\ back'[p] = back[p]
        /\ \/ drv'[p] = drv[p]
           \/ drv[p] \in {"recording", "executable"} /\ drv'[p] = "invalid"
    BY DEF Beside, CommandBuffers
  <2>2. Executes(p) /\ Words(p) /\ Done(p) BY DEF Detailed, Details
  <2>3. Valid(p)' => drv'[p] = drv[p] /\ Valid(p) BY <2>1 DEF Valid
  <2>4. ASSUME Valid(p)', NEW s \in ExecutedBy(p)
        PROVE  SameRecording(s) /\ SameWords(s) /\ drv'[s] = drv[s]
    <3>1. s \in Secondaries /\ s \notin C
      BY <1>0, <2>4, ExecutedAreSecondaries DEF Beside
    <3>2. s \in CommandBuffers \ C /\ s \notin Primaries
      BY <3>1, LevelAssumption DEF CommandBuffers
    <3>3. QED BY <3>2 DEF Beside
  <2>5. Executes(p)'
    <3>1. ASSUME Valid(p)', NEW s \in ExecutedBy(p)
          PROVE  drv'[s] = IF drv'[p] = "pending" THEN "pending" ELSE "executable"
      BY <2>2, <2>3, <2>4, <3>1 DEF Executes
    <3>2. QED BY <2>1, <2>2, <2>3, <2>4, <3>1, ExecutesKept
  <2>6. Words(p)'
    <3>1. drv'[p] = "pending" => Valid(p)' BY DEF Valid
    <3>2. QED BY <2>1, <2>2, <2>3, <2>4, <3>1, WordsKept
  <2>7. Done(p)'
    <3>1. stream'[p] = stream[p] BY <2>1 DEF SameRecording
    <3>2. CASE drv'[p] = drv[p]
      BY <2>1, <2>2, <3>1, <3>2 DEF Done, NoSubmitFails, Failures
    <3>3. CASE drv[p] \in {"recording", "executable"}
      BY <2>1, <2>2, <3>1, <3>3 DEF Done, NoSubmitFails, Failures
    <3>4. QED BY <2>1, <3>2, <3>3
  <2>8. QED BY <2>2, <2>5, <2>6, <2>7
<1>3. QED BY <1>1, <1>2

\* Secondaries stay apart if no valid primary gets one that another has.
LEMMA ApartKept ==
  ASSUME Detailed, NEW C, Beside(C),
         \A p \in Primaries \cap C : Valid(p)' =>
           \A q \in Primaries : q # p /\ Valid(q)' =>
             ExecutedBy(p)' \cap ExecutedBy(q)' = {}
  PROVE  Apart'
<1>1. ASSUME NEW p \in Primaries \ C, Valid(p)'
      PROVE  Valid(p) /\ ExecutedBy(p)' = ExecutedBy(p)
  <2>1. SameRecording(p) /\ (drv'[p] = drv[p] \/ drv'[p] = "invalid")
    BY DEF Beside, CommandBuffers
  <2>2. QED BY <1>1, <2>1, SameExecuted DEF Valid
<1> SUFFICES ASSUME NEW p \in Primaries, NEW q \in Primaries, p # q, Valid(p)', Valid(q)'
             PROVE  ExecutedBy(p)' \cap ExecutedBy(q)' = {}
  BY DEF Apart
<1>2. CASE p \notin C /\ q \notin C BY <1>1, <1>2 DEF Detailed, Details, Apart
<1>3. CASE p \in C \/ q \in C BY <1>3
<1>4. QED BY <1>2, <1>3

-----------------------------------------------------------------------------
(* What a call adds to a stream.                                           *)

\* The operations of a command that is not traced: itself, and what it runs.
LEMMA PlainPiece ==
  ASSUME NEW c, NEW first \in Nat, NEW id \in 1 .. LowRange - 2, NEW traced,
         id \notin traced, NEW body \in Seq(Op), 1 <= Len(body),
         body[1] = Write("run", c, id),
         \A i \in 2 .. Len(body) : body[i].cb # c
  PROVE  /\ Layout(body, c, first, id, traced)
         /\ \A i \in Of(body, c) : IdOf(body[i], first) = id
<1>1. Len(body) \in Nat /\ LowRange \in Nat BY RangeAssumption
<1>2. \A i \in Of(body, c) : i = 1 /\ body[i] = Write("run", c, id)
  BY <1>1 DEF Of
<1>3. \A i \in Of(body, c) :
        IdOf(body[i], first) = id /\ body[i].at = "run" /\ body[i].value = id
  BY <1>2 DEF IdOf, Write
<1>4. Sorted(body, c, first) BY <1>2 DEF Sorted
<1>5. Known(body, c, first, id) BY <1>1, <1>3 DEF Known
<1>6. Preceded(body, c, first, traced) BY <1>3 DEF Preceded
<1>7. QED BY <1>3, <1>4, <1>5, <1>6 DEF Layout

\* The operations of an instrumented one, between its two markers.
MarkedRun(c, first, id, body) ==
  <<Write("top", c, first + id)>> \o body \o <<Write("bottom", c, first + id)>>

\* What such operations are like.
Marks(r, c, first, id, body) ==
  /\ r \in Seq(Op) /\ Len(r) = Len(body) + 2
  /\ r[1] = Write("top", c, first + id)
  /\ r[Len(r)] = Write("bottom", c, first + id)
  /\ \A i \in 1 .. Len(body) : r[i + 1] = body[i]
  /\ \A traced : Layout(r, c, first, id, traced)
  /\ \A i \in Of(r, c) : IdOf(r[i], first) = id

LEMMA MarkedPiece ==
  ASSUME NEW c \in CommandBuffers, NEW first \in Nat, NEW id \in 1 .. LowRange - 2,
         NEW body \in Seq(Op),
         1 <= Len(body) => body[1] = Write("run", c, id),
         \A i \in 2 .. Len(body) : body[i].cb # c
  PROVE  Marks(MarkedRun(c, first, id, body), c, first, id, body)
<1> DEFINE h == <<Write("top", c, first + id)>>
           u == h \o body
           f == <<Write("bottom", c, first + id)>>
           r == MarkedRun(c, first, id, body)
<1>0. r = u \o f BY DEF MarkedRun
<1> HIDE DEF r
<1>1. /\ h \in Seq(Op) /\ Len(h) = 1 /\ h[1] = Write("top", c, first + id)
      /\ f \in Seq(Op) /\ Len(f) = 1 /\ f[1] = Write("bottom", c, first + id)
  <2>1. Write("top", c, first + id) \in Op /\ Write("bottom", c, first + id) \in Op
    BY DEF Op, Write
  <2>2. QED BY <2>1
<1> HIDE DEF h, f
<1>2. /\ u \in Seq(Op) /\ Len(u) = 1 + Len(body) /\ Len(body) \in Nat
      /\ u[1] = Write("top", c, first + id)
      /\ \A i \in 1 .. Len(body) : u[1 + i] = body[i]
  <2>1. /\ u \in Seq(Op) /\ Len(u) = 1 + Len(body) /\ Len(body) \in Nat
        /\ \A i \in 1 .. 1 : u[i] = h[i]
        /\ \A i \in 1 .. Len(body) : u[1 + i] = body[i]
    <3>0. h \in Seq(Op) /\ body \in Seq(Op) BY <1>1
    <3>1. /\ h \o body \in Seq(Op) /\ Len(h \o body) = Len(h) + Len(body)
          /\ Len(body) \in Nat
          /\ \A i \in 1 .. Len(h) : (h \o body)[i] = h[i]
          /\ \A i \in 1 .. Len(body) : (h \o body)[Len(h) + i] = body[i]
      BY ONLY <3>0, OfConcat
    <3>2. QED BY <1>1, <3>1
  <2>2. 1 \in 1 .. 1 OBVIOUS
  <2>3. QED BY <1>1, <2>1, <2>2
<1> HIDE DEF u
<1>3. /\ r \in Seq(Op) /\ Len(r) = Len(body) + 2
      /\ \A i \in 1 .. Len(u) : r[i] = u[i]
      /\ r[Len(u) + 1] = Write("bottom", c, first + id)
  <2>1. /\ r \in Seq(Op) /\ Len(r) = Len(u) + 1
        /\ \A i \in 1 .. Len(u) : r[i] = u[i]
        /\ \A i \in 1 .. 1 : r[Len(u) + i] = f[i]
    <3>0. u \in Seq(Op) /\ f \in Seq(Op) BY <1>1, <1>2
    <3>1. /\ u \o f \in Seq(Op) /\ Len(u \o f) = Len(u) + Len(f)
          /\ \A i \in 1 .. Len(u) : (u \o f)[i] = u[i]
          /\ \A i \in 1 .. Len(f) : (u \o f)[Len(u) + i] = f[i]
      BY ONLY <3>0, OfConcat
    <3>2. QED BY <1>0, <1>1, <3>1
  <2>2. 1 \in 1 .. 1 OBVIOUS
  <2>3. QED BY <1>1, <1>2, <2>1, <2>2
<1>4. /\ r[1] = Write("top", c, first + id)
      /\ r[Len(r)] = Write("bottom", c, first + id)
      /\ \A i \in 1 .. Len(body) : r[i + 1] = body[i]
  <2>1. 1 \in 1 .. Len(u) /\ Len(r) = Len(u) + 1 BY <1>2, <1>3
  <2>2. ASSUME NEW i \in 1 .. Len(body) PROVE r[i + 1] = body[i]
    <3>1. i + 1 \in 1 .. Len(u) /\ i + 1 = 1 + i BY <1>2
    <3>2. QED BY <1>2, <1>3, <3>1
  <2>3. QED BY <1>2, <1>3, <2>1, <2>2
<1>5. LowRange \in Nat BY RangeAssumption
<1>6. ASSUME NEW i \in Of(r, c)
      PROVE  \/ i = 1 /\ r[i] = Write("top", c, first + id)
             \/ i = 2 /\ 1 <= Len(body) /\ r[i] = Write("run", c, id)
             \/ i = Len(r) /\ r[i] = Write("bottom", c, first + id)
  <2>1. i \in 1 .. Len(r) /\ r[i].cb = c BY DEF Of
  <2>2. CASE i = 1 \/ i = Len(r) BY <1>4, <2>2
  <2>3. CASE i # 1 /\ i # Len(r)
    <3>1. i - 1 \in 1 .. Len(body) /\ i = (i - 1) + 1 BY <1>2, <1>3, <2>1, <2>3
    <3>2. r[i] = body[i - 1] BY <1>4, <3>1
    <3>3. ~(i - 1 \in 2 .. Len(body)) BY <2>1, <3>2
    <3>4. i - 1 = 1 /\ 1 <= Len(body) BY <1>2, <3>1, <3>3
    <3>5. i = 2 BY <2>1, <3>4
    <3>6. QED BY <3>2, <3>4, <3>5
  <2>4. QED BY <2>2, <2>3
<1>7. ASSUME NEW i \in Of(r, c)
      PROVE  /\ IdOf(r[i], first) = id
             /\ Key(r[i], first) = 3 * id + (IF i = 1 THEN 0 ELSE IF i = Len(r) THEN 2 ELSE 1)
  <2>1. CASE i = 1 /\ r[i] = Write("top", c, first + id)
    BY <2>1 DEF IdOf, Key, Rank, Write
  <2>2. CASE i = 2 /\ 1 <= Len(body) /\ r[i] = Write("run", c, id)
    <3>1. i # 1 /\ i # Len(r) BY <1>2, <1>3, <2>2
    <3>2. QED BY <2>2, <3>1 DEF IdOf, Key, Rank, Write
  <2>3. CASE i = Len(r) /\ r[i] = Write("bottom", c, first + id)
    <3>1. i # 1 BY <1>2, <1>3, <2>3
    <3>2. QED BY <2>3, <3>1 DEF IdOf, Key, Rank, Write
  <2>4. QED BY <1>6, <2>1, <2>2, <2>3
<1>8. Sorted(r, c, first)
  <2> SUFFICES ASSUME NEW i \in Of(r, c), NEW j \in Of(r, c), i < j
               PROVE  Key(r[i], first) < Key(r[j], first)
    BY DEF Sorted
  <2>1. i \in {1, 2, Len(r)} /\ j \in {1, 2, Len(r)} BY <1>6
  <2>2. i \in 1 .. Len(r) /\ j \in 1 .. Len(r) /\ Len(r) \in Nat
    BY <1>2, <1>3 DEF Of
  <2>3. Key(r[i], first) = 3 * id + (IF i = 1 THEN 0 ELSE IF i = Len(r) THEN 2 ELSE 1)
    BY <1>7
  <2>4. Key(r[j], first) = 3 * id + (IF j = 1 THEN 0 ELSE IF j = Len(r) THEN 2 ELSE 1)
    BY <1>7
  <2>5. QED BY <2>1, <2>2, <2>3, <2>4
<1>9. Known(r, c, first, id)
  <2>1. \A i \in Of(r, c) : IdOf(r[i], first) = id BY <1>7
  <2>2. 1 <= id /\ id < LowRange /\ id <= id /\ id < LowRange - 1 BY <1>5
  <2>3. QED BY <2>1, <2>2 DEF Known
<1>10. ASSUME NEW traced PROVE Preceded(r, c, first, traced)
  <2> SUFFICES ASSUME NEW i \in Of(r, c), r[i].at = "run"
               PROVE  \E j \in 1 .. i : r[j] = Write("top", c, first + r[i].value)
    BY DEF Preceded
  <2>1. r[i].value = id BY <1>6 DEF Write
  <2>2. 1 \in 1 .. i BY DEF Of
  <2>3. QED BY <1>4, <2>1, <2>2
<1>11. \A traced : Layout(r, c, first, id, traced)
  BY <1>8, <1>9, <1>10 DEF Layout
<1>12. \A i \in Of(r, c) : IdOf(r[i], first) = id BY <1>7
<1>13. Marks(r, c, first, id, body) BY ONLY <1>3, <1>4, <1>11, <1>12 DEF Marks
<1>14. QED BY ONLY <1>13 DEF r

LEMMA EndPiece ==
  ASSUME NEW c \in CommandBuffers, NEW first \in Nat, NEW n, NEW traced
  PROVE  LET r == <<Write("bottom", c, first + (LowRange - 1))>>
         IN  /\ r \in Seq(Op) /\ Len(r) = 1
             /\ Layout(r, c, first, n, traced)
             /\ \A i \in Of(r, c) : IdOf(r[i], first) = LowRange - 1
<1> DEFINE w == Write("bottom", c, first + (LowRange - 1))
           r == <<w>>
<1>1. LowRange \in Nat \ {0, 1} BY RangeAssumption
<1>2. w \in Op /\ w.at = "bottom" /\ IdOf(w, first) = LowRange - 1
  BY <1>1 DEF Write, Op, IdOf
<1> HIDE DEF w
<1>3. r \in Seq(Op) /\ Len(r) = 1 /\ r[1] = w BY <1>2
<1> HIDE DEF r
<1>4. \A i \in Of(r, c) : i = 1 /\ r[i] = w BY <1>3 DEF Of
<1>5. Sorted(r, c, first) BY <1>4 DEF Sorted
<1>6. Known(r, c, first, n) BY <1>1, <1>2, <1>4 DEF Known, w
<1>7. Preceded(r, c, first, traced) BY <1>2, <1>4 DEF Preceded
<1>8. QED BY <1>2, <1>3, <1>4, <1>5, <1>6, <1>7 DEF Layout, r, w

\* Later commands have larger keys.
LEMMA LaterKeys ==
  ASSUME NEW t \in Seq(Op), NEW u \in Seq(Op), NEW c, NEW first \in Nat, NEW n \in Nat,
         \A i \in Of(t, c) : IdOf(t[i], first) <= n,
         \A i \in Of(u, c) : IdOf(u[i], first) > n
  PROVE  \A i \in Of(t, c), j \in Of(u, c) : Key(t[i], first) < Key(u[j], first)
<1> SUFFICES ASSUME NEW i \in Of(t, c), NEW j \in Of(u, c)
             PROVE  Key(t[i], first) < Key(u[j], first)
  OBVIOUS
<1>1. t[i] \in Op /\ u[j] \in Op BY ElementOfSeq DEF Of
<1>2. /\ IdOf(t[i], first) \in Int /\ Rank(t[i]) \in 0 .. 2
      /\ IdOf(u[j], first) \in Int /\ Rank(u[j]) \in 0 .. 2
  BY <1>1, OpTyped
<1>3. IdOf(t[i], first) <= n /\ IdOf(u[j], first) > n OBVIOUS
<1>4. QED BY <1>2, <1>3 DEF Key

\* What PreX, the driver and PostX add for one command.
Piece(r, c, type, id, body, traced) ==
  /\ r \in Seq(Op)
  /\ Layout(r, c, begin_marker_value[c], id, traced)
  /\ \A i \in Of(r, c) : IdOf(r[i], begin_marker_value[c]) = id
  /\ \A i \in 1 .. Len(r) : r[i].cb = c \/ \E k \in 2 .. Len(body) : r[i] = body[k]
  /\ has_buffer_marker[c] /\ Instrumented(type) =>
       /\ Len(r) = Len(body) + 2
       /\ r[1] = Write("top", c, begin_marker_value[c] + id)
       /\ r[Len(r)] = Write("bottom", c, begin_marker_value[c] + id)
       /\ \A i \in 1 .. Len(body) : r[i + 1] = body[i]
  /\ ~(has_buffer_marker[c] /\ Instrumented(type)) => r = body

LEMMA RecordedPiece ==
  ASSUME TypeInv, NEW c \in CommandBuffers, NEW type, NEW id \in 1 .. LowRange - 2,
         NEW traced, id \in traced => has_buffer_marker[c] /\ Instrumented(type),
         NEW body \in Seq(Op), 1 <= Len(body), body[1] = Write("run", c, id),
         \A i \in 2 .. Len(body) : body[i].cb # c
  PROVE  Piece(Recorded(c, type, id, body), c, type, id, body, traced)
<1> DEFINE r == Recorded(c, type, id, body)
           first == begin_marker_value[c]
<1>0. TypeOK /\ first \in Nat /\ Len(body) \in Nat BY BufferTypes
<1>1. CASE has_buffer_marker[c] /\ Instrumented(type)
  <2>1. MarkerValue(c, id) = first + id BY <1>0, MarkerIsBetween
  <2>2. r = <<Write("top", c, first + id)>> \o body \o <<Write("bottom", c, first + id)>>
    BY <1>1, <2>1 DEF Recorded, WriteMarker
  <2> HIDE DEF r, first
  <2>3. /\ r \in Seq(Op) /\ Len(r) = Len(body) + 2
        /\ r[1] = Write("top", c, first + id)
        /\ r[Len(r)] = Write("bottom", c, first + id)
        /\ \A i \in 1 .. Len(body) : r[i + 1] = body[i]
        /\ Layout(r, c, first, id, traced)
        /\ \A i \in Of(r, c) : IdOf(r[i], first) = id
    <3>1. first \in Nat /\ r = MarkedRun(c, first, id, body)
      BY <1>0, <2>2 DEF MarkedRun
    <3>2. Marks(MarkedRun(c, first, id, body), c, first, id, body)
      BY <3>1, MarkedPiece
    <3>3. Marks(r, c, first, id, body) BY ONLY <3>1, <3>2
    <3>4. QED BY ONLY <3>3 DEF Marks
  <2>4. ASSUME NEW i \in 1 .. Len(r)
        PROVE  r[i].cb = c \/ \E k \in 2 .. Len(body) : r[i] = body[k]
    <3>1. CASE i = 1 \/ i = Len(r) BY <2>3, <3>1 DEF Write
    <3>2. CASE i # 1 /\ i # Len(r)
      <4>1. i - 1 \in 1 .. Len(body) /\ i = (i - 1) + 1 BY <1>0, <2>3, <3>2
      <4>2. r[i] = body[i - 1] BY <2>3, <4>1
      <4>3. CASE i - 1 = 1 BY <4>2, <4>3 DEF Write
      <4>4. CASE i - 1 # 1
        <5>1. i - 1 \in 2 .. Len(body) BY <1>0, <4>1, <4>4
        <5>2. QED BY <4>2, <5>1
      <4>5. QED BY <4>3, <4>4
    <3>3. QED BY <3>1, <3>2
  <2>5. QED BY <1>1, <2>3, <2>4 DEF Piece, r, first
<1>2. CASE ~(has_buffer_marker[c] /\ Instrumented(type))
  <2>1. r = body
    <3>1. CASE ~Instrumented(type) BY <3>1 DEF Recorded
    <3>2. CASE Instrumented(type)
      <4>1. r = <<>> \o body \o <<>> BY <1>2, <3>2 DEF Recorded, WriteMarker
      <4>2. QED BY <4>1, ConcatEmptySeq
    <3>3. QED BY <3>1, <3>2
  <2>2. id \notin traced BY <1>2
  <2> HIDE DEF r, first
  <2>3. Layout(r, c, first, id, traced) /\ \A i \in Of(r, c) : IdOf(r[i], first) = id
    BY <1>0, <2>1, <2>2, PlainPiece
  <2>4. \A i \in 1 .. Len(r) : r[i].cb = c \/ \E k \in 2 .. Len(body) : r[i] = body[k]
    BY <1>0, <2>1 DEF Write
  <2>5. QED BY <1>2, <2>1, <2>3, <2>4 DEF Piece, r, first
<1>3. QED BY <1>1, <1>2

\* Another command in the list of the tracker.
LEMMA TrackedOneMore ==
  ASSUME TypeInv, NEW c \in CommandBuffers, NEW type, NEW S, Track(c, type, S),
         UNCHANGED config, has_buffer_marker'[c] = has_buffer_marker[c]
  PROVE  LET n == Len(commands[c]) IN
         /\ commands'[c] = Append(commands[c], Command(n + 1, type, S))
         /\ Len(commands'[c]) = n + 1
         /\ \A k \in 1 .. n : commands'[c][k] = commands[c][k]
         /\ commands'[c][n + 1] = Command(n + 1, type, S)
         /\ Numbered(c) => Numbered(c)'
         /\ Traced(c)' \cap 1 .. n \subseteq Traced(c)
         /\ n + 1 \in Traced(c)' => has_buffer_marker[c] /\ Instrumented(type)
         /\ ExecutedBy(c)' = ExecutedBy(c) \cup S
<1> DEFINE n == Len(commands[c])
           cmd == Command(n + 1, type, S)
<1>1. commands[c] \in Seq(Tracked) /\ n \in Nat BY BufferTypes
<1>2. commands'[c] = Append(commands[c], cmd)
  <2>1. commands \in [CommandBuffers -> Seq(Tracked)]
    BY DEF TypeInv, Typed, TypeOK, Tracked
  <2>2. QED BY <2>1 DEF Track
<1> DEFINE m == commands'[c]
<1>3. /\ Len(m) = n + 1 /\ m[n + 1] = cmd
      /\ \A k \in 1 .. n : m[k] = commands[c][k]
  BY <1>1, <1>2
<1>4. cmd.id = n + 1 /\ cmd.type = type /\ cmd.pCommandBuffers = S
  BY DEF Command
<1> HIDE DEF cmd
<1>5. Numbered(c) => Numbered(c)'
  <2> SUFFICES ASSUME Numbered(c), NEW k \in 1 .. Len(m) PROVE m[k].id = k
    BY DEF Numbered
  <2>1. CASE k = n + 1 BY <1>3, <1>4, <2>1
  <2>2. CASE k # n + 1
    <3>1. k \in 1 .. n BY <1>1, <1>3, <2>2
    <3>2. QED BY <1>3, <3>1 DEF Numbered
  <2>3. QED BY <2>1, <2>2
<1>6. Traced(c)' = IF has_buffer_marker[c]
                     THEN {id \in 1 .. Len(m) : Instrumented(m[id].type)} ELSE {}
  BY DEF Traced, Instrumented, InstrumentAll
<1> HIDE DEF m, n
<1>7. Traced(c)' \cap 1 .. n \subseteq Traced(c)
  BY <1>3, <1>6 DEF Traced, n
<1>8. n + 1 \in Traced(c)' => has_buffer_marker[c] /\ Instrumented(type)
  BY <1>3, <1>4, <1>6
<1>9. ExecutedBy(c)' = ExecutedBy(c) \cup S
  <2>1. /\ ExecutedBy(c)' = UNION {x.pCommandBuffers : x \in {m[i] : i \in 1 .. Len(m)}}
        /\ ExecutedBy(c) =
             UNION {x.pCommandBuffers : x \in {commands[c][i] : i \in 1 .. n}}
    BY DEF ExecutedBy, Elements, m, n
  <2>2. 1 .. Len(m) = 1 .. n \cup {n + 1}
    <3>1. n \in Nat /\ Len(m) = n + 1 BY <1>1, <1>3
    <3>2. QED BY <3>1
  <2>3. {m[i] : i \in 1 .. Len(m)} = {commands[c][i] : i \in 1 .. n} \cup {cmd}
    BY <1>3, <2>2
  <2>4. QED BY <1>4, <2>1, <2>3
<1>10. QED BY <1>2, <1>3, <1>5, <1>7, <1>8, <1>9 DEF m, n, cmd

\* A command that a call adds to a recording, the operations body of the
\* driver's command among them.
Extends(c, type, S, body) ==
  LET id == Len(commands[c]) + 1 IN
  /\ UNCHANGED config
  /\ Recording(c) /\ drv'[c] = drv[c] /\ SameWords(c)
  /\ Track(c, type, S)
  /\ has_buffer_marker'[c] = has_buffer_marker[c]
  /\ begin_marker_value'[c] = begin_marker_value[c]
  /\ stream'[c] = stream[c] \o Recorded(c, type, id, body)
  /\ body \in Seq(Op) /\ 1 <= Len(body) /\ body[1] = Write("run", c, id)
  /\ \A i \in 2 .. Len(body) : body[i].cb # c /\ body[i].cb \in S
  /\ c \in Secondaries => S = {}

LEMMA IdFits ==
  ASSUME Detailed, NEW c \in CommandBuffers, Recording(c)
  PROVE  /\ Len(commands[c]) \in Nat /\ Len(commands[c]) + 1 \in 1 .. LowRange - 2
         /\ LowRange \in Nat
<1>1. TypeInv /\ OneTimeAndShort /\ Own(c) BY DEF Detailed, Details, IInv
<1>2. c \in DOMAIN MaxCommands /\ Len(commands[c]) <= MaxCommands[c]
  BY <1>1 DEF Recording, Own
<1>3. MaxCommands[c] \in Nat /\ MaxCommands[c] + 2 < LowRange
  BY <1>1, <1>2, ConfigAssumption DEF TypeInv, Typed, TypeOK, MaxCommands,
     OneTimeAndShort
<1>4. Len(commands[c]) \in Nat BY <1>1, BufferTypes
<1>5. QED BY <1>2, <1>3, <1>4, RangeAssumption

\* Two parts of a recording.
Parts(c, t, r, n) ==
  /\ t \in Seq(Op) /\ r \in Seq(Op) /\ stream'[c] = t \o r
  /\ \A i \in Of(t, c) : IdOf(t[i], begin_marker_value[c]) <= n
  /\ \A i \in Of(r, c) : IdOf(r[i], begin_marker_value[c]) = n + 1

LEMMA ExtendsOwn ==
  ASSUME Detailed, NEW c \in CommandBuffers, NEW type, NEW S, NEW body,
         Extends(c, type, S, body)
  PROVE  Own(c)'
<1>0. TypeInv /\ Own(c) BY DEF Detailed, Details, IInv
<1> DEFINE n == Len(commands[c])
           first == begin_marker_value[c]
           t == stream[c]
           r == Recorded(c, type, n + 1, body)
<1>1. PICK more : more = Traced(c)' OBVIOUS
<1>2. n \in Nat /\ n + 1 \in 1 .. LowRange - 2 /\ LowRange \in Nat
  BY IdFits DEF Extends
<1>3. first \in Nat /\ t \in Seq(Op) /\ Len(t) \in Nat BY <1>0, BufferTypes
<1>4. /\ Len(commands'[c]) = n + 1
      /\ Numbered(c)'
      /\ more \cap 1 .. n \subseteq Traced(c)
      /\ n + 1 \in more => has_buffer_marker[c] /\ Instrumented(type)
  BY <1>0, <1>1, TrackedOneMore DEF Extends, Own
<1>5. Piece(r, c, type, n + 1, body, more)
  BY <1>0, <1>2, <1>4, RecordedPiece DEF Extends
<1>6. /\ r \in Seq(Op)
      /\ Layout(r, c, first, n + 1, more)
      /\ \A i \in Of(r, c) : IdOf(r[i], first) = n + 1
      /\ \A i \in 1 .. Len(r) : r[i].cb = c \/ \E k \in 2 .. Len(body) : r[i] = body[k]
  BY <1>5 DEF Piece
<1>7. drv[c] = "recording" BY DEF Extends, Recording
<1>8. /\ Layout(t, c, first, n, Traced(c))
      /\ \A i \in Of(t, c) : IdOf(t[i], first) <= n
  BY <1>0, <1>7 DEF Own, Valid, Laid, Unfinished
<1>9. /\ stream'[c] = t \o r /\ begin_marker_value'[c] = first
      /\ has_buffer_marker'[c] = has_buffer_marker[c]
  BY DEF Extends
<1> HIDE DEF r, first
<1>10. /\ t \o r \in Seq(Op) /\ Len(t \o r) = Len(t) + Len(r)
       /\ Len(r) \in Nat
       /\ \A i \in 1 .. Len(t) : (t \o r)[i] = t[i]
       /\ \A i \in 1 .. Len(r) : (t \o r)[Len(t) + i] = r[i]
       /\ \A i \in 1 .. Len(t \o r) : i \in 1 .. Len(t) \/ i - Len(t) \in 1 .. Len(r)
  BY ONLY <1>3, <1>6, OfConcat
<1>11. Laid(stream[c], c)'
  <2>1. Layout(t, c, first, n + 1, more) BY <1>2, <1>3, <1>4, <1>8, LayoutGrows
  <2>2. \A i \in Of(r, c) : IdOf(r[i], first) > n BY <1>2, <1>6
  <2>3. \A i \in Of(t, c), j \in Of(r, c) : Key(t[i], first) < Key(r[j], first)
    BY ONLY <1>2, <1>3, <1>6, <1>8, <2>2, LaterKeys
  <2>4. Layout(t \o r, c, first, n + 1, more)
    BY ONLY <1>3, <1>6, <2>1, <2>3, LayoutConcat
  <2>5. QED BY <1>1, <1>4, <1>9, <2>4 DEF Laid
<1>12. Alone(c)'
  <2> SUFFICES ASSUME c \in Secondaries, NEW i \in 1 .. Len(t \o r)
               PROVE  (t \o r)[i].cb = c
    BY <1>9 DEF Alone
  <2>1. CASE i \in 1 .. Len(t) BY <1>0, <1>10, <2>1 DEF Own, Alone
  <2>2. CASE i - Len(t) \in 1 .. Len(r)
    <3>1. PICK k \in 1 .. Len(r) : k = i - Len(t) BY <2>2
    <3>2. i = Len(t) + k BY <1>3, <1>10, <3>1
    <3>3. (t \o r)[i] = r[k] BY <1>10, <3>2
    <3>4. ~\E l \in 2 .. Len(body) : r[k] = body[l] BY DEF Extends
    <3>5. QED BY <1>6, <3>3, <3>4
  <2>3. QED BY <1>10, <2>1, <2>2
<1>13. Unfinished(c)'
  <2>1. n + 1 < LowRange - 1 BY <1>2
  <2>2. ASSUME NEW i \in Of(t \o r, c) PROVE IdOf((t \o r)[i], first) <= n + 1
    <3>0. i \in 1 .. Len(t \o r) /\ (t \o r)[i].cb = c BY DEF Of
    <3>1. CASE i \in 1 .. Len(t)
      <4>1. i \in Of(t, c) /\ (t \o r)[i] = t[i] BY <1>10, <3>0, <3>1 DEF Of
      <4>2. t[i] \in Op BY <1>3, <3>1, ElementOfSeq
      <4>3. IdOf(t[i], first) \in Int BY <1>3, <4>2, OpTyped
      <4>4. QED BY <1>2, <1>8, <4>1, <4>3
    <3>2. CASE i - Len(t) \in 1 .. Len(r)
      <4>1. PICK k \in 1 .. Len(r) : k = i - Len(t) BY <3>2
      <4>2. i = Len(t) + k BY <1>3, <1>10, <3>0, <4>1
      <4>3. k \in Of(r, c) /\ (t \o r)[i] = r[k] BY <1>10, <3>0, <4>2 DEF Of
      <4>4. QED BY <1>2, <1>6, <4>3
    <3>3. QED BY <1>10, <3>0, <3>1, <3>2
  <2>3. QED BY <1>4, <1>9, <2>1, <2>2 DEF Unfinished
<1>14. has_buffer_marker[c] =>
         2 <= Len(t \o r) /\ (t \o r)[2] = Write("bottom", c, first + 1)
  <2>1. has_buffer_marker[c] => 2 <= Len(t) /\ t[2] = Write("bottom", c, first + 1)
    BY <1>0, <1>7 DEF Own, Valid, first
  <2>2. QED BY <1>3, <1>10, <2>1
<1>15. has_buffer_marker[c] => Clear(c)'
  BY <1>0, <1>7 DEF Own, Clear, SameWords, Extends
<1>16. drv'[c] = "recording" /\ c \in DOMAIN MaxCommands'
  BY <1>0, <1>7 DEF Own, Extends, MaxCommands
<1>17. QED BY <1>4, <1>9, <1>11, <1>12, <1>13, <1>14, <1>15, <1>16 DEF Own

\* Markers of one buffer are foreign to another.
LEMMA MarkersAreForeign ==
  ASSUME TypeOK, NEW p \in CommandBuffers, NEW s, s # p, NEW at \in {"top", "bottom"},
         NEW id \in Nat
  PROVE  LET w == WriteMarker(at, p, MarkerValue(p, id))
         IN  w \in Seq(Op) /\ Foreign(w, s)
<1> DEFINE v == MarkerValue(p, id)
<1>1. v \in Nat BY MarkersFit, WordSize
<1> HIDE DEF v
<1>2. Write(at, p, v) \in Op BY <1>1 DEF Write, Op
<1>3. CASE has_buffer_marker[p]
  <2>1. WriteMarker(at, p, v) = <<Write(at, p, v)>> BY <1>3 DEF WriteMarker
  <2>2. QED BY <1>2, <2>1 DEF Foreign, Write, v
<1>4. CASE ~has_buffer_marker[p]
  <2>1. WriteMarker(at, p, v) = <<>> BY <1>4 DEF WriteMarker
  <2>2. QED BY <2>1 DEF Foreign, v
<1>5. QED BY <1>3, <1>4

LEMMA RecordedBeside ==
  ASSUME TypeOK, NEW p \in CommandBuffers, NEW s, s # p, NEW type, NEW id \in Nat,
         NEW body \in Seq(Op), NEW first \in Nat, NEW n, NEW traced,
         Layout(body, s, first, n, traced)
  PROVE  Layout(Recorded(p, type, id, body), s, first, n, traced)
<1>1. CASE ~Instrumented(type) BY <1>1 DEF Recorded
<1>2. CASE Instrumented(type)
  <2> DEFINE h == WriteMarker("top", p, MarkerValue(p, id))
             f == WriteMarker("bottom", p, MarkerValue(p, id))
  <2>1. h \in Seq(Op) /\ Foreign(h, s) /\ f \in Seq(Op) /\ Foreign(f, s)
    BY MarkersAreForeign
  <2>2. Recorded(p, type, id, body) = h \o body \o f BY <1>2 DEF Recorded
  <2> HIDE DEF h, f
  <2>3. h \o body \in Seq(Op) BY <2>1, ConcatProperties
  <2>4. Layout(h \o body, s, first, n, traced) BY <2>1, LayoutBeside
  <2>5. Layout((h \o body) \o f, s, first, n, traced)
    BY <2>1, <2>3, <2>4, LayoutBeside
  <2>6. QED BY <2>2, <2>5
<1>3. QED BY <1>1, <1>2

LEMMA ExtendsExecutes ==
  ASSUME Detailed, NEW p \in Primaries, NEW type, NEW S \in SUBSET Secondaries, NEW body,
         Extends(p, type, S, body),
         S \cap ExecutedBy(p) = {},
         S # {} => type = "execute",
         \A s \in Secondaries : SameRecording(s) /\ drv'[s] = drv[s],
         \A s \in S : drv[s] = "executable" /\ Laid(body, s)
  PROVE  Executes(p)'
<1>0. TypeInv /\ TypeOK /\ Executes(p) /\ p \in CommandBuffers
  BY DEF Detailed, Details, IInv, TypeInv, Typed, CommandBuffers
<1> DEFINE n == Len(commands[p])
           first == begin_marker_value[p]
           t == stream[p]
           r == Recorded(p, type, n + 1, body)
<1>1. n \in Nat /\ n + 1 \in 1 .. LowRange - 2 /\ LowRange \in Nat
  BY <1>0, IdFits DEF Extends
<1>2. first \in Nat /\ t \in Seq(Op) /\ Len(t) \in Nat BY <1>0, BufferTypes
<1>3. /\ Len(commands'[p]) = n + 1
      /\ \A k \in 1 .. n : commands'[p][k] = commands[p][k]
      /\ commands'[p][n + 1] = Command(n + 1, type, S)
      /\ n + 1 \in Traced(p)' => has_buffer_marker[p] /\ Instrumented(type)
      /\ ExecutedBy(p)' = ExecutedBy(p) \cup S
  BY <1>0, TrackedOneMore DEF Extends
<1>4. Piece(r, p, type, n + 1, body, Traced(p)')
  BY <1>0, <1>1, <1>3, RecordedPiece DEF Extends
<1>5. /\ r \in Seq(Op) /\ Len(r) \in Nat
      /\ \A i \in 1 .. Len(r) : r[i].cb = p \/ \E k \in 2 .. Len(body) : r[i] = body[k]
  BY <1>4 DEF Piece
<1>6. /\ drv[p] = "recording" /\ Valid(p) /\ drv'[p] = "recording"
      /\ stream'[p] = t \o r /\ begin_marker_value'[p] = first
      /\ has_buffer_marker'[p] = has_buffer_marker[p]
      /\ body \in Seq(Op) /\ \A i \in 2 .. Len(body) : body[i].cb # p /\ body[i].cb \in S
  BY DEF Extends, Recording, Valid
<1>7. \A i \in 1 .. Len(r) : r[i].cb \in {p} \cup S BY <1>5, <1>6
<1>8. ExecutedBy(p) \subseteq Secondaries /\ p \notin Secondaries
  BY <1>0, ExecutedAreSecondaries, LevelAssumption
<1> HIDE DEF r, first
<1>9. /\ t \o r \in Seq(Op) /\ Len(t \o r) = Len(t) + Len(r)
      /\ \A i \in 1 .. Len(t) : i \in 1 .. Len(t \o r) /\ (t \o r)[i] = t[i]
      /\ \A i \in 1 .. Len(r) :
           Len(t) + i \in 1 .. Len(t \o r) /\ (t \o r)[Len(t) + i] = r[i]
      /\ \A i \in 1 .. Len(t \o r) : i \in 1 .. Len(t) \/ i - Len(t) \in 1 .. Len(r)
  BY ONLY <1>2, <1>5, OfConcat
<1>10. \A i \in 1 .. Len(t) : t[i].cb \in {p} \cup ExecutedBy(p)
  BY <1>0, <1>6 DEF Executes
<1>11. ASSUME NEW i \in 1 .. Len(t \o r)
       PROVE  (t \o r)[i].cb \in {p} \cup (ExecutedBy(p) \cup S)
  <2>1. CASE i \in 1 .. Len(t) BY <1>9, <1>10, <2>1
  <2>2. CASE i - Len(t) \in 1 .. Len(r)
    <3>1. PICK k \in 1 .. Len(r) : k = i - Len(t) BY <2>2
    <3>2. i = Len(t) + k BY <1>2, <1>9, <3>1
    <3>3. QED BY <1>7, <1>9, <3>2
  <2>3. QED BY <1>9, <2>1, <2>2
\* The secondaries that it executed before.
<1>12. ASSUME NEW x \in ExecutedBy(p)
       PROVE  drv'[x] = "executable" /\ Laid(stream[p], x)' /\ Enclosed(p, x)'
  <2>1. x \in Secondaries /\ x \notin S /\ x # p BY <1>8
  <2>2. drv[x] = "executable" /\ Laid(t, x) /\ Enclosed(p, x)
    BY <1>0, <1>6 DEF Executes
  <2>3. Foreign(r, x) BY <1>7, <2>1 DEF Foreign
  <2>4. Laid(t \o r, x)
    <3>1. begin_marker_value[x] \in Nat
      BY <1>0, <2>1, BufferTypes DEF CommandBuffers
    <3>2. QED BY <1>2, <1>5, <2>2, <2>3, <3>1, LayoutBeside DEF Laid
  <2>5. Laid(stream[p], x)'
    <3>1. SameRecording(x) /\ UNCHANGED config BY <2>1 DEF Extends
    <3>2. Traced(x)' = Traced(x) BY <3>1, SameLaid
    <3>3. QED BY <1>6, <2>4, <3>1, <3>2 DEF Laid, SameRecording
  <2>6. Enclosed(p, x)'
    <3> SUFFICES ASSUME has_buffer_marker[p], NEW e \in 1 .. n + 1,
                        x \in commands'[p][e].pCommandBuffers
                 PROVE  Inside(t \o r, x, p, first + e)
      BY <1>3, <1>6 DEF Enclosed
    <3>1. e # n + 1 BY <1>3, <2>1 DEF Command
    <3>2. e \in 1 .. n /\ x \in commands[p][e].pCommandBuffers
      BY <1>1, <1>3, <3>1
    <3>3. Inside(t, x, p, first + e) BY <2>2, <3>2 DEF Enclosed, first
    <3>4. QED BY ONLY <1>2, <1>5, <2>3, <3>3, StaysInside
  <2>7. drv'[x] = "executable" BY <2>1, <2>2
  <2>8. QED BY <2>5, <2>6, <2>7
\* The one that it executes now.
<1>13. ASSUME NEW s \in S
       PROVE  drv'[s] = "executable" /\ Laid(stream[p], s)' /\ Enclosed(p, s)'
  <2>1. s \in Secondaries /\ s \notin ExecutedBy(p) /\ s # p /\ type = "execute"
    BY <1>8
  <2>2. Foreign(t, s) BY <1>10, <2>1 DEF Foreign
  <2>3. Laid(t \o r, s)
    <3>1. begin_marker_value[s] \in Nat
      BY <1>0, <2>1, BufferTypes DEF CommandBuffers
    <3>2. Laid(body, s) OBVIOUS
    <3>3. Laid(r, s)
      BY <1>0, <1>1, <1>6, <2>1, <3>1, <3>2, RecordedBeside DEF Laid, r
    <3>4. QED BY <1>2, <1>5, <2>2, <3>1, <3>3, LayoutBeside DEF Laid
  <2>4. Laid(stream[p], s)'
    <3>1. SameRecording(s) /\ UNCHANGED config BY <2>1 DEF Extends
    <3>2. Traced(s)' = Traced(s) BY <3>1, SameLaid
    <3>3. QED BY <1>6, <2>3, <3>1, <3>2 DEF Laid, SameRecording
  <2>5. Enclosed(p, s)'
    <3> SUFFICES ASSUME has_buffer_marker[p], NEW e \in 1 .. n + 1,
                        s \in commands'[p][e].pCommandBuffers
                 PROVE  Inside(t \o r, s, p, first + e)
      BY <1>3, <1>6 DEF Enclosed
    <3>1. e = n + 1
      <4>1. \A l \in 1 .. n : s \notin commands[p][l].pCommandBuffers
        BY <1>0, <2>1, ExecutedAreSecondaries
      <4>2. QED BY <1>1, <1>3, <4>1
    <3>2. Instrumented(type) BY <2>1 DEF Instrumented
    <3>3. /\ Len(r) = Len(body) + 2 /\ Len(body) \in Nat
          /\ r[1] = Write("top", p, first + e)
          /\ r[Len(r)] = Write("bottom", p, first + e)
      BY <1>4, <1>6, <3>1, <3>2 DEF Piece, first
    <3> DEFINE j == Len(t) + 1
               k == Len(t) + Len(r)
    <3>4. 1 \in 1 .. Len(r) /\ Len(r) \in 1 .. Len(r) BY <3>3
    <3>5. /\ j \in 1 .. Len(t \o r) /\ k \in 1 .. Len(t \o r)
          /\ (t \o r)[j] = r[1] /\ (t \o r)[k] = r[Len(r)]
      BY <1>9, <3>4
    <3>6. ASSUME NEW i \in Of(t \o r, s) PROVE j < i /\ i < k
      <4>1. i \in 1 .. Len(t \o r) /\ (t \o r)[i].cb = s BY DEF Of
      <4>2. i \notin 1 .. Len(t) BY <1>9, <2>2, <4>1 DEF Foreign
      <4>3. r[1].cb = p /\ r[Len(r)].cb = p BY <3>3 DEF Write
      <4>4. i # j /\ i # k BY <2>1, <3>5, <4>1, <4>3
      <4>5. /\ Len(t) \in Nat /\ Len(r) \in Nat
            /\ i \in 1 .. Len(t) + Len(r) /\ i \notin 1 .. Len(t)
        BY <1>2, <1>5, <1>9, <4>1, <4>2
      <4>6. QED BY ONLY <4>4, <4>5
    <3> HIDE DEF j, k
    <3>7. QED BY <3>3, <3>5, <3>6 DEF Inside
  <2>6. drv'[s] = "executable" BY <2>1
  <2>7. QED BY <2>4, <2>5, <2>6
<1>14. ASSUME NEW e \in 1 .. n + 1, commands'[p][e].pCommandBuffers # {}
       PROVE  commands'[p][e].type = "execute"
  <2>1. CASE e = n + 1 BY <1>3, <1>14, <2>1 DEF Command
  <2>2. CASE e # n + 1
    <3>1. e \in 1 .. n BY <1>1, <2>2
    <3>2. QED BY <1>0, <1>3, <1>6, <1>14, <3>1 DEF Executes
  <2>3. QED BY <2>1, <2>2
<1>15. QED
  BY <1>3, <1>6, <1>11, <1>12, <1>13, <1>14 DEF Executes

LEMMA BufferDetails ==
  ASSUME Detailed
  PROVE  /\ TypeInv /\ TypeOK /\ StreamsFit /\ OneTimeAndShort /\ Apart
         /\ \A c \in CommandBuffers : Own(c)
         /\ \A p \in Primaries :
              p \in CommandBuffers /\ Executes(p) /\ Words(p) /\ Done(p)
BY DEF Detailed, Details, IInv, TypeInv, Typed, CommandBuffers

\* What a call leaves of a buffer that it drops.
Dropped(c) ==
  /\ drv'[c] \in {"none", "initial", "invalid"}
  /\ drv'[c] # "none" => c \in DOMAIN MaxCommands
  /\ UNCHANGED config
  /\ buffer_state'[c] # "kPending"
  /\ Numbered(c)' /\ Alone(c)'

LEMMA DroppedHasDetails ==
  ASSUME NEW c, Dropped(c)
  PROVE  Own(c)' /\ Executes(c)' /\ Words(c)' /\ Done(c)' /\ ~Valid(c)'
<1>1. ~Valid(c)' /\ drv'[c] # "recording" /\ drv'[c] # "pending" /\ drv'[c] # "executable"
  BY DEF Dropped, Valid
<1>2. Own(c)' BY <1>1 DEF Dropped, Own, MaxCommands
<1>3. Executes(c)' BY <1>1 DEF Executes
<1>4. Words(c)' BY <1>1 DEF Words
<1>5. Done(c)' BY <1>1 DEF Done, Dropped
<1>6. QED BY <1>1, <1>2, <1>3, <1>4, <1>5

LEMMA DroppedDetails ==
  ASSUME Detailed, NEW C, Beside(C), \A c \in C : Dropped(c)
  PROVE  Details'
<1>1. \A c \in C : Own(c)' /\ Executes(c)' /\ Words(c)' /\ Done(c)' /\ ~Valid(c)'
  BY DroppedHasDetails
<1>2. Apart' BY <1>1, ApartKept
<1>3. QED BY <1>1, <1>2, BesideKeeps DEF Details

\* No valid primary executes a buffer that is not executable or pending.
LEMMA ExecutedAreReady ==
  ASSUME Detailed, NEW p \in Primaries, Valid(p), NEW c \in ExecutedBy(p)
  PROVE  /\ c \in Secondaries /\ c \in CommandBuffers
         /\ drv[c] = IF drv[p] = "pending" THEN "pending" ELSE "executable"
BY BufferDetails, ExecutedAreSecondaries DEF Executes, CommandBuffers

\* DriverState leaves no valid primary with the buffer, if it is not pending.
LEMMA StateIsBeside ==
  ASSUME Detailed, NEW c \in CommandBuffers, NEW state, DriverState(c, state),
         drv[c] # "pending"
  PROVE  /\ drv'[c] = state
         /\ \A b \in CommandBuffers \ {c} :
              \/ drv'[b] = drv[b]
              \/ /\ b \in Primaries /\ drv[b] \in {"recording", "executable"}
                 /\ drv'[b] = "invalid"
         /\ \A p \in Primaries \ {c} : Valid(p)' => ExecutedBy(p) \cap {c} = {}
<1>1. \A b \in CommandBuffers :
        drv'[b] = IF b = c THEN state
                  ELSE IF /\ b \in Primaries /\ c \in ExecutedBy(b)
                          /\ drv[b] \in {"recording", "executable"}
                       THEN "invalid" ELSE drv[b]
  BY DEF DriverState
<1>2. ASSUME NEW p \in Primaries \ {c}, Valid(p)', c \in ExecutedBy(p) PROVE FALSE
  <2>1. p \in CommandBuffers BY BufferDetails
  <2>2. drv'[p] = drv[p] /\ drv[p] \notin {"recording", "executable"}
    BY <1>1, <1>2, <2>1 DEF Valid
  <2>3. drv[p] = "pending" BY <1>2, <2>2 DEF Valid
  <2>4. drv[c] = "pending" BY <1>2, <2>3, ExecutedAreReady DEF Valid
  <2>5. QED BY <2>4
<1>3. QED BY <1>1, <1>2

LEMMA AllocateDetails ==
  ASSUME Detailed, UNCHANGED config, NEW c \in CommandBuffers, Allocate(c)
  PROVE  Details'
<1>0. TypeOK /\ Own(c) BY BufferDetails
<1>1. drv[c] # "pending" /\ DriverState(c, "initial") BY DEF Allocate
<1>2. Beside({c})
  <2>1. ASSUME NEW b \in CommandBuffers \ {c}
        PROVE  SameRecording(b) /\ SameWords(b) /\ buffer_state'[b] = buffer_state[b]
    <3>1. /\ has_buffer_marker'[b] = has_buffer_marker[b]
          /\ begin_marker_value'[b] = begin_marker_value[b]
          /\ top'[b] = top[b] /\ bottom'[b] = bottom[b]
      BY <1>0 DEF Allocate, object, markers, TypeOK
    <3>2. buffer_state'[b] = buffer_state[b] /\ commands' = commands /\ stream' = stream
      BY <1>0 DEF Allocate, TypeOK
    <3>3. QED BY <3>1, <3>2 DEF SameRecording, SameWords
  <2>2. \A p \in Primaries : front'[p] = front[p] /\ back'[p] = back[p]
    BY DEF Allocate, gpu
  <2>3. QED BY <1>1, <2>1, <2>2, StateIsBeside DEF Beside
<1>3. Dropped(c)
  <2>1. drv'[c] = "initial" BY <1>1, StateIsBeside
  <2>2. /\ c \in DOMAIN MaxCommands /\ buffer_state'[c] = "kInitial"
        /\ commands' = commands /\ stream' = stream
    BY <1>0 DEF Allocate, TypeOK
  <2>3. Numbered(c)' /\ Alone(c)' BY <1>0, <2>2 DEF Own, Numbered, Alone
  <2>4. QED BY <2>1, <2>2, <2>3 DEF Dropped
<1>4. QED BY <1>2, <1>3, DroppedDetails

LEMMA FreeDetails ==
  ASSUME Detailed, UNCHANGED config, NEW c \in CommandBuffers, Free(c)
  PROVE  Details'
<1>0. TypeOK /\ Own(c) BY BufferDetails
<1>1. drv[c] # "pending" /\ DriverState(c, "none") BY DEF Free
<1>2. Beside({c})
  <2>1. ASSUME NEW b \in CommandBuffers \ {c}
        PROVE  SameRecording(b) /\ SameWords(b) /\ buffer_state'[b] = buffer_state[b]
    BY <1>0 DEF Free, markers, TypeOK, SameRecording, SameWords
  <2>2. \A p \in Primaries \ {c} : front'[p] = front[p] /\ back'[p] = back[p]
    BY DEF Free, DropProgress
  <2>3. QED BY <1>1, <2>1, <2>2, StateIsBeside DEF Beside
<1>3. Dropped(c)
  <2>1. drv'[c] = "none" BY <1>1, StateIsBeside
  <2>2. buffer_state'[c] = "kInitial" /\ commands'[c] = <<>> /\ stream'[c] = <<>>
    BY <1>0 DEF Free, TypeOK
  <2>3. Numbered(c)' /\ Alone(c)' BY <2>2 DEF Numbered, Alone
  <2>4. QED BY <2>1, <2>2, <2>3 DEF Dropped
<1>4. QED BY <1>2, <1>3, DroppedDetails

LEMMA ResetDetails ==
  ASSUME Detailed, UNCHANGED config, NEW C \in SUBSET CommandBuffers, Reset(C)
  PROVE  Details'
<1>0. TypeOK /\ \A c \in CommandBuffers : Own(c) BY BufferDetails
<1> DEFINE live == {c \in C : drv[c] # "none"}
<1>1. \A c \in CommandBuffers :
        drv'[c] = IF c \in live THEN "initial"
                  ELSE IF /\ c \in Primaries /\ ExecutedBy(c) \cap live # {}
                          /\ drv[c] \in {"recording", "executable"}
                       THEN "invalid" ELSE drv[c]
  BY DEF Reset
<1>2. /\ live \subseteq CommandBuffers
      /\ \A c \in live : drv[c] # "pending" /\ drv[c] # "none"
      /\ ClearMarkers(live) /\ DropProgress(live) /\ UNCHANGED object
      /\ \A c \in CommandBuffers :
           /\ buffer_state'[c] = IF c \in live THEN "kInitialReset" ELSE buffer_state[c]
           /\ commands'[c] = IF c \in live THEN <<>> ELSE commands[c]
           /\ stream'[c] = IF c \in live THEN <<>> ELSE stream[c]
  BY DEF Reset
<1> HIDE DEF live
<1>3. Beside(live)
  <2>1. ASSUME NEW b \in CommandBuffers \ live
        PROVE  SameRecording(b) /\ SameWords(b) /\ buffer_state'[b] = buffer_state[b]
    BY <1>2 DEF ClearMarkers, object, SameRecording, SameWords
  <2>2. \A p \in Primaries \ live : front'[p] = front[p] /\ back'[p] = back[p]
    BY <1>2 DEF DropProgress
  <2>3. ASSUME NEW p \in Primaries \ live, Valid(p)', NEW c \in ExecutedBy(p), c \in live
        PROVE  FALSE
    <3>1. p \in CommandBuffers BY BufferDetails
    <3>2. drv'[p] = drv[p] /\ drv[p] \notin {"recording", "executable"}
      BY <1>1, <2>3, <3>1 DEF Valid
    <3>3. drv[p] = "pending" BY <2>3, <3>2 DEF Valid
    <3>4. drv[c] = "pending" BY <2>3, <3>3, ExecutedAreReady DEF Valid
    <3>5. QED BY <1>2, <2>3, <3>4
  <2>4. QED BY <1>1, <2>1, <2>2, <2>3 DEF Beside
<1>4. ASSUME NEW c \in live PROVE Dropped(c)
  <2>1. drv'[c] = "initial" /\ c \in DOMAIN MaxCommands
    BY <1>0, <1>1, <1>2 DEF Own
  <2>2. buffer_state'[c] = "kInitialReset" /\ commands'[c] = <<>> /\ stream'[c] = <<>>
    BY <1>2
  <2>3. Numbered(c)' /\ Alone(c)' BY <2>2 DEF Numbered, Alone
  <2>4. QED BY <2>1, <2>2, <2>3 DEF Dropped
<1>5. QED BY <1>3, <1>4, DroppedDetails

\* The details after a step of one buffer that stays valid.
LEMMA ChangedDetails ==
  ASSUME Detailed, NEW c \in CommandBuffers, Beside({c}), Own(c)',
         c \in Primaries => /\ Executes(c)' /\ Words(c)' /\ Done(c)'
                            /\ \A q \in Primaries \ {c} : Valid(q)' =>
                                 ExecutedBy(c)' \cap ExecutedBy(q)' = {}
  PROVE  Details'
<1>1. Apart' BY ApartKept
<1>2. QED BY <1>1, BesideKeeps DEF Details

\* What a recording begins with.
Opening(u, c, first) ==
  /\ u \in Seq(Op)
  /\ \A traced : Layout(u, c, first, 1, traced)
  /\ \A i \in Of(u, c) : IdOf(u[i], first) <= 1
  /\ \A i \in 1 .. Len(u) : u[i].cb = c
  /\ has_buffer_marker[c] => 2 <= Len(u) /\ u[2] = Write("bottom", c, first + 1)

LEMMA BeginPiece ==
  ASSUME TypeInv, NEW c \in CommandBuffers, 1 \in 1 .. LowRange - 2
  PROVE  Opening(WriteMarker("top", c, MarkerValue(c, 1))
                   \o WriteMarker("bottom", c, MarkerValue(c, 1)),
                 c, begin_marker_value[c])
<1> DEFINE u == WriteMarker("top", c, MarkerValue(c, 1))
                  \o WriteMarker("bottom", c, MarkerValue(c, 1))
           first == begin_marker_value[c]
<1>1. TypeOK /\ first \in Nat BY BufferTypes
<1>2. MarkerValue(c, 1) = first + 1
  <2>1. PICK id \in 1 .. LowRange - 2 : id = 1 OBVIOUS
  <2>2. MarkerValue(c, id) = first + id BY <1>1, MarkerIsBetween
  <2>3. QED BY <2>1, <2>2
<1>3. CASE has_buffer_marker[c]
  <2> DEFINE h == <<Write("top", c, first + 1)>>
             f == <<Write("bottom", c, first + 1)>>
  <2>1. u = h \o f BY <1>2, <1>3 DEF WriteMarker
  <2>2. MarkedRun(c, first, 1, <<>>) = u
    <3>1. Write("top", c, first + 1) \in Op BY <1>1 DEF Write, Op
    <3>2. h \in Seq(Op) BY <3>1
    <3>3. MarkedRun(c, first, 1, <<>>) = h \o <<>> \o f BY DEF MarkedRun
    <3> HIDE DEF h, f
    <3>4. h \o <<>> = h BY <3>2, ConcatEmptySeq
    <3>5. QED BY <2>1, <3>3, <3>4
  <2>3. <<>> \in Seq(Op) /\ Len(<<>>) = 0 BY EmptySeq
  <2>4. Marks(MarkedRun(c, first, 1, <<>>), c, first, 1, <<>>)
    <3>1. PICK e \in Seq(Op) : e = <<>> /\ Len(e) = 0 BY <2>3
    <3>2. PICK id \in 1 .. LowRange - 2 : id = 1 OBVIOUS
    <3> HIDE DEF first
    <3>3. ~(1 <= Len(e)) /\ \A i \in 2 .. Len(e) : FALSE BY <3>1
    <3>4. Marks(MarkedRun(c, first, id, e), c, first, id, e)
      BY <1>1, <3>3, MarkedPiece
    <3>5. QED BY <3>1, <3>2, <3>4
  <2>5. Marks(u, c, first, 1, <<>>) BY ONLY <2>2, <2>4
  <2> HIDE DEF first, u
  <2>6. /\ u \in Seq(Op) /\ \A traced : Layout(u, c, first, 1, traced)
        /\ \A i \in Of(u, c) : IdOf(u[i], first) = 1
    BY ONLY <2>5 DEF Marks
  <2>7. Len(u) = 2 /\ u[2] = Write("bottom", c, first + 1) /\ u[1].cb = c /\ u[2].cb = c
    <3>1. /\ Len(u) = Len(<<>>) + 2 /\ u[1] = Write("top", c, first + 1)
          /\ u[Len(u)] = Write("bottom", c, first + 1)
      BY ONLY <2>5 DEF Marks
    <3>2. Len(u) = 2 BY ONLY <2>3, <3>1
    <3>3. u[1].cb = c /\ u[Len(u)].cb = c BY ONLY <3>1 DEF Write
    <3>4. QED BY ONLY <3>1, <3>2, <3>3
  <2>8. \A i \in 1 .. Len(u) : u[i].cb = c BY ONLY <2>7
  <2>9. \A i \in Of(u, c) : IdOf(u[i], first) <= 1 BY ONLY <2>6
  <2>10. 2 <= Len(u) BY ONLY <2>7
  <2>11. Opening(u, c, first) BY ONLY <2>6, <2>7, <2>8, <2>9, <2>10 DEF Opening
  <2>12. QED BY ONLY <2>11 DEF u, first
<1>4. CASE ~has_buffer_marker[c]
  <2>1. u = <<>> BY <1>4 DEF WriteMarker
  <2> HIDE DEF u, first
  <2>2. u \in Seq(Op) /\ \A i \in 1 .. Len(u) : FALSE BY <2>1, EmptySeq
  <2>3. Foreign(u, c) BY <2>2 DEF Foreign
  <2>4. Of(u, c) = {} /\ \A n, traced : Layout(u, c, first, n, traced)
    BY <2>2, <2>3, ForeignLayout
  <2>5. Opening(u, c, first) BY ONLY <1>4, <2>2, <2>4 DEF Opening
  <2>6. QED BY ONLY <2>5 DEF u, first
<1>5. QED BY <1>3, <1>4

LEMMA BeginDetails ==
  ASSUME Detailed, UNCHANGED config, NEW c \in CommandBuffers, NEW ok \in BOOLEAN,
         Begin(c, ok)
  PROVE  Details'
<1>0. TypeInv /\ TypeOK /\ OneTimeAndShort /\ Own(c) BY BufferDetails
<1>1. /\ drv[c] # "pending" /\ drv[c] # "none"
      /\ DriverState(c, IF ok THEN "recording" ELSE "invalid")
  BY DEF Begin
<1>2. c \in DOMAIN MaxCommands BY <1>0, <1>1 DEF Own
<1>3. Beside({c})
  <2>1. ASSUME NEW b \in CommandBuffers \ {c}
        PROVE  SameRecording(b) /\ SameWords(b) /\ buffer_state'[b] = buffer_state[b]
    BY <1>0 DEF Begin, ClearMarkers, object, TypeOK, SameRecording, SameWords
  <2>2. \A p \in Primaries \ {c} : front'[p] = front[p] /\ back'[p] = back[p]
    BY DEF Begin, DropProgress
  <2>3. QED BY <1>1, <2>1, <2>2, StateIsBeside DEF Beside
<1>4. /\ drv'[c] = IF ok THEN "recording" ELSE "invalid"
      /\ commands'[c] = <<Command(1, "begin", {})>>
      /\ buffer_state'[c] = "kRecording"
      /\ has_buffer_marker'[c] = has_buffer_marker[c]
      /\ begin_marker_value'[c] = begin_marker_value[c]
      /\ has_buffer_marker[c] => top'[c] = 0 /\ bottom'[c] = 0
  BY <1>0, <1>1, StateIsBeside DEF Begin, ClearMarkers, object, TypeOK
<1>5. /\ Len(commands'[c]) = 1 /\ commands'[c][1] = Command(1, "begin", {})
      /\ Numbered(c)'
  BY <1>4 DEF Numbered, Command
<1>6. CASE ok = FALSE
  <2>1. stream'[c] = <<>> BY <1>0, <1>6 DEF Begin, TypeOK
  <2>2. Alone(c)' BY <2>1 DEF Alone
  <2>3. Dropped(c) BY <1>2, <1>4, <1>5, <1>6, <2>2 DEF Dropped
  <2>4. QED BY <1>3, <2>3, DroppedDetails
<1>7. CASE ok = TRUE
  <2>1. 1 \in 1 .. LowRange - 2
    <3>1. MaxCommands[c] \in Nat /\ MaxCommands[c] + 2 < LowRange
      BY <1>0, <1>2, ConfigAssumption DEF TypeOK, MaxCommands, OneTimeAndShort
    <3>2. QED BY <3>1, RangeAssumption
  <2> DEFINE u == WriteMarker("top", c, MarkerValue(c, 1))
                    \o WriteMarker("bottom", c, MarkerValue(c, 1))
             first == begin_marker_value[c]
  <2>2. /\ u \in Seq(Op)
        /\ \A traced : Layout(u, c, first, 1, traced)
        /\ \A i \in Of(u, c) : IdOf(u[i], first) <= 1
        /\ \A i \in 1 .. Len(u) : u[i].cb = c
        /\ has_buffer_marker[c] => 2 <= Len(u) /\ u[2] = Write("bottom", c, first + 1)
    <3>1. Opening(u, c, first) BY <1>0, <2>1, BeginPiece
    <3> HIDE DEF u, first
    <3>2. QED BY <3>1 DEF Opening
  <2>3. stream'[c] = u BY <1>0, <1>7 DEF Begin, TypeOK
  <2> HIDE DEF u, first
  <2>4. begin_marker_value'[c] = first BY <1>4 DEF first
  <2>5. PICK more : more = Traced(c)' OBVIOUS
  <2>6. Layout(u, c, first, 1, more) BY <2>2
  <2>7. Laid(stream[c], c)' BY <1>5, <2>3, <2>4, <2>5, <2>6 DEF Laid
  <2>8. Alone(c)' BY <2>2, <2>3 DEF Alone
  <2>9. Unfinished(c)'
    BY <1>5, <2>1, <2>2, <2>3, <2>4, RangeAssumption DEF Unfinished
  <2>10. Own(c)'
    <3>1. c \in DOMAIN MaxCommands' BY <1>2 DEF MaxCommands
    <3>2. has_buffer_marker'[c] =>
            2 <= Len(stream'[c]) /\ stream'[c][2] = Write("bottom", c, begin_marker_value'[c] + 1)
      BY <1>4, <2>2, <2>3, <2>4
    <3>3. has_buffer_marker'[c] => Clear(c)' BY <1>4 DEF Clear
    <3>4. QED BY <1>4, <1>5, <1>7, <2>7, <2>8, <2>9, <3>1, <3>2, <3>3 DEF Own
  <2>11. ExecutedBy(c)' = {}
    BY <1>5 DEF ExecutedBy, Elements, Command
  <2>12. Executes(c)'
    <3>1. \A i \in 1 .. Len(stream'[c]) : stream'[c][i].cb = c BY <2>2, <2>3
    <3>2. \A e \in 1 .. Len(commands'[c]) : commands'[c][e].pCommandBuffers = {}
      BY <1>5 DEF Command
    <3>3. QED BY <2>11, <3>1, <3>2 DEF Executes
  <2>13. Words(c)' BY <1>4, <1>7 DEF Words
  <2>14. Done(c)' BY <1>4, <1>7 DEF Done
  <2>15. QED BY <1>3, <2>10, <2>11, <2>12, <2>13, <2>14, ChangedDetails
<1>8. QED BY <1>6, <1>7

LEMMA RecordDetails ==
  ASSUME Detailed, UNCHANGED config, NEW c \in CommandBuffers, NEW type, Record(c, type)
  PROVE  Details'
<1>0. TypeInv /\ TypeOK /\ Apart /\ Own(c) BY BufferDetails
<1> DEFINE id == Len(commands[c]) + 1
           body == <<Write("run", c, id)>>
<1>1. /\ Recording(c) /\ Track(c, type, {})
      /\ UNCHANGED <<object, buffer_state, markers, drv, gpu>>
      /\ stream'[c] = stream[c] \o Recorded(c, type, id, body)
      /\ \A b \in CommandBuffers \ {c} :
           stream'[b] = stream[b] /\ commands'[b] = commands[b]
  BY <1>0 DEF Record, Track, TypeOK
<1>2. \A b \in CommandBuffers :
        /\ has_buffer_marker'[b] = has_buffer_marker[b]
        /\ begin_marker_value'[b] = begin_marker_value[b]
        /\ SameWords(b)
  BY <1>1 DEF object, markers, SameWords
<1>3. Beside({c})
  <2>1. ASSUME NEW p \in Primaries, Valid(p)', c \in ExecutedBy(p) PROVE FALSE
    <3>1. Valid(p) BY <1>1, <2>1 DEF Valid
    <3>2. drv[c] \in {"pending", "executable"} BY <2>1, <3>1, ExecutedAreReady
    <3>3. QED BY <1>1, <3>2 DEF Recording
  <2>2. \A b \in CommandBuffers \ {c} : SameRecording(b)
    BY <1>1, <1>2 DEF SameRecording
  <2>3. QED BY <1>1, <1>2, <2>1, <2>2 DEF Beside, gpu
<1>4. Extends(c, type, {}, body)
  <2>1. id \in Nat BY <1>0, BufferTypes
  <2>2. Write("run", c, id) \in Op BY <2>1 DEF Write, Op
  <2>3. body \in Seq(Op) /\ Len(body) = 1 /\ body[1] = Write("run", c, id)
    BY <2>2
  <2> HIDE DEF body
  <2>4. \A i \in 2 .. Len(body) : FALSE BY <2>3
  <2>5. drv'[c] = drv[c] BY <1>1
  <2>6. QED BY <1>1, <1>2, <2>3, <2>4, <2>5 DEF Extends
<1> HIDE DEF body, id
<1>5. Own(c)' BY <1>4, ExtendsOwn
<1>6. ASSUME c \in Primaries
      PROVE  /\ Executes(c)' /\ Words(c)' /\ Done(c)'
             /\ \A q \in Primaries \ {c} : Valid(q)' =>
                  ExecutedBy(c)' \cap ExecutedBy(q)' = {}
  <2>1. \A s \in Secondaries : SameRecording(s) /\ drv'[s] = drv[s]
    BY <1>1, <1>3, <1>6, LevelAssumption DEF Beside, CommandBuffers
  <2>2. Executes(c)' BY <1>4, <1>6, <2>1, ExtendsExecutes
  <2>3. drv[c] = "recording" /\ drv' = drv BY <1>1 DEF Recording
  <2>4. Words(c)' BY <2>3 DEF Words
  <2>5. Done(c)'
    <3>1. Done(c) BY <1>6, BufferDetails
    <3>2. NoSubmitFails' = NoSubmitFails BY DEF NoSubmitFails, Failures
    <3>3. buffer_state' = buffer_state BY <1>1
    <3>4. QED BY <2>3, <3>1, <3>2, <3>3 DEF Done
  <2>6. ExecutedBy(c)' = ExecutedBy(c)
    <3>1. ExecutedBy(c)' = ExecutedBy(c) \cup {}
      BY <1>0, <1>1, <1>2, TrackedOneMore
    <3>2. QED BY <3>1
  <2>7. ASSUME NEW q \in Primaries \ {c}, Valid(q)'
        PROVE  ExecutedBy(c)' \cap ExecutedBy(q)' = {}
    <3>1. Valid(c) /\ Valid(q) BY <2>3, <2>7 DEF Valid
    <3>2. ExecutedBy(q)' = ExecutedBy(q)
      BY <1>3, SameExecuted DEF Beside, CommandBuffers
    <3>3. QED BY <1>0, <1>6, <2>6, <3>1, <3>2 DEF Apart
  <2>8. QED BY <2>2, <2>4, <2>5, <2>7
<1>7. QED BY <1>3, <1>5, <1>6, ChangedDetails

\* The driver's command of a vkCmdExecuteCommands and what it runs.
LEMMA ExecutedBody ==
  ASSUME Detailed, NEW p \in Primaries, NEW s \in Secondaries, drv[s] = "executable",
         NEW id \in Nat
  PROVE  LET body == <<Write("run", p, id)>> \o stream[s] IN
         /\ body \in Seq(Op) /\ 1 <= Len(body) /\ body[1] = Write("run", p, id)
         /\ \A i \in 2 .. Len(body) : body[i].cb = s
         /\ Laid(body, s)
<1> DEFINE h == <<Write("run", p, id)>>
           t == stream[s]
           body == h \o t
<1>0. /\ TypeInv /\ p \in CommandBuffers /\ s \in CommandBuffers /\ p # s /\ Own(s)
  BY BufferDetails, LevelAssumption DEF CommandBuffers
<1>1. Write("run", p, id) \in Op BY <1>0 DEF Write, Op
<1>2. h \in Seq(Op) /\ Len(h) = 1 /\ h[1] = Write("run", p, id) BY <1>1
<1>3. Foreign(h, s) BY <1>0 DEF Foreign, Write
<1>4. t \in Seq(Op) /\ begin_marker_value[s] \in Nat BY <1>0, BufferTypes
<1> HIDE DEF h
<1>5. /\ body \in Seq(Op) /\ Len(body) = Len(h) + Len(t) /\ Len(t) \in Nat
      /\ \A i \in 1 .. Len(h) : body[i] = h[i]
      /\ \A i \in 1 .. Len(t) : body[Len(h) + i] = t[i]
  BY ONLY <1>2, <1>4, OfConcat
<1>6. Laid(t, s) BY <1>0 DEF Own, Valid
<1>7. Laid(body, s) BY <1>2, <1>3, <1>4, <1>6, LayoutBeside DEF Laid
<1> HIDE DEF body
<1>8. ASSUME NEW i \in 2 .. Len(body) PROVE body[i].cb = s
  <2>1. PICK k \in 1 .. Len(t) : i = Len(h) + k
    <3>1. i - 1 \in 1 .. Len(t) /\ i = Len(h) + (i - 1) BY <1>2, <1>5
    <3>2. QED BY <3>1
  <2>2. body[i] = t[k] BY <1>5, <2>1
  <2>3. QED BY <1>0, <2>2 DEF Own, Alone
<1>9. 1 \in 1 .. Len(h) BY <1>2
<1>10. body[1] = Write("run", p, id) /\ 1 <= Len(body) BY <1>2, <1>5, <1>9
<1>11. QED BY <1>5, <1>7, <1>8, <1>10 DEF body, h

LEMMA ExecuteDetails ==
  ASSUME Detailed, UNCHANGED config, NEW p \in Primaries, NEW s \in Secondaries,
         ExecuteCommands(p, s)
  PROVE  Details'
<1>0. TypeInv /\ TypeOK /\ Apart /\ p \in CommandBuffers /\ Own(p)
  BY BufferDetails
<1> DEFINE id == Len(commands[p]) + 1
           body == <<Write("run", p, id)>> \o stream[s]
<1>1. /\ Recording(p) /\ Track(p, "execute", {s})
      /\ drv[s] = "executable" /\ s \notin ExecutedBy(p)
      /\ UNCHANGED <<object, buffer_state, markers, gpu>>
      /\ stream'[p] = stream[p] \o Recorded(p, "execute", id, body)
      /\ \A b \in CommandBuffers \ {p} :
           stream'[b] = stream[b] /\ commands'[b] = commands[b]
      /\ \A b \in CommandBuffers :
           drv'[b] = IF /\ b \in Primaries \ {p} /\ s \in ExecutedBy(b)
                        /\ drv[b] \in {"recording", "executable"}
                     THEN "invalid" ELSE drv[b]
  BY <1>0 DEF ExecuteCommands, Track, TypeOK
<1>2. id \in Nat BY <1>0, BufferTypes
<1>3. /\ body \in Seq(Op) /\ 1 <= Len(body) /\ body[1] = Write("run", p, id)
      /\ \A i \in 2 .. Len(body) : body[i].cb = s
      /\ Laid(body, s)
  BY <1>1, <1>2, ExecutedBody
<1> HIDE DEF body, id
<1>4. \A b \in CommandBuffers :
        /\ has_buffer_marker'[b] = has_buffer_marker[b]
        /\ begin_marker_value'[b] = begin_marker_value[b]
        /\ SameWords(b)
  BY <1>1 DEF object, markers, SameWords
<1>5. Beside({p})
  <2>1. \A q \in Primaries : p \notin ExecutedBy(q)
    BY <1>0, ExecutedAreSecondaries, LevelAssumption
  <2>2. \A b \in CommandBuffers \ {p} : SameRecording(b)
    BY <1>1, <1>4 DEF SameRecording
  <2>3. QED BY <1>1, <1>4, <2>1, <2>2 DEF Beside, gpu
<1>6. s # p /\ p \notin Secondaries BY LevelAssumption
<1>7. drv'[p] = drv[p] /\ drv[p] = "recording" BY <1>0, <1>1 DEF Recording
<1>8. Extends(p, "execute", {s}, body)
  BY <1>0, <1>1, <1>3, <1>4, <1>6, <1>7 DEF Extends, id
<1>9. Own(p)' BY <1>0, <1>8, ExtendsOwn
<1>10. Executes(p)'
  <2>1. \A x \in Secondaries : SameRecording(x) /\ drv'[x] = drv[x]
    BY <1>1, <1>5, LevelAssumption DEF Beside, CommandBuffers
  <2>2. {s} \in SUBSET Secondaries /\ {s} \cap ExecutedBy(p) = {} BY <1>1
  <2>3. \A x \in {s} : drv[x] = "executable" /\ Laid(body, x) BY <1>1, <1>3
  <2>4. QED BY <1>8, <2>1, <2>2, <2>3, ExtendsExecutes
<1>11. Words(p)' BY <1>7 DEF Words
<1>12. Done(p)'
  <2>1. Done(p) BY BufferDetails
  <2>2. NoSubmitFails' = NoSubmitFails BY DEF NoSubmitFails, Failures
  <2>3. buffer_state' = buffer_state BY <1>1
  <2>4. QED BY <1>7, <2>1, <2>2, <2>3 DEF Done
<1>13. ASSUME NEW q \in Primaries \ {p}, Valid(q)'
       PROVE  ExecutedBy(p)' \cap ExecutedBy(q)' = {}
  <2>1. q \in CommandBuffers BY BufferDetails
  <2>2. Valid(q) /\ drv'[q] = drv[q] BY <1>1, <1>13, <2>1 DEF Valid
  <2>3. Valid(p) BY <1>7 DEF Valid
  <2>4. ExecutedBy(q)' = ExecutedBy(q)
    BY <1>5, SameExecuted DEF Beside, CommandBuffers
  <2>5. ExecutedBy(p)' = ExecutedBy(p) \cup {s}
    BY <1>0, <1>1, <1>4, TrackedOneMore
  <2>6. s \notin ExecutedBy(q)
    <3> SUFFICES ASSUME s \in ExecutedBy(q) PROVE FALSE
      OBVIOUS
    <3>1. drv[q] \notin {"recording", "executable"}
      BY <1>1, <1>13, <2>1, <2>2 DEF Valid
    <3>2. drv[q] = "pending" BY <2>2, <3>1 DEF Valid
    <3>3. drv[s] = "pending" BY <2>2, <3>2, ExecutedAreReady
    <3>4. QED BY <1>1, <3>3
  <2>7. QED BY <1>0, <2>2, <2>3, <2>4, <2>5, <2>6 DEF Apart
<1>14. QED BY <1>0, <1>5, <1>9, <1>10, <1>11, <1>12, <1>13, ChangedDetails

\* What vkEndCommandBuffer adds.
LEMMA EndMarkerPiece ==
  ASSUME TypeInv, NEW c \in CommandBuffers
  PROVE  /\ EndMarker(c) \in Seq(Op)
         /\ \A i \in 1 .. Len(EndMarker(c)) : EndMarker(c)[i].cb = c
         /\ \A n, traced : Layout(EndMarker(c), c, begin_marker_value[c], n, traced)
         /\ \A i \in Of(EndMarker(c), c) :
              IdOf(EndMarker(c)[i], begin_marker_value[c]) = LowRange - 1
<1> DEFINE first == begin_marker_value[c]
           m == EndMarker(c)
<1>1. first \in Nat BY BufferTypes
<1>2. CASE has_buffer_marker[c]
  <2>1. m = <<Write("bottom", c, first + (LowRange - 1))>>
    BY <1>2 DEF EndMarker, WriteMarker, end_marker_value
  <2>2. Len(m) = 1 /\ m[1].cb = c BY <2>1 DEF Write
  <2> HIDE DEF m, first
  <2>3. /\ m \in Seq(Op) /\ \A n, traced : Layout(m, c, first, n, traced)
        /\ \A i \in Of(m, c) : IdOf(m[i], first) = LowRange - 1
    BY <1>1, <2>1, EndPiece
  <2>4. \A i \in 1 .. Len(m) : m[i].cb = c BY <2>2
  <2>5. QED BY <2>3, <2>4 DEF m, first
<1>3. CASE ~has_buffer_marker[c]
  <2>1. m = <<>> BY <1>3 DEF EndMarker, WriteMarker
  <2> HIDE DEF m, first
  <2>2. m \in Seq(Op) /\ \A i \in 1 .. Len(m) : FALSE BY <2>1, EmptySeq
  <2>3. Foreign(m, c) BY <2>2 DEF Foreign
  <2>4. Of(m, c) = {} /\ \A n, traced : Layout(m, c, first, n, traced)
    BY <2>2, <2>3, ForeignLayout
  <2>5. QED BY <2>2, <2>4 DEF m, first
<1>4. QED BY <1>2, <1>3

LEMMA EndDetails ==
  ASSUME Detailed, UNCHANGED config, NEW c \in CommandBuffers, NEW ok \in BOOLEAN,
         End(c, ok)
  PROVE  Details'
<1>0. TypeInv /\ TypeOK /\ Apart /\ Own(c) BY BufferDetails
<1> DEFINE n == Len(commands[c])
           t == stream[c]
           m == EndMarker(c)
           first == begin_marker_value[c]
<1>1. /\ drv[c] = "recording" /\ DriverState(c, IF ok THEN "executable" ELSE "invalid")
      /\ Track(c, "end", {}) /\ UNCHANGED <<object, markers, gpu>>
      /\ stream'[c] = t \o m /\ buffer_state'[c] = "kExecutable"
      /\ \A b \in CommandBuffers \ {c} :
           /\ stream'[b] = stream[b] /\ commands'[b] = commands[b]
           /\ buffer_state'[b] = buffer_state[b]
  BY <1>0 DEF End, Track, TypeOK
<1>2. \A b \in CommandBuffers :
        /\ has_buffer_marker'[b] = has_buffer_marker[b]
        /\ begin_marker_value'[b] = begin_marker_value[b]
        /\ SameWords(b)
  BY <1>1 DEF object, markers, SameWords
<1>3. Beside({c})
  <2>1. \A b \in CommandBuffers \ {c} : SameRecording(b)
    BY <1>1, <1>2 DEF SameRecording
  <2>2. QED BY <1>1, <1>2, <2>1, StateIsBeside DEF Beside, gpu
<1>4. drv'[c] = IF ok THEN "executable" ELSE "invalid" BY <1>1, StateIsBeside
<1>5. PICK more : more = Traced(c)' OBVIOUS
<1>6. n \in Nat /\ first \in Nat /\ t \in Seq(Op) /\ Len(t) \in Nat
  BY <1>0, BufferTypes
<1>7. /\ Len(commands'[c]) = n + 1
      /\ \A k \in 1 .. n : commands'[c][k] = commands[c][k]
      /\ commands'[c][n + 1] = Command(n + 1, "end", {})
      /\ Numbered(c)'
      /\ more \cap 1 .. n \subseteq Traced(c)
      /\ ExecutedBy(c)' = ExecutedBy(c) \cup {}
  <2>0. PICK type, S : type = "end" /\ S = {} OBVIOUS
  <2>1. /\ TypeInv /\ c \in CommandBuffers /\ UNCHANGED config
        /\ Track(c, type, S)
        /\ has_buffer_marker'[c] = has_buffer_marker[c]
    BY <1>0, <1>1, <1>2, <2>0
  <2>2. /\ Len(commands'[c]) = n + 1
        /\ \A k \in 1 .. n : commands'[c][k] = commands[c][k]
        /\ commands'[c][n + 1] = Command(n + 1, type, S)
        /\ Numbered(c) => Numbered(c)'
        /\ Traced(c)' \cap 1 .. n \subseteq Traced(c)
        /\ ExecutedBy(c)' = ExecutedBy(c) \cup S
    BY ONLY <2>1, TrackedOneMore
  <2>3. QED BY <1>0, <1>5, <2>0, <2>2 DEF Own
<1>8. /\ Layout(t, c, first, n, Traced(c))
      /\ \A i \in Of(t, c) : IdOf(t[i], first) <= n
      /\ n < LowRange - 1 /\ LowRange \in Nat
  BY <1>0, <1>1, RangeAssumption DEF Own, Valid, Laid, Unfinished
<1>9. /\ m \in Seq(Op) /\ \A i \in 1 .. Len(m) : m[i].cb = c
      /\ \A l, traced : Layout(m, c, first, l, traced)
      /\ \A i \in Of(m, c) : IdOf(m[i], first) = LowRange - 1
  BY <1>0, EndMarkerPiece
<1> HIDE DEF m, first
<1>10. begin_marker_value'[c] = first /\ c \in DOMAIN MaxCommands
  BY <1>0, <1>1, <1>2 DEF first, Own
<1>11. /\ t \o m \in Seq(Op) /\ Len(t \o m) = Len(t) + Len(m) /\ Len(m) \in Nat
       /\ \A i \in 1 .. Len(t) : i \in 1 .. Len(t \o m) /\ (t \o m)[i] = t[i]
       /\ \A i \in 1 .. Len(m) : (t \o m)[Len(t) + i] = m[i]
       /\ \A i \in 1 .. Len(t \o m) : i \in 1 .. Len(t) \/ i - Len(t) \in 1 .. Len(m)
  BY ONLY <1>6, <1>9, OfConcat
<1>12. ASSUME NEW i \in 1 .. Len(t \o m)
       PROVE  \/ (t \o m)[i].cb = c
              \/ i \in 1 .. Len(t) /\ (t \o m)[i] = t[i]
  <2>1. CASE i - Len(t) \in 1 .. Len(m)
    <3>1. PICK k \in 1 .. Len(m) : k = i - Len(t) BY <2>1
    <3>2. i = Len(t) + k BY <1>6, <1>11, <3>1
    <3>3. (t \o m)[Len(t) + k] = m[k] BY ONLY <1>11, <3>1
    <3>4. (t \o m)[i] = m[k] BY ONLY <3>2, <3>3
    <3>5. m[k].cb = c BY ONLY <1>9, <3>1
    <3>6. QED BY ONLY <3>4, <3>5
  <2>2. QED BY <1>11, <2>1
<1>13. Alone(c)'
  BY <1>0, <1>1, <1>12 DEF Own, Alone
<1>14. CASE ok = FALSE
  <2>1. Dropped(c) BY <1>1, <1>4, <1>7, <1>10, <1>13, <1>14 DEF Dropped
  <2>2. QED BY <1>3, <2>1, DroppedDetails
<1>15. CASE ok = TRUE
  <2>1. Layout(t, c, first, n + 1, more) BY <1>6, <1>7, <1>8, LayoutGrows
  <2>2. \A i \in Of(m, c) : IdOf(m[i], first) > n BY <1>6, <1>8, <1>9
  <2>3. \A i \in Of(t, c), j \in Of(m, c) : Key(t[i], first) < Key(m[j], first)
    BY ONLY <1>6, <1>8, <1>9, <2>2, LaterKeys
  <2>4. Layout(m, c, first, n + 1, more) BY <1>9
  <2>5. Layout(t \o m, c, first, n + 1, more)
    BY ONLY <1>6, <1>9, <2>1, <2>3, <2>4, LayoutConcat
  <2>6. Laid(stream[c], c)' BY <1>1, <1>5, <1>7, <1>10, <2>5 DEF Laid
  <2>7. Own(c)'
    <3>1. has_buffer_marker[c] =>
            2 <= Len(t \o m) /\ (t \o m)[2] = Write("bottom", c, first + 1)
      <4>1. has_buffer_marker[c] => 2 <= Len(t) /\ t[2] = Write("bottom", c, first + 1)
        BY <1>0, <1>1 DEF Own, Valid, first
      <4>2. QED BY <1>6, <1>11, <4>1
    <3>2. has_buffer_marker[c] => Clear(c)'
      BY <1>0, <1>1, <1>2 DEF Own, Clear, SameWords
    <3>3. c \in DOMAIN MaxCommands' BY <1>10 DEF MaxCommands
    <3>4. QED
      BY <1>1, <1>2, <1>4, <1>7, <1>10, <1>13, <1>15, <2>6, <3>1, <3>2, <3>3
         DEF Own
  <2>8. ASSUME c \in Primaries
        PROVE  /\ Executes(c)' /\ Words(c)' /\ Done(c)'
               /\ \A q \in Primaries \ {c} : Valid(q)' =>
                    ExecutedBy(c)' \cap ExecutedBy(q)' = {}
    <3>0. Executes(c) /\ Valid(c) BY <1>1, <2>8, BufferDetails DEF Valid
    <3>1. ASSUME NEW x \in ExecutedBy(c)
          PROVE  drv'[x] = "executable" /\ Laid(stream[c], x)' /\ Enclosed(c, x)'
      <4>1. x \in Secondaries /\ x \in CommandBuffers /\ x \notin Primaries /\ x # c
        BY <2>8, <3>0, ExecutedAreReady, LevelAssumption
      <4>2. drv[x] = "executable" /\ Laid(t, x) /\ Enclosed(c, x)
        BY <1>1, <3>0 DEF Executes
      <4>3. SameRecording(x) /\ drv'[x] = drv[x] BY <1>3, <4>1 DEF Beside
      <4>4. Foreign(m, x) BY <1>9, <4>1 DEF Foreign
      <4>5. begin_marker_value[x] \in Nat BY <1>0, <4>1, BufferTypes
      <4>6. Laid(t \o m, x)
        BY <1>6, <1>9, <4>2, <4>4, <4>5, LayoutBeside DEF Laid
      <4>7. Laid(stream[c], x)'
        <5>1. Traced(x)' = Traced(x) BY <4>3, SameLaid
        <5>2. QED BY <1>1, <4>3, <4>6, <5>1 DEF Laid, SameRecording
      <4>8. Enclosed(c, x)'
        <5> SUFFICES ASSUME has_buffer_marker[c], NEW e \in 1 .. n + 1,
                            x \in commands'[c][e].pCommandBuffers
                     PROVE  Inside(t \o m, x, c, first + e)
          BY <1>1, <1>2, <1>7, <1>10 DEF Enclosed
        <5>1. e # n + 1 BY <1>7 DEF Command
        <5>2. e \in 1 .. n /\ x \in commands[c][e].pCommandBuffers
          BY <1>6, <1>7, <5>1
        <5>3. Inside(t, x, c, first + e) BY <4>2, <5>2 DEF Enclosed, first
        <5>4. QED BY ONLY <1>6, <1>9, <4>4, <5>3, StaysInside
      <4>9. QED BY <4>2, <4>3, <4>7, <4>8
    <3>2. ASSUME NEW e \in 1 .. n + 1, commands'[c][e].pCommandBuffers # {}
          PROVE  commands'[c][e].type = "execute"
      <4>1. e # n + 1 BY <1>7, <3>2 DEF Command
      <4>2. e \in 1 .. n BY <1>6, <4>1
      <4>3. QED BY <1>7, <3>0, <3>2, <4>2 DEF Executes
    <3>3. \A i \in 1 .. Len(t \o m) : (t \o m)[i].cb \in {c} \cup ExecutedBy(c)
      BY <1>12, <3>0 DEF Executes
    <3>4. ExecutedBy(c)' = ExecutedBy(c) BY <1>7
    <3>5. Executes(c)'
      BY <1>1, <1>4, <1>7, <1>15, <3>1, <3>2, <3>3, <3>4 DEF Executes
    <3>6. Words(c)' BY <1>4, <1>15 DEF Words
    <3>7. Done(c)' BY <1>1, <1>4, <1>15 DEF Done
    <3>8. ASSUME NEW q \in Primaries \ {c}, Valid(q)'
          PROVE  ExecutedBy(c)' \cap ExecutedBy(q)' = {}
      <4>1. q \in CommandBuffers BY BufferDetails
      <4>2. Valid(q) /\ ExecutedBy(q)' = ExecutedBy(q)
        BY <1>3, <3>8, <4>1, SameExecuted DEF Beside, Valid
      <4>3. QED BY <1>0, <2>8, <3>0, <3>4, <4>2 DEF Apart
    <3>9. QED BY <3>5, <3>6, <3>7, <3>8
  <2>9. QED BY <1>3, <2>7, <2>8, ChangedDetails
<1>16. QED BY <1>14, <1>15

\* A step that records nothing and keeps or moves the drivers' states.
Unrecorded ==
  /\ UNCHANGED config
  /\ \A c \in CommandBuffers : SameRecording(c)

LEMMA ApartUnrecorded ==
  ASSUME Detailed, Unrecorded, \A p \in Primaries : Valid(p)' => Valid(p)
  PROVE  Apart'
<1>1. \A p \in Primaries : ExecutedBy(p)' = ExecutedBy(p)
  BY SameExecuted DEF Unrecorded, CommandBuffers
<1>2. Apart BY BufferDetails
<1>3. QED BY <1>1, <1>2 DEF Apart

\* A submission in flight has secondaries of its own.
LEMMA OtherSubmission ==
  ASSUME Detailed, NEW p \in Primaries, Valid(p), NEW q \in Primaries \ {p}, Valid(q)
  PROVE  /\ \A s \in ExecutedBy(q) : s \notin {p} \cup ExecutedBy(p) /\ s \in CommandBuffers
         /\ q \notin {p} \cup ExecutedBy(p)
<1>1. Apart /\ TypeOK BY BufferDetails
<1>2. ExecutedBy(p) \cap ExecutedBy(q) = {} BY <1>1 DEF Apart
<1>3. ExecutedBy(p) \subseteq Secondaries /\ ExecutedBy(q) \subseteq Secondaries
  BY <1>1, ExecutedAreSecondaries
<1>4. QED BY <1>2, <1>3, LevelAssumption DEF CommandBuffers

\* vkQueueSubmit, and its end.
LEMMA SubmitDetails ==
  ASSUME Detailed, UNCHANGED config, NEW p \in Primaries, NEW ok \in BOOLEAN, Submit(p, ok)
  PROVE  Details'
<1>0. TypeOK /\ p \in CommandBuffers /\ Executes(p) /\ drv[p] = "executable" /\ Valid(p)
  BY BufferDetails DEF Submit, Valid
<1>1. Unrecorded
  BY DEF Unrecorded, SameRecording, Submit, object
<1>2. \A c \in CommandBuffers : SameWords(c) BY DEF SameWords, Submit, markers
<1>3. /\ buffer_state'[p] = "kPending"
      /\ \A q \in Primaries \ {p} : buffer_state'[q] = buffer_state[q]
  BY <1>0 DEF Submit, TypeOK, CommandBuffers
<1>4. CASE ok = FALSE
  <2>1. "submit" \in Failures /\ drv' = drv /\ front' = front /\ back' = back
    BY <1>4 DEF Submit, gpu
  <2>2. ASSUME NEW c \in CommandBuffers PROVE Own(c)'
    <3>1. Own(c) /\ SameRecording(c) /\ SameWords(c) /\ UNCHANGED config
      BY <1>1, <1>2, BufferDetails DEF Unrecorded
    <3>2. QED BY <2>1, <3>1, OwnKept DEF Valid
  <2>3. ASSUME NEW q \in Primaries PROVE Executes(q)' /\ Words(q)' /\ Done(q)'
    <3>1. /\ q \in CommandBuffers /\ ExecutedBy(q) \subseteq CommandBuffers
          /\ Executes(q) /\ Words(q) /\ Done(q)
      BY <1>0, BufferDetails, ExecutedAreSecondaries DEF CommandBuffers
    <3>2. Executes(q)'
      <4>1. Valid(q)' => Valid(q) BY <2>1 DEF Valid
      <4>2. ASSUME Valid(q), NEW s \in ExecutedBy(q)
            PROVE  /\ SameRecording(s)
                   /\ drv'[s] = IF drv'[q] = "pending" THEN "pending" ELSE "executable"
        BY <1>1, <2>1, <3>1, <4>2 DEF Unrecorded, Executes
      <4>3. QED BY <1>1, <3>1, <4>1, <4>2, ExecutesKept DEF Unrecorded
    <3>3. Words(q)' BY <1>1, <1>2, <2>1, <3>1, WordsKept DEF Unrecorded
    <3>4. Done(q)'
      <4>1. NoSubmitFails' = NoSubmitFails /\ ~NoSubmitFails
        BY <2>1 DEF NoSubmitFails, Failures
      <4>2. drv'[q] = "pending" => buffer_state'[q] = "kPending"
        <5>1. CASE q = p BY <1>3, <5>1
        <5>2. CASE q # p BY <1>3, <2>1, <3>1, <5>2 DEF Done
        <5>3. QED BY <5>1, <5>2
      <4>3. QED BY <4>1, <4>2 DEF Done
    <3>5. QED BY <3>2, <3>3, <3>4
  <2>4. Apart' BY <1>1, <2>1, ApartUnrecorded DEF Valid
  <2>5. QED BY <2>2, <2>3, <2>4 DEF Details
<1>5. CASE ok = TRUE
  <2>1. /\ \A c \in CommandBuffers :
             drv'[c] = IF c \in {p} \cup ExecutedBy(p) THEN "pending" ELSE drv[c]
        /\ front'[p] = 0 /\ back'[p] = 0
        /\ \A q \in Primaries \ {p} : front'[q] = front[q] /\ back'[q] = back[q]
    BY <1>0, <1>5 DEF Submit, TypeOK
  <2>2. \A c \in {p} \cup ExecutedBy(p) : c \in CommandBuffers /\ drv[c] = "executable"
    BY <1>0, ExecutedAreReady
  <2>3. \A q \in Primaries : Valid(q)' => Valid(q)
    BY <2>1, <2>2 DEF Valid, CommandBuffers
  <2>4. ASSUME NEW c \in CommandBuffers PROVE Own(c)'
    <3>1. Own(c) /\ SameRecording(c) /\ SameWords(c) /\ UNCHANGED config
      BY <1>1, <1>2, BufferDetails DEF Unrecorded
    <3>2. \/ drv[c] = "executable" /\ drv'[c] = "pending"
          \/ drv'[c] = drv[c]
      BY <2>1, <2>2
    <3>3. QED BY <3>1, <3>2, OwnKept DEF Valid
  <2>5. Executes(p)' /\ Words(p)' /\ Done(p)'
    <3>1. SameRecording(p) /\ ExecutedBy(p)' = ExecutedBy(p) /\ drv'[p] = "pending"
      BY <1>0, <1>1, <2>1, SameExecuted DEF Unrecorded
    <3>2. Executes(p)'
      <4>1. \A s \in ExecutedBy(p) : SameRecording(s) /\ drv'[s] = "pending"
        BY <1>1, <2>1, <2>2 DEF Unrecorded
      <4>2. QED BY <1>0, <1>1, <3>1, <4>1, ExecutesKept DEF Unrecorded
    <3>3. Words(p)'
      <4>1. ASSUME NEW c \in {p} \cup ExecutedBy(p), has_buffer_marker'[c]
            PROVE  top'[c] = 0 /\ bottom'[c] = 0
        <5>1. c \in CommandBuffers /\ drv[c] = "executable" BY <2>2
        <5>2. has_buffer_marker[c] /\ SameWords(c)
          BY <1>1, <1>2, <4>1, <5>1 DEF Unrecorded, SameRecording
        <5>3. Clear(c) BY <5>1, <5>2, BufferDetails DEF Own
        <5>4. QED BY <5>2, <5>3 DEF Clear, SameWords
      <4>2. stream'[p] = stream[p] /\ Len(stream[p]) \in Nat
        BY <1>0, <3>1, BufferDetails, BufferTypes DEF SameRecording
      <4>3. \A t, c : \A i \in Of(t, c) : ~(i <= 0) BY DEF Of
      <4>4. QED BY <2>1, <3>1, <4>1, <4>2, <4>3 DEF Words, WordsOf, Latest
    <3>4. Done(p)' BY <1>3, <3>1 DEF Done
    <3>5. QED BY <3>2, <3>3, <3>4
  <2>6. ASSUME NEW q \in Primaries \ {p} PROVE Executes(q)' /\ Words(q)' /\ Done(q)'
    <3>1. q \in CommandBuffers /\ Executes(q) /\ Words(q) /\ Done(q)
      BY BufferDetails
    <3>2. Valid(q) => /\ q \notin {p} \cup ExecutedBy(p)
                      /\ \A s \in ExecutedBy(q) :
                           s \notin {p} \cup ExecutedBy(p) /\ s \in CommandBuffers
      BY <1>0, OtherSubmission
    <3>3. q \notin {p} \cup ExecutedBy(p)
      BY <1>0, ExecutedAreSecondaries, LevelAssumption
    <3>4. drv'[q] = drv[q] BY <2>1, <3>1, <3>3
    <3>5. Valid(q) => \A s \in ExecutedBy(q) :
                        SameRecording(s) /\ SameWords(s) /\ drv'[s] = drv[s]
      BY <1>1, <1>2, <2>1, <3>2 DEF Unrecorded
    <3>6. Executes(q)'
      <4>1. ASSUME Valid(q), NEW s \in ExecutedBy(q)
            PROVE  drv'[s] = IF drv'[q] = "pending" THEN "pending" ELSE "executable"
        BY <3>1, <3>4, <3>5, <4>1 DEF Executes
      <4>2. Valid(q)' => Valid(q) BY <2>3
      <4>3. QED BY <1>1, <3>1, <3>5, <4>1, <4>2, ExecutesKept DEF Unrecorded
    <3>7. Words(q)'
      <4>1. drv'[q] = "pending" => drv[q] = "pending" /\ Valid(q)
        BY <3>4 DEF Valid
      <4>2. SameRecording(q) /\ SameWords(q) BY <1>1, <1>2, <3>1 DEF Unrecorded
      <4>3. QED BY <2>1, <3>1, <3>5, <4>1, <4>2, WordsKept
    <3>8. Done(q)'
      <4>1. NoSubmitFails' = NoSubmitFails BY DEF NoSubmitFails, Failures
      <4>2. stream'[q] = stream[q] BY <1>1, <3>1 DEF Unrecorded, SameRecording
      <4>3. QED BY <1>3, <2>1, <3>1, <3>4, <4>1, <4>2 DEF Done
    <3>9. QED BY <3>6, <3>7, <3>8
  <2>7. Apart' BY <1>1, <2>3, ApartUnrecorded
  <2>8. QED BY <2>4, <2>5, <2>6, <2>7 DEF Details
<1>6. QED BY <1>4, <1>5

LEMMA FinishedDetails ==
  ASSUME Detailed, UNCHANGED config, NEW p \in Primaries, Finished(p)
  PROVE  Details'
<1>0. TypeOK /\ p \in CommandBuffers /\ drv[p] = "pending" /\ Valid(p) /\ OneTime
  BY BufferDetails DEF Finished, Valid, OneTimeAndShort
<1>1. Unrecorded
  BY DEF Unrecorded, SameRecording, Finished, object
<1>2. \A c \in CommandBuffers : SameWords(c) BY DEF SameWords, Finished, markers
<1>3. /\ buffer_state' = buffer_state /\ front' = front /\ back' = back
      /\ back[p] = Len(stream[p])
      /\ \A c \in CommandBuffers :
           drv'[c] = IF c \in {p} \cup ExecutedBy(p) THEN "invalid" ELSE drv[c]
  BY <1>0 DEF Finished, gpu
<1>4. \A q \in Primaries : Valid(q)' => Valid(q)
  BY <1>3 DEF Valid, CommandBuffers
<1>5. ASSUME NEW c \in CommandBuffers PROVE Own(c)'
  <2>1. Own(c) /\ SameRecording(c) /\ SameWords(c) /\ UNCHANGED config
    BY <1>1, <1>2, BufferDetails DEF Unrecorded
  <2>2. c \in {p} \cup ExecutedBy(p) => drv[c] = "pending"
    BY <1>0, ExecutedAreReady
  <2>3. \/ drv[c] = "pending" /\ drv'[c] = "invalid"
        \/ drv'[c] = drv[c]
    BY <1>3, <2>2
  <2>4. QED BY <2>1, <2>3, OwnKept DEF Valid
<1>6. NoSubmitFails' = NoSubmitFails BY DEF NoSubmitFails, Failures
<1>7. Executes(p)' /\ Words(p)' /\ Done(p)'
  <2>1. drv'[p] = "invalid" BY <1>0, <1>3
  <2>2. stream'[p] = stream[p] BY <1>0, <1>1 DEF Unrecorded, SameRecording
  <2>3. QED BY <1>3, <2>1, <2>2 DEF Executes, Words, Done, Valid
<1>8. ASSUME NEW q \in Primaries \ {p} PROVE Executes(q)' /\ Words(q)' /\ Done(q)'
  <2>1. q \in CommandBuffers /\ Executes(q) /\ Words(q) /\ Done(q)
    BY BufferDetails
  <2>2. Valid(q) => \A s \in ExecutedBy(q) :
                      s \notin {p} \cup ExecutedBy(p) /\ s \in CommandBuffers
    BY <1>0, OtherSubmission
  <2>3. q \notin {p} \cup ExecutedBy(p)
    BY <1>0, ExecutedAreSecondaries, LevelAssumption
  <2>4. drv'[q] = drv[q] BY <1>3, <2>1, <2>3
  <2>5. Valid(q) => \A s \in ExecutedBy(q) :
                      SameRecording(s) /\ SameWords(s) /\ drv'[s] = drv[s]
    BY <1>1, <1>2, <1>3, <2>2 DEF Unrecorded
  <2>6. Executes(q)'
    <3>1. ASSUME Valid(q), NEW s \in ExecutedBy(q)
          PROVE  drv'[s] = IF drv'[q] = "pending" THEN "pending" ELSE "executable"
      BY <2>1, <2>4, <2>5, <3>1 DEF Executes
    <3>2. Valid(q)' => Valid(q) BY <1>4
    <3>3. QED BY <1>1, <2>1, <2>5, <3>1, <3>2, ExecutesKept DEF Unrecorded
  <2>7. Words(q)'
    <3>1. drv'[q] = "pending" => drv[q] = "pending" /\ Valid(q)
      BY <2>4 DEF Valid
    <3>2. SameRecording(q) /\ SameWords(q) BY <1>1, <1>2, <2>1 DEF Unrecorded
    <3>3. QED BY <1>3, <2>1, <2>5, <3>1, <3>2, WordsKept
  <2>8. Done(q)'
    <3>1. stream'[q] = stream[q] BY <1>1, <2>1 DEF Unrecorded, SameRecording
    <3>2. QED BY <1>3, <1>6, <2>1, <2>4, <3>1 DEF Done
  <2>9. QED BY <2>6, <2>7, <2>8
<1>9. Apart' BY <1>1, <1>4, ApartUnrecorded
<1>10. QED BY <1>5, <1>7, <1>8, <1>9 DEF Details

\* The GPU performs the next operation of a stream.
LEMMA LatestAdvances ==
  ASSUME NEW t \in Seq(Op), NEW c, NEW first \in Nat, Sorted(t, c, first),
         NEW at \in {"top", "bottom"}, NEW n \in Nat, n < Len(t),
         NEW w, Latest(w, at, t, n, c)
  PROVE  LET op == t[n + 1] IN
         Latest(IF op.at = at /\ op.cb = c THEN op.value ELSE w, at, t, n + 1, c)
<1> DEFINE op == t[n + 1]
<1>0. Len(t) \in Nat OBVIOUS
<1>1. \A i \in Of(t, c) : /\ i \in 1 .. Len(t) /\ t[i] \in Op /\ t[i].cb = c
                          /\ t[i].value \in Nat
  <2> SUFFICES ASSUME NEW i \in Of(t, c)
               PROVE  i \in 1 .. Len(t) /\ t[i] \in Op /\ t[i].cb = c /\ t[i].value \in Nat
    OBVIOUS
  <2>1. i \in 1 .. Len(t) /\ t[i].cb = c BY DEF Of
  <2>2. t[i] \in Op BY <2>1, ElementOfSeq
  <2>3. QED BY <2>1, <2>2 DEF Op
<1>2. n + 1 \in 1 .. Len(t) BY <1>0
<1>3. /\ \A i \in Of(t, c) : i <= n /\ t[i].at = at => t[i].value <= w
      /\ w = 0 \/ \E i \in Of(t, c) : i <= n /\ t[i] = Write(at, c, w)
  BY DEF Latest
<1>4. CASE op.at = at /\ op.cb = c
  <2>1. n + 1 \in Of(t, c) /\ op \in Op BY <1>2, <1>4, ElementOfSeq DEF Of
  <2>2. op.value \in Nat /\ op = Write(at, c, op.value)
    BY <1>4, <2>1 DEF Op, Write
  <2>3. ASSUME NEW i \in Of(t, c), i <= n + 1, t[i].at = at
        PROVE  t[i].value <= op.value
    <3>1. CASE i = n + 1 BY <2>2, <3>1
    <3>2. CASE i < n + 1
      <4>1. Key(t[i], first) < Key(op, first) BY <2>1, <3>2 DEF Sorted
      <4>2. Rank(t[i]) = Rank(op) /\ Rank(op) \in Nat BY <1>4, <2>3 DEF Rank
      <4>3. IdOf(t[i], first) = t[i].value - first /\ IdOf(op, first) = op.value - first
        BY <1>4, <2>3 DEF IdOf
      <4>4. t[i].value \in Nat BY <1>1
      <4>5. /\ Key(t[i], first) = 3 * (t[i].value - first) + Rank(op)
            /\ Key(op, first) = 3 * (op.value - first) + Rank(op)
        BY <4>2, <4>3 DEF Key
      <4> HIDE DEF op
      <4>6. 3 * (t[i].value - first) + Rank(op) < 3 * (op.value - first) + Rank(op)
        BY ONLY <4>1, <4>5
      <4>7. first \in Nat /\ op.value \in Nat BY <2>2
      <4>8. QED BY ONLY <4>2, <4>4, <4>6, <4>7
    <3>3. i \in Nat BY <1>0, <1>1
    <3>4. QED BY <2>3, <3>1, <3>2, <3>3
  <2>4. QED BY <1>4, <2>1, <2>2, <2>3 DEF Latest
<1>5. CASE ~(op.at = at /\ op.cb = c)
  <2>1. ASSUME NEW i \in Of(t, c), i <= n + 1, t[i].at = at PROVE i <= n
    <3>1. i # n + 1 BY <1>1, <1>5, <2>1
    <3>2. i \in Nat BY <1>0, <1>1
    <3>3. QED BY <2>1, <3>1, <3>2
  <2>2. \A i \in Of(t, c) : i <= n => i <= n + 1 BY <1>0, <1>1
  <2>3. Latest(w, at, t, n + 1, c) BY <1>3, <2>1, <2>2 DEF Latest
  <2>4. QED BY <1>5, <2>3
<1>6. QED BY <1>4, <1>5

\* What GPUFetch and GPURetire do to a word.
Written(word, at, p, n) ==
  LET op == stream[p][n + 1]
  IN IF op.at = at THEN [word EXCEPT ![op.cb] = op.value] ELSE word

\* The words of a submission after one more of its operations.
LEMMA OwnWords ==
  ASSUME Detailed, NEW p \in Primaries, drv[p] = "pending",
         NEW c \in {p} \cup ExecutedBy(p), has_buffer_marker[c],
         NEW at \in {"top", "bottom"}, NEW n \in Nat, n < Len(stream[p]),
         NEW word \in [CommandBuffers -> Nat], Latest(word[c], at, stream[p], n, c)
  PROVE  Latest(Written(word, at, p, n)[c], at, stream[p], n + 1, c)
<1>1. TypeInv /\ p \in CommandBuffers /\ Own(p) /\ Executes(p) /\ Valid(p)
  BY BufferDetails DEF Valid
<1>2. c \in CommandBuffers BY <1>1, ExecutedAreReady
<1>3. stream[p] \in Seq(Op) /\ begin_marker_value[c] \in Nat /\ Len(stream[p]) \in Nat
  BY <1>1, <1>2, BufferTypes
<1>4. Laid(stream[p], c) BY <1>1 DEF Own, Executes
<1>5. Sorted(stream[p], c, begin_marker_value[c]) BY <1>4 DEF Laid, Layout
<1> DEFINE op == stream[p][n + 1]
<1>6. op.cb \in CommandBuffers
  <2>1. n + 1 \in 1 .. Len(stream[p]) BY <1>3
  <2>2. op \in Op BY <1>3, <2>1, ElementOfSeq
  <2>3. QED BY <2>2 DEF Op
<1>7. Written(word, at, p, n)[c] = IF op.at = at /\ op.cb = c THEN op.value ELSE word[c]
  BY <1>2, <1>6 DEF Written
<1>8. Latest(IF op.at = at /\ op.cb = c THEN op.value ELSE word[c], at, stream[p], n + 1, c)
  BY <1>3, <1>5, LatestAdvances
<1>9. QED BY <1>7, <1>8

\* The other words stay.
LEMMA OtherWords ==
  ASSUME Detailed, NEW p \in Primaries, drv[p] = "pending",
         NEW at \in {"top", "bottom"}, NEW n \in Nat, n < Len(stream[p]),
         NEW word \in [CommandBuffers -> Nat],
         NEW c \in CommandBuffers, c \notin {p} \cup ExecutedBy(p)
  PROVE  Written(word, at, p, n)[c] = word[c]
<1>1. TypeInv /\ p \in CommandBuffers /\ Executes(p) /\ Valid(p)
  BY BufferDetails DEF Valid
<1>2. Len(stream[p]) \in Nat BY <1>1, BufferTypes
<1>3. stream[p][n + 1].cb \in {p} \cup ExecutedBy(p)
  BY <1>1, <1>2 DEF Executes
<1>4. QED BY <1>3 DEF Written

LEMMA GPUDetails ==
  ASSUME Detailed, UNCHANGED config, NEW p \in Primaries, GPUFetch(p) \/ GPURetire(p)
  PROVE  Details'
<1>0. TypeInv /\ TypeOK /\ p \in CommandBuffers /\ Executes(p) /\ Words(p)
      /\ drv[p] = "pending" /\ Valid(p)
  BY BufferDetails DEF GPUFetch, GPURetire, Valid
<1>1. Unrecorded /\ drv' = drv /\ buffer_state' = buffer_state
  BY DEF Unrecorded, SameRecording, GPUFetch, GPURetire, object
<1>2. /\ top \in [CommandBuffers -> Nat] /\ bottom \in [CommandBuffers -> Nat]
      /\ front[p] \in Nat /\ back[p] \in Nat /\ Len(stream[p]) \in Nat
      /\ front \in [Primaries -> Nat] /\ back \in [Primaries -> Nat]
  <2>1. /\ top \in [CommandBuffers -> 0 .. Wrap - 1]
        /\ bottom \in [CommandBuffers -> 0 .. Wrap - 1]
        /\ front \in [Primaries -> Nat] /\ back \in [Primaries -> Nat]
    BY <1>0 DEF TypeOK
  <2>2. 0 .. Wrap - 1 \subseteq Nat BY WordSize
  <2>3. Len(stream[p]) \in Nat BY <1>0, BufferTypes
  <2>4. QED BY <2>1, <2>2, <2>3
<1>3. /\ back[p] <= front[p] /\ front[p] <= Len(stream[p])
      /\ \A c \in {p} \cup ExecutedBy(p) : WordsOf(p, c)
  BY <1>0 DEF Words
<1>4. \A q \in Primaries \ {p} : front'[q] = front[q] /\ back'[q] = back[q]
  BY <1>2 DEF GPUFetch, GPURetire
<1>5. \/ /\ front[p] < Len(stream[p]) /\ top' = Written(top, "top", p, front[p])
         /\ bottom' = bottom /\ front'[p] = front[p] + 1 /\ back'[p] = back[p]
      \/ /\ back[p] < front[p] /\ bottom' = Written(bottom, "bottom", p, back[p])
         /\ top' = top /\ back'[p] = back[p] + 1 /\ front'[p] = front[p]
  BY <1>2 DEF GPUFetch, GPURetire, Written
<1>6. \A c \in CommandBuffers : c \notin {p} \cup ExecutedBy(p) => SameWords(c)
  <2> SUFFICES ASSUME NEW c \in CommandBuffers, c \notin {p} \cup ExecutedBy(p)
               PROVE  top'[c] = top[c] /\ bottom'[c] = bottom[c]
    BY DEF SameWords
  <2>1. front[p] < Len(stream[p]) => Written(top, "top", p, front[p])[c] = top[c]
    BY <1>0, <1>2, OtherWords
  <2>2. ASSUME back[p] < front[p]
        PROVE  Written(bottom, "bottom", p, back[p])[c] = bottom[c]
    <3>1. back[p] < Len(stream[p]) BY <1>2, <1>3, <2>2
    <3>2. PICK at \in {"top", "bottom"} : at = "bottom" OBVIOUS
    <3>3. PICK n \in Nat, word \in [CommandBuffers -> Nat] : n = back[p] /\ word = bottom
      BY <1>2
    <3>4. n < Len(stream[p]) BY <3>1, <3>3
    <3>5. Written(word, at, p, n)[c] = word[c] BY <1>0, <3>4, OtherWords
    <3>6. QED BY <3>2, <3>3, <3>5
  <2>3. QED BY <1>5, <2>1, <2>2
<1>7. ASSUME NEW c \in CommandBuffers PROVE Own(c)'
  <2>1. Own(c) /\ SameRecording(c) /\ UNCHANGED config
    BY <1>1, BufferDetails DEF Unrecorded
  <2>2. c \in {p} \cup ExecutedBy(p) => drv[c] = "pending"
    BY <1>0, ExecutedAreReady
  <2>3. drv'[c] \in {"recording", "executable"} => SameWords(c)
    BY <1>1, <1>6, <2>2
  <2>4. QED BY <1>1, <2>1, <2>3, OwnKept DEF Valid
<1>8. ASSUME NEW q \in Primaries PROVE Executes(q)'
  <2>1. q \in CommandBuffers /\ Executes(q) BY BufferDetails
  <2>2. ASSUME Valid(q), NEW s \in ExecutedBy(q)
        PROVE  /\ SameRecording(s)
               /\ drv'[s] = IF drv'[q] = "pending" THEN "pending" ELSE "executable"
    <3>1. s \in CommandBuffers BY <2>2, ExecutedAreReady
    <3>2. QED BY <1>1, <2>1, <2>2, <3>1 DEF Unrecorded, Executes
  <2>3. Valid(q)' => Valid(q) BY <1>1 DEF Valid
  <2>4. QED BY <1>1, <2>1, <2>2, <2>3, ExecutesKept DEF Unrecorded
<1>9. ASSUME NEW q \in Primaries \ {p} PROVE Words(q)'
  <2>1. q \in CommandBuffers /\ Words(q) BY BufferDetails
  <2>2. Valid(q) => \A s \in ExecutedBy(q) :
                      s \notin {p} \cup ExecutedBy(p) /\ s \in CommandBuffers
    BY <1>0, OtherSubmission
  <2>3. q \notin {p} \cup ExecutedBy(p)
    BY <1>0, ExecutedAreSecondaries, LevelAssumption
  <2>4. Valid(q) => \A c \in {q} \cup ExecutedBy(q) : SameRecording(c) /\ SameWords(c)
    BY <1>1, <1>6, <2>1, <2>2, <2>3 DEF Unrecorded
  <2>5. drv'[q] = "pending" => drv[q] = "pending" /\ Valid(q) BY <1>1 DEF Valid
  <2>6. SameRecording(q) BY <1>1, <2>1 DEF Unrecorded
  <2>7. QED BY <1>4, <2>1, <2>4, <2>5, <2>6, WordsKept
<1>10. Words(p)'
  <2>1. ASSUME NEW c \in {p} \cup ExecutedBy(p), has_buffer_marker[c]
        PROVE  /\ Latest(top'[c], "top", stream[p], front'[p], c)
               /\ Latest(bottom'[c], "bottom", stream[p], back'[p], c)
    <3>1. /\ Latest(top[c], "top", stream[p], front[p], c)
          /\ Latest(bottom[c], "bottom", stream[p], back[p], c)
      BY <1>3, <2>1 DEF WordsOf
    <3>2. front[p] < Len(stream[p]) =>
            Latest(Written(top, "top", p, front[p])[c], "top", stream[p], front[p] + 1, c)
      BY <1>0, <1>2, <2>1, <3>1, OwnWords
    <3>3. back[p] < front[p] =>
            Latest(Written(bottom, "bottom", p, back[p])[c], "bottom", stream[p], back[p] + 1, c)
      <4>1. back[p] < front[p] => back[p] < Len(stream[p]) BY <1>2, <1>3
      <4>2. QED BY <1>0, <1>2, <2>1, <3>1, <4>1, OwnWords
    <3>4. QED BY <1>5, <3>1, <3>2, <3>3
  <2>2. back'[p] <= front'[p] /\ front'[p] <= Len(stream[p]) BY <1>2, <1>3, <1>5
  <2>3. SameRecording(p) BY <1>0, <1>1 DEF Unrecorded
  <2>4. ExecutedBy(p)' = ExecutedBy(p) BY <2>3, SameExecuted
  <2>5. \A c \in {p} \cup ExecutedBy(p) : has_buffer_marker'[c] = has_buffer_marker[c]
    <3>1. \A c \in {p} \cup ExecutedBy(p) : c \in CommandBuffers
      BY <1>0, ExecutedAreReady
    <3>2. QED BY <1>1, <3>1 DEF Unrecorded, SameRecording
  <2>6. stream'[p] = stream[p] BY <2>3 DEF SameRecording
  <2>7. QED BY <2>1, <2>2, <2>4, <2>5, <2>6 DEF Words, WordsOf
<1>11. ASSUME NEW q \in Primaries PROVE Done(q)'
  <2>1. q \in CommandBuffers /\ Done(q) BY BufferDetails
  <2>2. NoSubmitFails' = NoSubmitFails BY DEF NoSubmitFails, Failures
  <2>3. stream'[q] = stream[q] BY <1>1, <2>1 DEF Unrecorded, SameRecording
  <2>4. CASE q = p BY <1>0, <1>1, <2>1, <2>2, <2>4 DEF Done
  <2>5. CASE q # p BY <1>1, <1>4, <2>1, <2>2, <2>3, <2>5 DEF Done
  <2>6. QED BY <2>4, <2>5
<1>12. Apart' BY <1>1, ApartUnrecorded DEF Valid
<1>13. QED BY <1>7, <1>8, <1>9, <1>10, <1>11, <1>12 DEF Details

LEMMA InitDetails == Init /\ OneTimeAndShort => Detailed
<1> SUFFICES ASSUME Init, OneTimeAndShort PROVE Detailed
  OBVIOUS
<1>1. IInv BY InitInvariant
<1>2. ASSUME NEW c \in CommandBuffers
      PROVE  /\ drv[c] = "none" /\ buffer_state[c] = "kInitial"
             /\ commands[c] = <<>> /\ stream[c] = <<>>
  BY DEF Init
<1>3. ASSUME NEW c \in CommandBuffers PROVE Own(c) /\ ~Valid(c)
  BY <1>2 DEF Own, Valid, Numbered, Alone
<1>4. ASSUME NEW p \in Primaries PROVE Executes(p) /\ Words(p) /\ Done(p)
  BY <1>2, <1>3 DEF Executes, Words, Done, CommandBuffers
<1>5. Apart BY <1>3 DEF Apart, CommandBuffers
<1>6. QED BY <1>1, <1>3, <1>4, <1>5 DEF Detailed, Details

LEMMA StepDetails == Detailed /\ [Next]_vars => Detailed'
<1> SUFFICES ASSUME Detailed, [Next]_vars PROVE Details'
  BY StepInvariant DEF Detailed
<1>1. CASE UNCHANGED vars
  <2>1. Beside({})
    BY <1>1 DEF vars, object, markers, gpu, Beside, SameRecording, SameWords
  <2>2. QED BY <2>1, DroppedDetails
<1>2. CASE Next
  <2>1. UNCHANGED config BY <1>2 DEF Next
  <2>2. ASSUME NEW c \in CommandBuffers,
               \/ Allocate(c) \/ Free(c)
               \/ \E ok \in BOOLEAN : Begin(c, ok) \/ End(c, ok)
               \/ \E type \in {"instrumented", "plain"} : Record(c, type)
        PROVE  Details'
    BY <2>1, <2>2, AllocateDetails, FreeDetails, BeginDetails, EndDetails,
       RecordDetails
  <2>3. ASSUME NEW c \in CommandBuffers, Reset({c}) PROVE Details'
    BY <2>1, <2>3, ResetDetails
  <2>4. Reset(CommandBuffers) => Details' BY <2>1, ResetDetails
  <2>5. ASSUME NEW p \in Primaries,
               \/ \E s \in Secondaries : ExecuteCommands(p, s)
               \/ \E ok \in BOOLEAN : Submit(p, ok)
               \/ GPUFetch(p) \/ GPURetire(p) \/ Finished(p)
        PROVE  Details'
    BY <2>1, <2>5, ExecuteDetails, SubmitDetails, GPUDetails, FinishedDetails
  <2>6. QED BY <1>2, <2>2, <2>3, <2>4, <2>5 DEF Next
<1>3. QED BY <1>1, <1>2

LEMMA DetailedInvariant == Spec /\ OneTimeAndShort => []Detailed
BY InitDetails, StepDetails, PTL DEF Spec

-----------------------------------------------------------------------------
(* What the words of a submission in flight say of its operations.         *)

\* A buffer with markers in a submission in flight.
InSubmission(p, c) ==
  drv[p] = "pending" /\ c \in {p} \cup ExecutedBy(p) /\ has_buffer_marker[c]

LEMMA SubmissionFacts ==
  ASSUME Detailed, NEW p \in Primaries, NEW c, InSubmission(p, c)
  PROVE  /\ c \in CommandBuffers
         /\ stream[p] \in Seq(Op) /\ Len(stream[p]) \in Nat
         /\ begin_marker_value[c] \in Nat /\ begin_marker_value[c] # 0
         /\ Sorted(stream[p], c, begin_marker_value[c])
         /\ Known(stream[p], c, begin_marker_value[c], Len(commands[c]))
         /\ Preceded(stream[p], c, begin_marker_value[c], Traced(c))
         /\ Latest(top[c], "top", stream[p], front[p], c)
         /\ Latest(bottom[c], "bottom", stream[p], back[p], c)
         /\ front[p] \in Nat /\ back[p] \in Nat /\ back[p] <= front[p]
<1>1. /\ TypeInv /\ TypeOK /\ p \in CommandBuffers /\ Own(p) /\ Executes(p) /\ Words(p)
      /\ Valid(p) /\ drv[p] = "pending" /\ c \in {p} \cup ExecutedBy(p)
      /\ has_buffer_marker[c]
  BY BufferDetails DEF Valid, InSubmission
<1>2. c \in CommandBuffers BY <1>1, ExecutedAreReady
<1>3. /\ stream[p] \in Seq(Op) /\ Len(stream[p]) \in Nat /\ begin_marker_value[c] \in Nat
  BY <1>1, <1>2, BufferTypes
<1>4. begin_marker_value[c] # 0 BY <1>1, <1>2 DEF TypeOK
<1>5. Laid(stream[p], c) BY <1>1 DEF Own, Executes
<1>6. WordsOf(p, c) /\ back[p] <= front[p] BY <1>1 DEF Words
<1>7. front[p] \in Nat /\ back[p] \in Nat BY <1>1 DEF TypeOK
<1>8. QED BY <1>1, <1>2, <1>3, <1>4, <1>5, <1>6, <1>7 DEF Laid, Layout, WordsOf

\* The difference of a word and the begin marker is a command's id.
OfCommand(p, c, at, n, word) ==
  /\ word \in Nat /\ word - begin_marker_value[c] \in 1 .. LowRange - 1
  /\ Distance(c, word) = word - begin_marker_value[c]
  /\ \E i \in Of(stream[p], c) : i <= n /\ stream[p][i] = Write(at, c, word)

LEMMA WordIsOfCommand ==
  ASSUME Detailed, NEW p \in Primaries, NEW c, InSubmission(p, c),
         NEW at \in {"top", "bottom"}, NEW n, NEW word,
         Latest(word, at, stream[p], n, c), word # 0
  PROVE  OfCommand(p, c, at, n, word)
<1> DEFINE t == stream[p]
           first == begin_marker_value[c]
<1>1. /\ t \in Seq(Op) /\ first \in Nat
      /\ Known(t, c, first, Len(commands[c]))
  BY SubmissionFacts
<1>2. PICK i \in Of(t, c) : i <= n /\ t[i] = Write(at, c, word) BY DEF Latest
<1>3. t[i] \in Op BY <1>1, <1>2, ElementOfSeq DEF Of
<1>4. word \in Nat /\ IdOf(t[i], first) = word - first
  <2>1. t[i].value = word /\ t[i].at # "run" BY <1>2 DEF Write
  <2>2. QED BY <1>3, <2>1 DEF Op, IdOf
<1>5. 1 <= word - first /\ word - first < LowRange BY <1>1, <1>4 DEF Known
<1>6. LowRange \in Nat /\ Wrap \in Nat \ {0} /\ LowRange <= Wrap
  BY WordSize, RangeAssumption
<1> DEFINE d == word - first
<1> HIDE DEF first
<1>7. d \in 1 .. LowRange - 1 /\ d \in 0 .. Wrap - 1 BY <1>1, <1>4, <1>5, <1>6
<1>8. Distance(c, word) = d
  <2>1. Distance(c, word) = d % Wrap BY DEF Distance, first
  <2> HIDE DEF d
  <2>2. d % Wrap = d BY <1>6, <1>7, SmallMod
  <2>3. QED BY <2>1, <2>2
<1>9. QED BY <1>2, <1>4, <1>7, <1>8 DEF OfCommand, first

\* What GetLastCompleteCommand covers has retired, once the begin marker has.
LEMMA CompleteIsRetired ==
  ASSUME Detailed, NEW p \in Primaries, NEW c, InSubmission(p, c), bottom[c] # 0,
         NEW k \in Of(stream[p], c),
         \/ CompletedExecution(c)
         \/ IdOf(stream[p][k], begin_marker_value[c]) <= GetLastCompleteCommand(c)
  PROVE  k <= back[p]
<1> DEFINE t == stream[p]
           first == begin_marker_value[c]
<1>1. /\ t \in Seq(Op) /\ Len(t) \in Nat /\ first \in Nat
      /\ Sorted(t, c, first) /\ Known(t, c, first, Len(commands[c]))
      /\ Latest(bottom[c], "bottom", t, back[p], c) /\ back[p] \in Nat
  BY SubmissionFacts
<1>2. /\ bottom[c] \in Nat /\ bottom[c] - first \in 1 .. LowRange - 1
      /\ Distance(c, bottom[c]) = bottom[c] - first
      /\ \E i \in Of(t, c) : i <= back[p] /\ t[i] = Write("bottom", c, bottom[c])
  <2>1. PICK at \in {"top", "bottom"}, n \in Nat, word \in Nat :
          at = "bottom" /\ n = back[p] /\ word = bottom[c]
    <3>1. c \in CommandBuffers BY SubmissionFacts
    <3>2. bottom[c] \in Nat BY <3>1, BufferDetails, BufferTypes
    <3>3. QED BY <1>1, <3>2
  <2>2. Latest(word, at, t, n, c) /\ word # 0 BY <1>1, <2>1
  <2>3. OfCommand(p, c, at, n, word) BY <2>2, WordIsOfCommand
  <2>4. QED BY <2>1, <2>3 DEF OfCommand
<1>3. PICK i \in Of(t, c) : i <= back[p] /\ t[i] = Write("bottom", c, bottom[c])
  BY <1>2
<1>4. /\ i \in 1 .. Len(t) /\ k \in 1 .. Len(t) /\ t[k] \in Op
  BY <1>1, ElementOfSeq DEF Of
<1>5. Key(t[i], first) = 3 * (bottom[c] - first) + 2
  BY <1>3 DEF Key, IdOf, Rank, Write
<1> HIDE DEF t, first
<1>6. IdOf(t[k], first) \in Int /\ Rank(t[k]) \in 0 .. 2 BY <1>1, <1>4, OpTyped
<1>7. IdOf(t[k], first) <= bottom[c] - first
  <2>1. CASE CompletedExecution(c)
    <3>1. bottom[c] = first + (LowRange - 1)
      BY <2>1 DEF CompletedExecution, end_marker_value, first
    <3>2. IdOf(t[k], first) < LowRange
      <4>1. k \in Of(t, c) BY DEF t
      <4>2. QED BY <1>1, <4>1 DEF Known
    <3>3. LowRange \in Nat BY RangeAssumption
    <3>4. QED BY ONLY <1>1, <1>6, <3>1, <3>2, <3>3
  <2>2. CASE ~CompletedExecution(c)
    <3>1. GetLastCompleteCommand(c) = bottom[c] - first
      BY <1>2, <2>2 DEF GetLastCompleteCommand
    <3>2. QED BY <2>2, <3>1 DEF t, first
  <2>3. QED BY <2>1, <2>2
<1>8. Key(t[k], first) = 3 * IdOf(t[k], first) + Rank(t[k]) BY DEF Key
<1>9. ~(Key(t[i], first) < Key(t[k], first))
  BY <1>1, <1>2, <1>5, <1>6, <1>7, <1>8
<1>10. ~(i < k) BY <1>1, <1>3, <1>9 DEF Sorted, t
<1>11. QED BY <1>1, <1>3, <1>4, <1>10

\* What the GPU has fetched is covered by GetLastStartedCommand.
LEMMA FetchedIsStarted ==
  ASSUME Detailed, NEW p \in Primaries, NEW c, InSubmission(p, c),
         NEW id \in Nat \ {0}, NEW j \in 1 .. Len(stream[p]), j <= front[p],
         stream[p][j] = Write("top", c, begin_marker_value[c] + id)
  PROVE  StartedExecution(c) /\ id <= GetLastStartedCommand(c)
<1> DEFINE first == begin_marker_value[c]
<1>1. /\ first \in Nat /\ Latest(top[c], "top", stream[p], front[p], c)
      /\ c \in CommandBuffers
  BY SubmissionFacts
<1>2. top[c] \in Nat BY <1>1, BufferDetails, BufferTypes
<1>3. /\ j \in Of(stream[p], c) /\ stream[p][j].at = "top"
      /\ stream[p][j].value = first + id
  BY DEF Of, Write
<1>4. first + id <= top[c] BY <1>1, <1>3 DEF Latest
<1>5. top[c] # 0 BY <1>1, <1>2, <1>4
<1>6. Distance(c, top[c]) = top[c] - first
  <2>1. PICK at \in {"top", "bottom"}, n \in Nat, word \in Nat :
          at = "top" /\ n = front[p] /\ word = top[c]
    <3>1. front[p] \in Nat BY SubmissionFacts
    <3>2. QED BY <1>2, <3>1
  <2>2. Latest(word, at, stream[p], n, c) /\ word # 0 BY <1>1, <1>5, <2>1
  <2>3. OfCommand(p, c, at, n, word) BY <2>2, WordIsOfCommand
  <2>4. QED BY <2>1, <2>3 DEF OfCommand
<1>7. GetLastStartedCommand(c) = top[c] - first
  BY <1>6 DEF GetLastStartedCommand
<1> HIDE DEF first
<1>8. id <= top[c] - first /\ top[c] >= first BY <1>1, <1>2, <1>4
<1>9. QED BY <1>7, <1>8 DEF StartedExecution, first

\* In particular the commands that write markers.
LEMMA FetchedRunIsStarted ==
  ASSUME Detailed, NEW p \in Primaries, NEW c, InSubmission(p, c), NEW id \in Traced(c),
         NEW i \in 1 .. Len(stream[p]), i <= front[p], stream[p][i] = Write("run", c, id)
  PROVE  StartedExecution(c) /\ id <= GetLastStartedCommand(c)
<1>1. /\ Preceded(stream[p], c, begin_marker_value[c], Traced(c))
      /\ Len(stream[p]) \in Nat /\ front[p] \in Nat
  BY SubmissionFacts
<1>2. i \in Of(stream[p], c) /\ stream[p][i].at = "run" /\ stream[p][i].value = id
  BY DEF Of, Write
<1>3. PICK j \in 1 .. i : stream[p][j] = Write("top", c, begin_marker_value[c] + id)
  BY <1>1, <1>2 DEF Preceded
<1>4. j \in 1 .. Len(stream[p]) /\ j <= front[p] BY <1>1
<1>5. id \in Nat \ {0} BY DEF Traced
<1>6. QED BY <1>3, <1>4, <1>5, FetchedIsStarted

\* A bottom marker of a secondary retires after the primary's begin marker.
LEMMA BeginRetiresFirst ==
  ASSUME Detailed, NEW p \in Primaries, NEW s \in ExecutedBy(p), InSubmission(p, s),
         has_buffer_marker[p], bottom[s] # 0
  PROVE  bottom[p] # 0
<1> DEFINE t == stream[p]
<1>1. /\ TypeInv /\ TypeOK /\ p \in CommandBuffers /\ Own(p) /\ Executes(p) /\ Valid(p)
      /\ InSubmission(p, p)
  BY BufferDetails DEF InSubmission, Valid
<1>2. /\ Len(t) \in Nat /\ back[p] \in Nat
      /\ Latest(bottom[s], "bottom", t, back[p], s)
      /\ Latest(bottom[p], "bottom", t, back[p], p)
  BY <1>1, SubmissionFacts
<1>3. PICK i \in Of(t, s) : i <= back[p] BY <1>2 DEF Latest
<1>4. 2 <= Len(t) /\ t[2] = Write("bottom", p, begin_marker_value[p] + 1)
  BY <1>1 DEF Own
<1>5. s # p BY <1>1, ExecutedAreSecondaries
<1>6. PICK e \in 1 .. Len(commands[p]) : s \in commands[p][e].pCommandBuffers
  BY <1>1, ExecutedAreSecondaries
<1>7. Inside(t, s, p, begin_marker_value[p] + e)
  BY <1>1, <1>6 DEF Executes, Enclosed
<1>8. PICK j \in 1 .. Len(t) : j < i BY <1>3, <1>7 DEF Inside
<1>9. t[2].cb = p /\ t[2].at = "bottom" /\ t[2].value = begin_marker_value[p] + 1
  BY <1>4 DEF Write
<1>10. i \in 1 .. Len(t) /\ i # 2 BY <1>3, <1>5, <1>9 DEF Of
<1>11. 2 \in 1 .. Len(t) /\ 2 <= back[p] BY <1>2, <1>3, <1>4, <1>8, <1>10
<1>12. 2 \in Of(t, p) BY <1>9, <1>11 DEF Of
<1>13. begin_marker_value[p] + 1 <= bottom[p]
  BY <1>2, <1>9, <1>11, <1>12 DEF Latest
<1>14. begin_marker_value[p] \in Nat /\ bottom[p] \in Nat BY <1>1, BufferTypes
<1>15. QED BY <1>13, <1>14

-----------------------------------------------------------------------------
(* The lines of a dump.                                                    *)

\* ByMarkers, spelled out.
LEMMA ByMarkersIs ==
  ASSUME Detailed, NEW c \in CommandBuffers, NEW id \in Nat
  PROVE  ByMarkers(c, id) = IF ~(id <= GetLastStartedCommand(c)) THEN "NOT_STARTED"
                            ELSE IF id <= GetLastCompleteCommand(c) THEN "COMPLETED"
                            ELSE "INCOMPLETE"
<1>1. top[c] \in Nat /\ begin_marker_value[c] \in Nat
  BY BufferDetails, BufferTypes
<1>2. Wrap \in Nat \ {0} BY WordSize, RangeAssumption
<1>3. GetLastStartedCommand(c) \in Int
  BY <1>1, <1>2 DEF GetLastStartedCommand, Distance
<1>4. id > GetLastStartedCommand(c) <=> ~(id <= GetLastStartedCommand(c))
  BY <1>3
<1>5. QED BY <1>4 DEF ByMarkers

\* A line of Printed is about one command.
LineOf(line, c, cb_state) ==
  /\ line.cb = c
  /\ line.id \in 1 .. Len(commands[c])
  /\ line.type = commands[c][line.id].type
  /\ line.executes = commands[c][line.id].pCommandBuffers
  /\ line.state = GetCommandState(c, cb_state, commands[c][line.id])

LEMMA PrintedLine ==
  ASSUME NEW c, Numbered(c), NEW cb_state, NEW line \in Printed(c, cb_state)
  PROVE  LineOf(line, c, cb_state)
<1>1. PICK cmd \in Elements(commands[c]) :
        line = [cb |-> c, id |-> cmd.id, type |-> cmd.type,
                executes |-> cmd.pCommandBuffers,
                state |-> GetCommandState(c, cb_state, cmd)]
  BY DEF Printed
<1>2. PICK k \in 1 .. Len(commands[c]) : cmd = commands[c][k] BY DEF Elements
<1>3. cmd.id = k BY <1>2 DEF Numbered
<1>4. QED BY <1>1, <1>2, <1>3 DEF LineOf

\* GetCommandState of a primary and of a secondary, spelled out.
LEMMA PrimaryState ==
  ASSUME NEW p \in Primaries, NEW cb_state, NEW cmd
  PROVE  GetCommandState(p, cb_state, cmd) =
           IF ~WasSubmittedToQueue(p) THEN "NOT_SUBMITTED"
           ELSE IF has_buffer_marker[p] THEN ByMarkers(p, cmd.id) ELSE "PENDING"
<1>1. p \notin Secondaries BY LevelAssumption
<1>2. QED BY <1>1 DEF GetCommandState

LEMMA SecondaryState ==
  ASSUME NEW s \in Secondaries, NEW cb_state, NEW cmd
  PROVE  GetCommandState(s, cb_state, cmd) =
           IF ~has_buffer_marker[s] THEN "PENDING"
           ELSE IF cb_state = "kNotSubmitted" THEN "NOT_SUBMITTED"
           ELSE IF cb_state = NotStarted THEN "NOT_STARTED"
           ELSE IF cb_state = Completed THEN "COMPLETED"
           ELSE ByMarkers(s, cmd.id)
<1>1. s \notin Primaries BY LevelAssumption
<1>2. QED BY <1>1 DEF GetCommandState, NotStarted, Completed

\* What a dump says of command id of a secondary whose vkCmdExecuteCommands
\* is reported in the state executed.
SecondaryReport(s, id, executed) ==
  IF ~has_buffer_marker[s] THEN "PENDING"
  ELSE IF executed = "NOT_SUBMITTED" THEN "NOT_SUBMITTED"
  ELSE IF executed = "NOT_STARTED" THEN "NOT_STARTED"
  ELSE IF executed = "COMPLETED" THEN "COMPLETED"
  ELSE IF ~StartedExecution(s) THEN "NOT_STARTED"
  ELSE IF CompletedExecution(s) THEN "COMPLETED"
  ELSE ByMarkers(s, id)

LEMMA SecondaryReportIs ==
  ASSUME NEW s \in Secondaries, NEW executed, NEW cmd
  PROVE  GetCommandState(s, GetSecondaryCommandBufferState(s, executed), cmd)
           = SecondaryReport(s, cmd.id, executed)
<1> DEFINE state == GetSecondaryCommandBufferState(s, executed)
<1>1. s \notin Primaries BY LevelAssumption
<1>2. has_buffer_marker[s] =>
        GetCommandBufferState(s) = IF ~StartedExecution(s) THEN NotStarted
                                   ELSE IF ~CompletedExecution(s) THEN Incomplete
                                   ELSE Completed
  BY <1>1 DEF GetCommandBufferState
<1>3. state = IF executed = "NOT_SUBMITTED" THEN "kNotSubmitted"
              ELSE IF executed = "NOT_STARTED" THEN NotStarted
              ELSE IF executed = "COMPLETED" THEN Completed
              ELSE GetCommandBufferState(s)
  BY DEF GetSecondaryCommandBufferState
<1> HIDE DEF state
<1>4. GetCommandState(s, state, cmd) =
           IF ~has_buffer_marker[s] THEN "PENDING"
           ELSE IF state = "kNotSubmitted" THEN "NOT_SUBMITTED"
           ELSE IF state = NotStarted THEN "NOT_STARTED"
           ELSE IF state = Completed THEN "COMPLETED"
           ELSE ByMarkers(s, cmd.id)
  BY SecondaryState
<1>5. QED
  BY <1>2, <1>3, <1>4 DEF SecondaryReport, NotStarted, Incomplete, Completed,
     state

\* What a line of the dump of a primary says.
ExecutedAs(p, e) ==
  IF ~WasSubmittedToQueue(p) THEN "NOT_SUBMITTED"
  ELSE IF has_buffer_marker[p] THEN ByMarkers(p, e) ELSE "PENDING"

OwnLine(p, line) ==
  /\ line.cb = p
  /\ line.state = ExecutedAs(p, line.id)

SecondaryLine(p, line) ==
  /\ line.cb \in ExecutedBy(p) /\ line.cb \in Secondaries
  /\ \E e \in 1 .. Len(commands[p]) :
       /\ line.cb \in commands[p][e].pCommandBuffers
       /\ line.state = SecondaryReport(line.cb, line.id, ExecutedAs(p, e))

LEMMA LinesAre ==
  ASSUME Detailed, NEW p \in Primaries, NEW line \in Lines(p)
  PROVE  /\ line.cb \in CommandBuffers
         /\ line.id \in 1 .. Len(commands[line.cb])
         /\ line.type = commands[line.cb][line.id].type
         /\ OwnLine(p, line) \/ SecondaryLine(p, line)
<1>1. /\ TypeOK /\ p \in CommandBuffers /\ Numbered(p)
      /\ \A c \in CommandBuffers : Numbered(c)
  BY BufferDetails DEF Own
<1> DEFINE own == Printed(p, GetCommandBufferState(p))
<1>2. ASSUME NEW l \in own
      PROVE  /\ l.cb = p /\ l.id \in 1 .. Len(commands[p])
             /\ l.type = commands[p][l.id].type
             /\ l.executes = commands[p][l.id].pCommandBuffers
             /\ l.state = ExecutedAs(p, l.id)
  <2>1. LineOf(l, p, GetCommandBufferState(p)) BY <1>1, PrintedLine
  <2>2. commands[p][l.id].id = l.id BY <1>1, <2>1 DEF LineOf, Numbered
  <2>3. GetCommandState(p, GetCommandBufferState(p), commands[p][l.id])
          = ExecutedAs(p, l.id)
    BY <2>2, PrimaryState DEF ExecutedAs
  <2>4. QED BY <2>1, <2>3 DEF LineOf
<1>3. CASE line \in own
  <2> HIDE DEF own
  <2>1. /\ line.cb = p /\ line.id \in 1 .. Len(commands[p])
        /\ line.type = commands[p][line.id].type
        /\ line.state = ExecutedAs(p, line.id)
    BY <1>2, <1>3
  <2>2. QED BY <1>1, <2>1 DEF OwnLine
<1>4. CASE line \notin own
  <2>0. PICK l \in own : \E s \in l.executes :
          line \in Printed(s, GetSecondaryCommandBufferState(s, l.state))
    BY <1>4 DEF Lines
  <2>1. PICK s \in l.executes :
          line \in Printed(s, GetSecondaryCommandBufferState(s, l.state))
    BY <2>0
  <2> HIDE DEF own
  <2>2. /\ l.id \in 1 .. Len(commands[p]) /\ s \in commands[p][l.id].pCommandBuffers
        /\ l.state = ExecutedAs(p, l.id)
    BY <1>2, <2>1
  <2>3. s \in ExecutedBy(p) /\ s \in Secondaries /\ s \in CommandBuffers
    BY <1>1, <2>2, ExecutedAreSecondaries DEF CommandBuffers
  <2>4. LineOf(line, s, GetSecondaryCommandBufferState(s, l.state))
    BY <1>1, <2>1, <2>3, PrintedLine
  <2>5. line.cb = s /\ line.id \in 1 .. Len(commands[s])
        /\ line.type = commands[s][line.id].type
    BY <2>4 DEF LineOf
  <2>6. commands[s][line.id].id = line.id BY <1>1, <2>3, <2>5 DEF Numbered
  <2>7. line.state = SecondaryReport(s, line.id, l.state)
    BY <2>3, <2>4, <2>5, <2>6, SecondaryReportIs DEF LineOf
  <2>8. SecondaryLine(p, line) BY <2>2, <2>3, <2>5, <2>7 DEF SecondaryLine
  <2>9. QED BY <2>3, <2>5, <2>8
<1>5. QED BY <1>3, <1>4

\* The place of a reported command in the stream.
Ran(p, line, i) ==
  i \in 1 .. Len(stream[p]) /\ stream[p][i] = Write("run", line.cb, line.id)

\* A line about a submission in flight.
LEMMA LineFacts ==
  ASSUME Detailed, NEW p \in Primaries, drv[p] = "pending",
         NEW line \in Lines(p), has_buffer_marker[line.cb]
  PROVE  /\ InSubmission(p, line.cb) /\ line.cb \in CommandBuffers
         /\ line.id \in Nat \ {0} /\ WasSubmittedToQueue(p)
         /\ Instrumented(line.type) => line.id \in Traced(line.cb)
         /\ OwnLine(p, line) \/ SecondaryLine(p, line)
         /\ front[p] \in Nat /\ back[p] \in Nat /\ Len(stream[p]) \in Nat
         /\ \A i : Ran(p, line, i) =>
                     /\ i \in Of(stream[p], line.cb)
                     /\ IdOf(stream[p][i], begin_marker_value[line.cb]) = line.id
<1>1. /\ line.cb \in CommandBuffers
      /\ line.id \in 1 .. Len(commands[line.cb])
      /\ line.type = commands[line.cb][line.id].type
      /\ OwnLine(p, line) \/ SecondaryLine(p, line)
  BY LinesAre
<1>2. InSubmission(p, line.cb)
  BY <1>1 DEF InSubmission, OwnLine, SecondaryLine
<1>3. line.id \in Nat \ {0} BY <1>1
<1>4. WasSubmittedToQueue(p) BY BufferDetails DEF Done, WasSubmittedToQueue
<1>5. Instrumented(line.type) => line.id \in Traced(line.cb) BY <1>1 DEF Traced
<1>6. front[p] \in Nat /\ back[p] \in Nat /\ Len(stream[p]) \in Nat
  BY <1>2, SubmissionFacts
<1>7. ASSUME NEW i, Ran(p, line, i)
      PROVE  /\ i \in Of(stream[p], line.cb)
             /\ IdOf(stream[p][i], begin_marker_value[line.cb]) = line.id
  BY <1>7 DEF Ran, Of, IdOf, Write
<1>8. QED BY <1>1, <1>2, <1>3, <1>4, <1>5, <1>6, <1>7

\* The markers around a secondary's commands, and what they say of the
\* vkCmdExecuteCommands.
LEMMA AroundSecondary ==
  ASSUME Detailed, NEW p \in Primaries, NEW s \in ExecutedBy(p), InSubmission(p, s),
         has_buffer_marker[p], NEW e \in 1 .. Len(commands[p]),
         s \in commands[p][e].pCommandBuffers, NEW i \in Of(stream[p], s)
  PROVE  /\ i <= front[p] => e <= GetLastStartedCommand(p)
         /\ bottom[s] # 0 /\ e <= GetLastCompleteCommand(p) => i <= back[p]
<1> DEFINE t == stream[p]
           first == begin_marker_value[p]
<1>1. /\ TypeInv /\ TypeOK /\ p \in CommandBuffers /\ Executes(p) /\ Valid(p)
      /\ InSubmission(p, p)
  BY BufferDetails DEF InSubmission, Valid
<1>2. /\ Len(t) \in Nat /\ back[p] \in Nat /\ front[p] \in Nat /\ first \in Nat
  BY <1>1, SubmissionFacts
<1>3. PICK j, k \in 1 .. Len(t) :
        /\ t[j] = Write("top", p, first + e) /\ t[k] = Write("bottom", p, first + e)
        /\ j < i /\ i < k
  BY <1>1 DEF Executes, Enclosed, Inside
<1>4. e \in Nat \ {0} OBVIOUS
<1>5. i \in 1 .. Len(t) BY DEF Of
<1>6. ASSUME i <= front[p] PROVE e <= GetLastStartedCommand(p)
  <2>1. j <= front[p] BY <1>2, <1>3, <1>5, <1>6
  <2>2. QED BY <1>1, <1>3, <1>4, <2>1, FetchedIsStarted
<1>7. ASSUME bottom[s] # 0, e <= GetLastCompleteCommand(p) PROVE i <= back[p]
  <2>1. bottom[p] # 0 BY <1>7, BeginRetiresFirst
  <2>2. k \in Of(t, p) BY <1>3 DEF Of, Write
  <2>3. IdOf(t[k], first) = t[k].value - first /\ t[k].value = first + e
    BY <1>3 DEF IdOf, Write
  <2>4. IdOf(t[k], first) = e BY <1>2, <1>4, <2>3
  <2>5. k <= back[p] BY <1>1, <1>7, <2>1, <2>2, <2>4, CompleteIsRetired
  <2>6. QED BY <1>2, <1>3, <1>5, <2>5
<1>8. QED BY <1>6, <1>7

-----------------------------------------------------------------------------
(* The reports about single commands.                                      *)

LEMMA NotStartedAreTrue == Detailed => InstrumentedNotStartedReportsAreTrue
<1> SUFFICES ASSUME Detailed, NEW p \in Primaries, NEW line \in Lines(p),
                    drv[p] = "pending", line.state = "NOT_STARTED",
                    Instrumented(line.type), NEW i \in Places(p, line)
             PROVE  i > front[p]
  BY DEF InstrumentedNotStartedReportsAreTrue, Dumped
<1>1. Ran(p, line, i) BY DEF Places, Ran
<1> DEFINE c == line.cb
<1>2. OwnLine(p, line) \/ SecondaryLine(p, line) BY LinesAre
<1>3. has_buffer_marker[c]
  <2>1. WasSubmittedToQueue(p) BY BufferDetails DEF Done, WasSubmittedToQueue
  <2>2. QED
    BY <1>2, <2>1 DEF OwnLine, SecondaryLine, ExecutedAs, SecondaryReport
<1>4. /\ InSubmission(p, c) /\ c \in CommandBuffers /\ WasSubmittedToQueue(p)
      /\ line.id \in Nat \ {0} /\ line.id \in Traced(c)
      /\ i \in Of(stream[p], c) /\ front[p] \in Nat
  BY <1>1, <1>3, LineFacts
<1>5. i \in 1 .. Len(stream[p]) /\ stream[p][i] = Write("run", c, line.id)
  BY <1>1 DEF Ran
<1> HIDE DEF c
<1> SUFFICES ASSUME i <= front[p] PROVE FALSE
  BY <1>4, <1>5
<1>6. StartedExecution(c) /\ line.id <= GetLastStartedCommand(c)
  BY <1>4, <1>5, FetchedRunIsStarted
<1>7. ByMarkers(c, line.id) # "NOT_STARTED" BY <1>4, <1>6, ByMarkersIs
<1>8. CASE OwnLine(p, line)
  BY <1>3, <1>4, <1>7, <1>8 DEF OwnLine, ExecutedAs, c
<1>9. CASE SecondaryLine(p, line)
  <2>1. PICK e \in 1 .. Len(commands[p]) :
          /\ c \in commands[p][e].pCommandBuffers
          /\ line.state = SecondaryReport(c, line.id, ExecutedAs(p, e))
    BY <1>9 DEF SecondaryLine, c
  <2>2. c \in ExecutedBy(p) BY <1>9 DEF SecondaryLine, c
  <2>3. ExecutedAs(p, e) = "NOT_STARTED"
    BY <1>3, <1>6, <1>7, <2>1 DEF SecondaryReport
  <2>4. has_buffer_marker[p] /\ ByMarkers(p, e) = "NOT_STARTED"
    BY <2>3 DEF ExecutedAs
  <2>5. e <= GetLastStartedCommand(p) BY <1>4, <2>1, <2>2, <2>4, AroundSecondary
  <2>6. p \in CommandBuffers /\ e \in Nat BY DEF CommandBuffers
  <2>7. QED BY <2>4, <2>5, <2>6, ByMarkersIs
<1>10. QED BY <1>2, <1>8, <1>9

LEMMA RunningAreIncomplete == Detailed => RunningIsIncomplete
<1> SUFFICES ASSUME Detailed, NEW p \in Primaries, NEW line \in Lines(p),
                    drv[p] = "pending", BeginRetired(line.cb), Instrumented(line.type),
                    NEW i \in Places(p, line), back[p] < i, i <= front[p]
             PROVE  line.state = "INCOMPLETE"
  BY DEF RunningIsIncomplete, Dumped
<1>1. Ran(p, line, i) BY DEF Places, Ran
<1> DEFINE c == line.cb
<1>2. has_buffer_marker[c] /\ bottom[c] # 0 BY DEF BeginRetired
<1>3. /\ InSubmission(p, c) /\ c \in CommandBuffers /\ WasSubmittedToQueue(p)
      /\ line.id \in Nat \ {0} /\ line.id \in Traced(c)
      /\ i \in Of(stream[p], c) /\ back[p] \in Nat
      /\ IdOf(stream[p][i], begin_marker_value[c]) = line.id
      /\ OwnLine(p, line) \/ SecondaryLine(p, line)
  BY <1>1, <1>2, LineFacts
<1>4. i \in 1 .. Len(stream[p]) /\ stream[p][i] = Write("run", c, line.id)
  BY <1>1 DEF Ran
<1> HIDE DEF c
<1>5. ~(i <= back[p]) BY <1>3, <1>4
<1>6. StartedExecution(c) /\ line.id <= GetLastStartedCommand(c)
  BY <1>3, <1>4, FetchedRunIsStarted
<1>7. ~CompletedExecution(c) /\ ~(line.id <= GetLastCompleteCommand(c))
  BY <1>2, <1>3, <1>5, CompleteIsRetired
<1>8. ByMarkers(c, line.id) = "INCOMPLETE" BY <1>3, <1>6, <1>7, ByMarkersIs
<1>9. CASE OwnLine(p, line)
  BY <1>2, <1>3, <1>8, <1>9 DEF OwnLine, ExecutedAs, c
<1>10. CASE SecondaryLine(p, line)
  <2>1. PICK e \in 1 .. Len(commands[p]) :
          /\ c \in commands[p][e].pCommandBuffers
          /\ line.state = SecondaryReport(c, line.id, ExecutedAs(p, e))
    BY <1>10 DEF SecondaryLine, c
  <2>2. c \in ExecutedBy(p) BY <1>10 DEF SecondaryLine, c
  <2>3. has_buffer_marker[p] => ByMarkers(p, e) = "INCOMPLETE"
    <3>1. ASSUME has_buffer_marker[p]
          PROVE  e <= GetLastStartedCommand(p) /\ ~(e <= GetLastCompleteCommand(p))
      BY <1>2, <1>3, <1>5, <2>1, <2>2, <3>1, AroundSecondary
    <3>2. p \in CommandBuffers /\ e \in Nat BY DEF CommandBuffers
    <3>3. QED BY <3>1, <3>2, ByMarkersIs
  <2>4. ExecutedAs(p, e) \in {"INCOMPLETE", "PENDING"}
    BY <1>3, <2>3 DEF ExecutedAs
  <2>5. QED BY <1>2, <1>6, <1>7, <1>8, <2>1, <2>4 DEF SecondaryReport
<1>11. QED BY <1>3, <1>9, <1>10

LEMMA CompletedAreTrue ==
  Detailed /\ NoSubmitFails => CompletedReportsAreTrueAfterBegin
<1> SUFFICES ASSUME Detailed, NoSubmitFails, NEW p \in Primaries, drv[p] # "none",
                    NEW line \in Lines(p), line.state = "COMPLETED", BeginRetired(line.cb),
                    NEW i \in Places(p, line)
             PROVE  i <= back[p]
  BY DEF CompletedReportsAreTrueAfterBegin, Dumped
<1>1. Ran(p, line, i) BY DEF Places, Ran
<1>2. i \in 1 .. Len(stream[p]) BY <1>1 DEF Ran
<1> DEFINE c == line.cb
<1>3. has_buffer_marker[c] /\ bottom[c] # 0 BY DEF BeginRetired
<1>4. OwnLine(p, line) \/ SecondaryLine(p, line) BY LinesAre
<1>5. WasSubmittedToQueue(p)
  BY <1>3, <1>4 DEF OwnLine, SecondaryLine, ExecutedAs, SecondaryReport
<1>6. drv[p] \in {"pending", "invalid"} /\ (drv[p] = "invalid" => back[p] = Len(stream[p]))
  BY <1>5, BufferDetails DEF Done, WasSubmittedToQueue
<1>7. CASE drv[p] = "invalid"
  <2>1. Len(stream[p]) \in Nat BY BufferDetails, BufferTypes
  <2>2. QED BY <1>2, <1>6, <1>7, <2>1
<1>8. CASE drv[p] = "pending"
  <2>1. /\ InSubmission(p, c) /\ c \in CommandBuffers
        /\ line.id \in Nat \ {0} /\ i \in Of(stream[p], c)
        /\ IdOf(stream[p][i], begin_marker_value[c]) = line.id
    BY <1>1, <1>3, <1>8, LineFacts
  <2> HIDE DEF c
  <2>2. CompletedExecution(c) => i <= back[p] BY <1>3, <2>1, CompleteIsRetired
  <2>3. ByMarkers(c, line.id) = "COMPLETED" => i <= back[p]
    <3>1. ByMarkers(c, line.id) = "COMPLETED" => line.id <= GetLastCompleteCommand(c)
      BY <2>1, ByMarkersIs
    <3>2. QED BY <1>3, <2>1, <3>1, CompleteIsRetired
  <2>4. CASE OwnLine(p, line)
    BY <1>3, <1>5, <2>3, <2>4 DEF OwnLine, ExecutedAs, c
  <2>5. CASE SecondaryLine(p, line)
    <3>1. PICK e \in 1 .. Len(commands[p]) :
            /\ c \in commands[p][e].pCommandBuffers
            /\ line.state = SecondaryReport(c, line.id, ExecutedAs(p, e))
      BY <2>5 DEF SecondaryLine, c
    <3>2. c \in ExecutedBy(p) BY <2>5 DEF SecondaryLine, c
    <3>3. CASE ExecutedAs(p, e) = "COMPLETED"
      <4>1. has_buffer_marker[p] /\ ByMarkers(p, e) = "COMPLETED"
        BY <3>3 DEF ExecutedAs
      <4>2. p \in CommandBuffers /\ e \in Nat BY DEF CommandBuffers
      <4>3. e <= GetLastCompleteCommand(p) BY <4>1, <4>2, ByMarkersIs
      <4>4. QED BY <1>3, <2>1, <3>1, <3>2, <4>1, <4>3, AroundSecondary
    <3>4. CASE ExecutedAs(p, e) # "COMPLETED"
      BY <1>3, <2>2, <2>3, <3>1, <3>4 DEF SecondaryReport
    <3>5. QED BY <3>3, <3>4
  <2>6. QED BY <1>4, <2>4, <2>5
<1>9. QED BY <1>6, <1>7, <1>8

\* A command of a submission that a dump shows as not started was not fetched
\* by the GPU, if its markers are written (GetCommandState).
THEOREM NotStartedReportsAreTrue ==
  Spec /\ OneTimeAndShort => []InstrumentedNotStartedReportsAreTrue
BY DetailedInvariant, NotStartedAreTrue, PTL

\* A dump points at the commands that the GPU is running: one that was fetched
\* and has not retired reads INCOMPLETE (GetCommandState).
THEOREM RunningReportsAreTrue == Spec /\ OneTimeAndShort => []RunningIsIncomplete
BY DetailedInvariant, RunningAreIncomplete, PTL

\* A command that a dump shows as completed has retired, once its buffer's
\* begin marker has and if no vkQueueSubmit fails.
THEOREM CompletedReportsAreTrue ==
  Spec /\ OneTimeAndShort /\ NoSubmitFails => []CompletedReportsAreTrueAfterBegin
<1>1. NoSubmitFails /\ [Next]_vars => NoSubmitFails'
  BY DEF NoSubmitFails, Failures, Next, vars
<1>2. QED BY DetailedInvariant, CompletedAreTrue, <1>1, PTL DEF Spec
=============================================================================
