----------------------------- MODULE GfrContext -----------------------------
(***************************************************************************)
(* GfrContext (gfr.cc): the application's threads, the watchdog and the    *)
(* listener run hooks (HookScripts) that share the context's mutexes, its  *)
(* counters, its dump options and the time of the last submit, and write   *)
(* reports.                                                                *)
(*                                                                         *)
(* A configuration says what the environment variables set, which hooks    *)
(* the application's threads call, and the bounds of an instance.          *)
(***************************************************************************)
EXTENDS HookScripts, FiniteSets, Integers

CONSTANTS
  AppThreads,   \* the threads that call Vulkan
  Watchdog,     \* the thread of GFR_WATCHDOG_TIMEOUT_MS
  Listener,     \* the thread that listens to the hang daemon
  Configs,      \* the configurations of an instance
  OneSecond     \* a second in units of time

ASSUME OneSecondAssumption == OneSecond \in Nat \ {0}

Threads == AppThreads \cup {Watchdog, Listener}

(* timeout: GFR_WATCHDOG_TIMEOUT_MS in units of time, 0 without watchdog;  *)
(* autodump: the rate of debug_autodump_rate_, 0 when it is off; dumpAll:  *)
(* GFR_DUMP_ALL_COMMAND_BUFFERS; hooks: what each thread calls.  The       *)
(* bounds: calls, of all threads together; time, the end of the clock;     *)
(* logs, the number of reports that are told apart.                        *)
ConfigType ==
  [timeout : Nat, autodump : Nat, dumpAll : BOOLEAN,
   hooks : [Threads -> SUBSET Hooks], unbounded : BOOLEAN, calls : Nat,
   time : Nat, logs : Nat]

ASSUME ConfigAssumption == Configs \subseteq ConfigType

VARIABLES
  config,
  hook,           \* the hook that a thread runs, or Idle
  pc,             \* its position in the hook's script
  local,          \* its local variables
  clock,          \* high_resolution_clock
  wake,           \* when the watchdog's sleep_for ends
  last_submit_time_, total_submits_, total_logs_,
  debug_dump_all_command_buffers_,
  reports,        \* the files written, each with the log number of its name
  calls           \* the calls made so far

vars == <<config, hook, pc, local, clock, wake, last_submit_time_,
          total_submits_, total_logs_, debug_dump_all_command_buffers_,
          reports, calls>>

Idle == "idle"
NoLocals == [time |-> 0, submits |-> 0, saved |-> FALSE, all |-> FALSE, name |-> 0]

Max2(a, b) == IF a > b THEN a ELSE b
Min2(a, b) == IF a < b THEN a ELSE b

Init ==
  /\ config \in Configs
  /\ hook = [t \in Threads |-> Idle]
  /\ pc = [t \in Threads |-> 0]
  /\ local = [t \in Threads |-> NoLocals]
  /\ clock = 0 /\ wake = 0
  /\ last_submit_time_ = 0 /\ total_submits_ = 0 /\ total_logs_ = 0
  /\ debug_dump_all_command_buffers_ = config.dumpAll
  /\ reports = <<>>
  /\ calls = 0

-----------------------------------------------------------------------------
(* Threads and mutexes.                                                    *)
Position(t) == Script[hook[t]][pc[t]]
Held(t) == IF hook[t] = Idle THEN {} ELSE Position(t).hold
Wants(t) == IF hook[t] = Idle THEN Nothing ELSE Position(t).lock
Free(m) == \A t \in Threads : m \notin Held(t)

Enter(t, h) ==
  /\ hook' = [hook EXCEPT ![t] = h]
  /\ pc' = [pc EXCEPT ![t] = 1]

Return(t) ==
  /\ hook' = [hook EXCEPT ![t] = Idle]
  /\ pc' = [pc EXCEPT ![t] = 0]

ForgetLocals(t) == local' = [local EXCEPT ![t] = NoLocals]

(* The end of a position: the next one, or the end of the hook.            *)
Advance(t, locals) ==
  IF pc[t] < Len(Script[hook[t]])
  THEN /\ pc' = [pc EXCEPT ![t] = @ + 1]
       /\ local' = [local EXCEPT ![t] = locals]
       /\ UNCHANGED hook
  ELSE Return(t) /\ ForgetLocals(t)

Doing(t, effect) == hook[t] # Idle /\ Position(t).do = effect

shared == <<last_submit_time_, total_submits_, total_logs_,
            debug_dump_all_command_buffers_, reports>>

(* A hook passes a position where it only holds, or takes, mutexes.        *)
Pass(t) ==
  /\ Doing(t, Nothing)
  /\ Wants(t) # Nothing => Free(Wants(t))
  /\ Advance(t, local[t])
  /\ UNCHANGED <<config, clock, wake, calls, shared>>

(* An application's thread, or the listener, starts a hook.                *)
Call(t, h) ==
  /\ t # Watchdog
  /\ hook[t] = Idle
  /\ h \in config.hooks[t]
  /\ config.unbounded \/ calls < config.calls
  /\ Enter(t, h)
  /\ calls' = IF config.unbounded THEN calls ELSE calls + 1
  /\ UNCHANGED <<config, local, clock, wake, shared>>

Tick ==
  /\ config.timeout > 0
  /\ clock < config.time
  /\ clock' = clock + 1
  /\ UNCHANGED <<config, hook, pc, local, wake, calls, shared>>

-----------------------------------------------------------------------------
(* The time of the last submit, and the watchdog's loop.  It is written by *)
(* PreQueueSubmit and, after a dump, by the watchdog.                      *)
TakeTimeInMicroseconds(t) ==  \* mutant: no duration_cast to milliseconds
  /\ Doing(t, "TakeTime")
  /\ Advance(t, [local[t] EXCEPT !.time = clock * 1000])
  /\ UNCHANGED <<config, clock, wake, calls, shared>>

TakeTime(t) ==
  /\ Doing(t, "TakeTime")
  /\ Advance(t, [local[t] EXCEPT !.time = clock])
  /\ UNCHANGED <<config, clock, wake, calls, shared>>

StoreSubmitTime(t) ==
  /\ Doing(t, "StoreSubmitTime")
  /\ last_submit_time_' = local[t].time
  /\ Advance(t, local[t])
  /\ UNCHANGED <<config, clock, wake, calls, total_submits_, total_logs_,
                 debug_dump_all_command_buffers_, reports>>

(* test_interval_us: half of the timeout, and at most a second.            *)
TestInterval == Max2(Min2(OneSecond, config.timeout \div 2), 1)

(* The watchdog's sleep is over and its loop starts again.                 *)
WakeUp ==
  /\ config.timeout > 0
  /\ hook[Watchdog] = Idle
  /\ clock >= wake
  /\ Enter(Watchdog, "CheckTimer")
  /\ wake' = Min2(clock + TestInterval, config.time)
  /\ UNCHANGED <<config, local, clock, calls, shared>>

(* ms, in int64_t: a submit may have stored a later time than now.         *)
ElapsedSwapped(now) == last_submit_time_ - now  \* mutant: operands swapped
Elapsed(now) == now - last_submit_time_

TestTimer ==
  /\ Doing(Watchdog, "TestTimer")
  /\ IF Elapsed(local[Watchdog].time) > config.timeout
     THEN Enter(Watchdog, "DumpForWatchdog") /\ ForgetLocals(Watchdog)
     ELSE Advance(Watchdog, local[Watchdog])
  /\ UNCHANGED <<config, clock, wake, calls, shared>>

-----------------------------------------------------------------------------
(* PostQueueSubmit: total_submits_++, in two steps as no mutex guards it.  *)
(* It is kept modulo the rate, which is all that is asked of it.           *)
LoadTotalSubmits(t) ==
  /\ Doing(t, "LoadTotalSubmits")
  /\ Advance(t, [local[t] EXCEPT !.submits = total_submits_])
  /\ UNCHANGED <<config, clock, wake, calls, shared>>

StoreTotalSubmits(t) ==
  /\ Doing(t, "StoreTotalSubmits")
  /\ total_submits_' = (local[t].submits + 1) % Max2(config.autodump, 1)
  /\ Advance(t, local[t])
  /\ UNCHANGED <<config, clock, wake, calls, last_submit_time_, total_logs_,
                 debug_dump_all_command_buffers_, reports>>

(* The driver's result may be an error that makes GFR dump.                *)
TestSubmit(t, lost) ==
  /\ Doing(t, "TestSubmit")
  /\ lost => "DumpQueueDevice" \in config.hooks[t]
  /\ IF lost \/ (config.autodump > 0 /\ total_submits_ = 0)
     THEN Enter(t, "DumpQueueDevice") /\ ForgetLocals(t)
     ELSE Advance(t, local[t])
  /\ UNCHANGED <<config, clock, wake, calls, shared>>

-----------------------------------------------------------------------------
(* DumpDeviceExecutionStateValidationFailed, its first and last statements.*)
ForceDumpAll(t) ==
  /\ Doing(t, "ForceDumpAll")
  /\ debug_dump_all_command_buffers_' = TRUE
  /\ Advance(t, [local[t] EXCEPT !.saved = debug_dump_all_command_buffers_])
  /\ UNCHANGED <<config, clock, wake, calls, last_submit_time_, total_submits_,
                 total_logs_, reports>>

RestoreDumpAll(t) ==
  /\ Doing(t, "RestoreDumpAll")
  /\ debug_dump_all_command_buffers_' = local[t].saved
  /\ Advance(t, local[t])
  /\ UNCHANGED <<config, clock, wake, calls, last_submit_time_, total_submits_,
                 total_logs_, reports>>

ReadOptions(t) ==
  /\ Doing(t, "ReadOptions")
  /\ Advance(t, [local[t] EXCEPT !.all = debug_dump_all_command_buffers_])
  /\ UNCHANGED <<config, clock, wake, calls, shared>>

(* WriteReport: gfr.log for the first report, and a name with the number   *)
(* of logs for those that follow.                                          *)
NameReport(t) ==
  /\ Doing(t, "NameReport")
  /\ Advance(t, [local[t] EXCEPT !.name = total_logs_])
  /\ UNCHANGED <<config, clock, wake, calls, shared>>

CountReport(t) ==
  /\ Doing(t, "CountReport")
  /\ total_logs_' = Min2(total_logs_ + 1, config.logs)
  /\ Advance(t, local[t])
  /\ UNCHANGED <<config, clock, wake, calls, last_submit_time_, total_submits_,
                 debug_dump_all_command_buffers_, reports>>

Report(t) == [log |-> local[t].name, all |-> local[t].all, hook |-> hook[t]]

SaveReport(t) ==
  /\ Doing(t, "SaveReport")
  /\ reports' = IF local[t].name < config.logs
                THEN Append(reports, Report(t)) ELSE reports
  /\ Advance(t, local[t])
  /\ UNCHANGED <<config, clock, wake, calls, last_submit_time_, total_submits_,
                 total_logs_, debug_dump_all_command_buffers_>>

-----------------------------------------------------------------------------
(* A thread goes on inside its hook.                                       *)
Step(t) ==
  \/ Pass(t) \/ TakeTime(t) \/ StoreSubmitTime(t)
  \/ LoadTotalSubmits(t) \/ StoreTotalSubmits(t)
  \/ \E lost \in BOOLEAN : TestSubmit(t, lost)
  \/ ForceDumpAll(t) \/ RestoreDumpAll(t) \/ ReadOptions(t)
  \/ NameReport(t) \/ CountReport(t) \/ SaveReport(t)

Next ==
  \/ Tick \/ WakeUp \/ TestTimer
  \/ \E t \in Threads : Step(t) \/ \E h \in Hooks : Call(t, h)

Spec == Init /\ [][Next]_vars

(* Time goes on, the watchdog's thread is scheduled, and a hook that can   *)
(* go on does: no hook waits for the GPU.  Nothing makes a thread call.    *)
FairSpec ==
  /\ Spec
  /\ WF_vars(Tick) /\ WF_vars(WakeUp) /\ WF_vars(TestTimer)
  /\ \A t \in Threads : WF_vars(Step(t))

-----------------------------------------------------------------------------
(* Types, and positions that exist.                                        *)
TypeOK ==
  /\ config \in Configs
  /\ hook \in [Threads -> Hooks \cup {Idle}] /\ pc \in [Threads -> Nat]
  /\ \A t \in Threads :
       pc[t] \in IF hook[t] = Idle THEN {0} ELSE 1..Len(Script[hook[t]])
  /\ local \in [Threads -> [time : 0..config.time, submits : Nat,
                            saved : BOOLEAN, all : BOOLEAN, name : Nat]]
  /\ clock \in 0..config.time /\ wake \in 0..config.time
  /\ last_submit_time_ \in 0..config.time
  /\ total_submits_ \in Nat /\ total_logs_ \in Nat /\ calls \in Nat
  /\ debug_dump_all_command_buffers_ \in BOOLEAN
  /\ reports \in Seq([log : Nat, all : BOOLEAN, hook : Hooks])

(* Threads that wait for each other, or one that waits for itself.         *)
CircularWait(S) ==
  /\ S # {}
  /\ \A t \in S : \E u \in S : Wants(t) \in Held(u)

(* No hooks deadlock, whatever calls the threads make, although            *)
(* CleanupSubmitInfos and DumpWaitingSubmits lock the same two mutexes in  *)
(* opposite orders, buffers are destroyed inside the global map's mutex    *)
(* and binding a pipeline takes no devices_mutex_; but for                 *)
(* PostDestroySemaphore, which waits for itself when it traces.            *)
NoCircularWait ==
  \A S \in SUBSET Threads :
    CircularWait(S) => \E t \in S : hook[t] = "DestroySemaphoreTraced"

(* No report overwrites another, although the watchdog, the listener and   *)
(* every thread that meets an error write them: WriteReport takes its      *)
(* number in one statement and counts it in the next.                      *)
ReportsAreDistinct ==
  \A i, j \in DOMAIN reports : i # j => reports[i].log # reports[j].log

(* A report contains all commands when it is configured to or tells of a   *)
(* failed validation, which forces the shared option, and not because      *)
(* another thread's validation failed before or meanwhile.                 *)
Validating == 
  {"InvalidatePoolInUse", "BeginCommandBufferInUse", "FreeCommandBuffersInUse"}
OptionsAsConfigured ==
  \A i \in DOMAIN reports :
    reports[i].all <=> config.dumpAll \/ reports[i].hook \in Validating

(* With a watchdog, when the application has made its last call and the    *)
(* last submit is older than the timeout, the watchdog writes a report.    *)
Silent ==
  /\ config.timeout > 0
  /\ clock - last_submit_time_ > config.timeout
  /\ \A t \in AppThreads : ~Doing(t, "TakeTime") /\ ~Doing(t, "StoreSubmitTime")

WatchdogWrites == hook[Watchdog] = "DumpForWatchdog" /\ Doing(Watchdog, "SaveReport")

HangIsReported ==
  (Silent /\ calls = config.calls /\ hook[Watchdog] # "DumpForWatchdog")
    ~> WatchdogWrites
=============================================================================
