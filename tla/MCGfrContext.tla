---------------------------- MODULE MCGfrContext ----------------------------
(***************************************************************************)
(* TLC instances of GfrContext.                                            *)
(***************************************************************************)
EXTENDS GfrContext, TLC

CONSTANTS a1, a2

MCAppThreads == {a1, a2}

Internal == {"CheckTimer", "DumpForWatchdog", "SignalHang"}
Traced ==
  {"CreateSemaphoreTraced", "DestroySemaphoreTraced", "SignalSemaphoreTraced",
   "WaitSemaphoresTraced", "QueueSubmitTraced", "QueueBindSparseTraced"}
Off == [timeout |-> 0, autodump |-> 0, dumpAll |-> FALSE, unbounded |-> FALSE,
        calls |-> 0, time |-> 0, logs |-> 0]
Calls(first, second, listener) ==
  [hooks |-> a1 :> first @@ a2 :> second @@ Watchdog :> {} @@ Listener :> listener]

\* Any calls, without an end; reports are not told apart.
Locking ==
  LET app == Hooks \ (Internal \cup Traced)
  IN  Calls(app, app, {}) @@ [Off EXCEPT !.unbounded = TRUE]

\* The same with semaphores that are traced.
Tracing ==
  LET app == Traced \cup {"BindPipeline"}
  IN  Calls(app, app, {}) @@ [Off EXCEPT !.unbounded = TRUE]

\* Three of the calls that write reports.
Reporting ==
  Calls({"FreeCommandBuffersInUse", "DumpDevice"}, {"InvalidatePoolInUse", "DumpDevice"},
        {"SignalHang"})
    @@ [Off EXCEPT !.calls = 3, !.logs = 3]
ReportingAll == [Reporting EXCEPT !.dumpAll = TRUE]

\* A watchdog, submits, and a report every second one.
Watching ==
  Calls({"QueueSubmitUntracked"}, {"SetObjectName"}, {})
    @@ [Off EXCEPT !.timeout = 2, !.autodump = 2, !.calls = 2, !.time = 4, !.logs = 3]

\* A timeout of which the half is longer than a second.
WatchingLonger == [Watching EXCEPT !.timeout = 4, !.autodump = 0, !.calls = 1, !.time = 6]

MCConfigs == {Locking, Tracing, Reporting, ReportingAll, Watching,
              WatchingLonger}
=============================================================================
