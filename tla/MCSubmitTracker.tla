--------------------------- MODULE MCSubmitTracker ---------------------------
(***************************************************************************)
(* TLC instances of SubmitTracker: one or two threads with a queue each.   *)
(***************************************************************************)
EXTENDS SubmitTracker

CONSTANTS t1, t2

MCThreads == {t1, t2}
MCOneThread == {t1}

\* Words for every submit, and a driver that does not fail.
Roomy == [MaxWords |-> 7, BindSparse |-> FALSE, Failures |-> {}]

\* Too few words, sparse binds, and a driver that fails.
Scarce == [MaxWords |-> 5, BindSparse |-> TRUE, Failures |-> {"allocate", "submit"}]

\* The same without sparse binds, and with room for two submits.
Failing == [Scarce EXCEPT !.BindSparse = FALSE]

MCConfigs == {Roomy, Scarce, Failing}

\* Sparse binds and submits that share the words.
Sharing == [MaxWords |-> 6, BindSparse |-> TRUE, Failures |-> {}]

MCSharing == {Sharing}
=============================================================================
