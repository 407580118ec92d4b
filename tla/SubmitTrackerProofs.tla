------------------------- MODULE SubmitTrackerProofs -------------------------
(***************************************************************************)
(* Proofs about SubmitTracker, for every configuration, every number of    *)
(* threads and every bound: the type invariant, the agreement of the two   *)
(* registries, that no helper buffer is freed in use, that the list of     *)
(* waiting submits is exact, and that the reports of a submit implement    *)
(* SubmissionReport.                                                       *)
(*                                                                         *)
(* All of them follow from one inductive invariant, IInv, in three parts.  *)
(* Basics types the state.  Structure says who owns what: a marker word    *)
(* belongs to one tracked submit, one helper submit or the allocator, and  *)
(* every write that the GPU has yet to make goes to a word of the submit   *)
(* that its buffers belong to.  Values says what the words then mean.      *)
(* Most steps only give up what they own (Narrows); the others append an   *)
(* element to a batch (Appends) or a write to its last one (Edits).        *)
(***************************************************************************)
EXTENDS SubmitTracker, SequenceTheorems, WellFoundedInduction, TLAPS

-----------------------------------------------------------------------------
(* Induction over the length of a sequence, from the well-foundedness of < *)
(* on Nat, and Kept.                                                       *)

\* Induction over the natural numbers that a set holds.
LEMMA SetInduction ==
  ASSUME NEW D, 0 \in D, \A n \in Nat : n \in D => n + 1 \in D
  PROVE  Nat \subseteq D
<1> DEFINE Out == {n \in Nat : n \notin D}
<1> SUFFICES ASSUME Out # {} PROVE FALSE OBVIOUS
<1>1. Out \subseteq Nat OBVIOUS
<1> HIDE DEF Out
<1>2. PICK n \in Out : \A m \in Out : ~(<<m, n>> \in OpToRel(<, Nat))
  BY <1>1, NatLessThanWellFounded, WFMin
<1>3. \A m \in Out : ~(m < n) BY <1>1, <1>2 DEF OpToRel
<1>4. n \in Nat /\ n \notin D BY <1>2 DEF Out
<1>5. n - 1 \in Nat BY <1>4
<1>6. n - 1 \in D BY <1>3, <1>5 DEF Out
<1>7. n - 1 + 1 \in D BY <1>5, <1>6
<1>8. QED BY <1>4, <1>7

\* What the recursive function of Kept is at n, given its values before.
KeptUpTo(s, S, n, f) ==
  f = [k \in 0 .. n |->
         IF k = 0 THEN <<>>
         ELSE IF s[k] \in S THEN Append(f[k - 1], s[k]) ELSE f[k - 1]]

\* The recursive function of Kept exists: it is built one element at a time.
LEMMA KeptExists ==
  ASSUME NEW s, NEW S
  PROVE  \A n \in Nat : \E f : KeptUpTo(s, S, n, f)
<1> DEFINE D == {n \in Nat : \E f : KeptUpTo(s, S, n, f)}
<1>1. 0 \in D
  <2>1. KeptUpTo(s, S, 0, [k \in 0 .. 0 |-> <<>>]) BY DEF KeptUpTo
  <2>2. QED BY <2>1
<1>2. ASSUME NEW n \in Nat, n \in D PROVE n + 1 \in D
  <2>1. PICK f : KeptUpTo(s, S, n, f) BY <1>2
  <2> DEFINE g == [k \in 0 .. n + 1 |->
                     IF k <= n THEN f[k]
                     ELSE IF s[n + 1] \in S THEN Append(f[n], s[n + 1]) ELSE f[n]]
  <2>2. \A k \in 0 .. n :
          f[k] = IF k = 0 THEN <<>>
                 ELSE IF s[k] \in S THEN Append(f[k - 1], s[k]) ELSE f[k - 1]
    BY <2>1 DEF KeptUpTo
  <2>3. /\ g = [k \in 0 .. n + 1 |-> g[k]]
        /\ \A k \in 0 .. n : g[k] = f[k]
        /\ g[n + 1] = IF s[n + 1] \in S THEN Append(f[n], s[n + 1]) ELSE f[n]
    BY <1>2
  <2> HIDE DEF g
  <2>4. ASSUME NEW k \in 0 .. n + 1
        PROVE  g[k] = IF k = 0 THEN <<>>
                      ELSE IF s[k] \in S THEN Append(g[k - 1], s[k]) ELSE g[k - 1]
    <3>1. CASE k = 0
      <4>1. 0 \in 0 .. n OBVIOUS
      <4>2. g[0] = f[0] /\ f[0] = <<>> BY <2>2, <2>3, <4>1
      <4>3. QED BY <3>1, <4>2
    <3>2. CASE k \in 1 .. n
      <4>1. k \in 0 .. n /\ k - 1 \in 0 .. n /\ k # 0 BY <3>2
      <4>2. g[k] = f[k] /\ g[k - 1] = f[k - 1] BY <2>3, <4>1
      <4>3. QED BY <2>2, <4>1, <4>2
    <3>3. CASE k = n + 1
      <4>1. n \in 0 .. n /\ k - 1 = n /\ k # 0 BY <3>3
      <4>2. QED BY <2>3, <3>3, <4>1
    <3>4. QED BY <3>1, <3>2, <3>3
  <2>5. KeptUpTo(s, S, n + 1, g) BY <2>3, <2>4 DEF KeptUpTo
  <2>6. QED BY <2>5
<1> HIDE DEF D
<1>3. Nat \subseteq D BY <1>1, <1>2, SetInduction
<1>4. QED BY <1>3 DEF D

\* A sequence without repetition.
Once(s) == \A j, k \in 1 .. Len(s) : s[j] = s[k] => j = k

\* A vector keeps the elements of a set, each where it was once.
LEMMA KeptKeeps ==
  ASSUME NEW T, NEW s \in Seq(T), NEW S
  PROVE  /\ Kept(s, S) \in Seq(T)
         /\ ToSet(Kept(s, S)) = ToSet(s) \cap S
         /\ Once(s) => Once(Kept(s, S))
<1> DEFINE f == CHOOSE f : KeptUpTo(s, S, Len(s), f)
<1>1. Len(s) \in Nat OBVIOUS
<1>2. KeptUpTo(s, S, Len(s), f) BY <1>1, KeptExists
<1>3. Kept(s, S) = f[Len(s)] BY DEF Kept, KeptUpTo
<1> HIDE DEF f
<1>4. \A k \in 0 .. Len(s) :
        f[k] = IF k = 0 THEN <<>>
               ELSE IF s[k] \in S THEN Append(f[k - 1], s[k]) ELSE f[k - 1]
  BY <1>2 DEF KeptUpTo
<1> DEFINE Good(n) ==
             /\ f[n] \in Seq(T)
             /\ \A x : x \in ToSet(f[n]) <=> \E i \in 1 .. n : s[i] = x /\ x \in S
             /\ Once(s) => Once(f[n])
           D == {n \in Nat : n <= Len(s) => Good(n)}
<1>5. 0 \in D
  <2>1. f[0] = <<>> BY <1>1, <1>4
  <2>2. f[0] \in Seq(T) /\ Len(f[0]) = 0 BY <2>1
  <2>3. \A x : x \notin ToSet(f[0]) BY <2>2 DEF ToSet
  <2>4. Once(f[0]) BY <2>2 DEF Once
  <2>5. QED BY <2>2, <2>3, <2>4
<1>6. ASSUME NEW n \in Nat, n \in D PROVE n + 1 \in D
  <2> SUFFICES ASSUME n + 1 <= Len(s) PROVE Good(n + 1)
    OBVIOUS
  <2>1. Good(n) BY <1>1, <1>6
  <2>2. n + 1 \in 0 .. Len(s) /\ n + 1 \in 1 .. Len(s) /\ n + 1 # 0 /\ n + 1 - 1 = n
    BY <1>1
  <2>3. f[n + 1] = IF s[n + 1] \in S THEN Append(f[n], s[n + 1]) ELSE f[n]
    BY <1>4, <2>2
  <2>4. s[n + 1] \in T BY <2>2, ElementOfSeq
  <2>5. CASE s[n + 1] \in S
    <3> DEFINE r == f[n]
               q == Append(r, s[n + 1])
    <3>1. f[n + 1] = q /\ r \in Seq(T) BY <2>1, <2>3, <2>5
    <3>2. /\ q \in Seq(T) /\ Len(q) = Len(r) + 1 /\ q[Len(r) + 1] = s[n + 1]
          /\ \A i \in 1 .. Len(r) : q[i] = r[i]
          /\ Len(r) \in Nat
      BY <2>1, <2>4
    <3> HIDE DEF q, r
    <3>3. \A x : x \in ToSet(q) <=> x \in ToSet(r) \/ x = s[n + 1]
      BY <3>2 DEF ToSet
    <3>4. \A x : x \in ToSet(r) <=> \E i \in 1 .. n : s[i] = x /\ x \in S
      BY <2>1 DEF r
    <3>5. \A x : x \in ToSet(q) <=> \E i \in 1 .. n + 1 : s[i] = x /\ x \in S
      <4>1. ASSUME NEW x, x \in ToSet(q) PROVE \E i \in 1 .. n + 1 : s[i] = x /\ x \in S
        <5>1. CASE x = s[n + 1] BY <2>5, <5>1
        <5>2. CASE x \in ToSet(r) BY <3>4, <5>2
        <5>3. QED BY <3>3, <4>1, <5>1, <5>2
      <4>2. ASSUME NEW x, NEW i \in 1 .. n + 1, s[i] = x, x \in S PROVE x \in ToSet(q)
        <5>1. CASE i = n + 1 BY <3>3, <4>2, <5>1
        <5>2. CASE i \in 1 .. n BY <3>3, <3>4, <4>2, <5>2
        <5>3. QED BY <5>1, <5>2
      <4>3. QED BY <4>1, <4>2
    <3>6. ASSUME Once(s) PROVE Once(q)
      <4>1. Once(r) BY <2>1, <3>6 DEF r
      <4>2. s[n + 1] \notin ToSet(r)
        <5>1. \A i \in 1 .. n : s[i] # s[n + 1] BY <1>1, <2>2, <3>6 DEF Once
        <5>2. QED BY <3>4, <5>1
      <4>3. QED BY <3>2, <4>1, <4>2 DEF ToSet, Once
    <3>7. QED BY <3>1, <3>2, <3>5, <3>6
  <2>6. CASE s[n + 1] \notin S
    <3>1. f[n + 1] = f[n] BY <2>3, <2>6
    <3>2. \A x : (\E i \in 1 .. n + 1 : s[i] = x /\ x \in S) <=> \E i \in 1 .. n : s[i] = x /\ x \in S
      <4>1. \A i \in 1 .. n + 1 : i = n + 1 \/ i \in 1 .. n OBVIOUS
      <4>2. QED BY <2>6, <4>1
    <3>3. QED BY <2>1, <3>1, <3>2
  <2>7. QED BY <2>5, <2>6
<1> HIDE DEF D
<1>7. Len(s) \in D BY <1>1, <1>5, <1>6, SetInduction
<1>8. Good(Len(s)) BY <1>7 DEF D
<1>9. ToSet(f[Len(s)]) = ToSet(s) \cap S
  <2>1. \A x : x \in ToSet(f[Len(s)]) <=> \E j \in 1 .. Len(s) : s[j] = x /\ x \in S
    BY <1>8
  <2>2. \A x : x \in ToSet(s) <=> \E j \in 1 .. Len(s) : s[j] = x BY DEF ToSet
  <2>3. QED BY <2>1, <2>2
<1>10. QED BY <1>3, <1>8, <1>9

\* What a queue was given and what the call under way will give it.
All(t) == queue[t] \o call[t].batch

\* What a queue holds: an element uses a pair of buffers and writes at most two
\* words.
Elements == [cbs : Ids, top : Words \cup {Null}, bottom : Words \cup {Null}]

\* Where a call has a pair of buffers in its hands.
InStep == {"store", "start", "finish"}

\* Where a call can be.
Pcs == {"idle", "register", "record"} \cup InStep

\* The allocator's states.
MarkerStates == [recycled : Seq(Words), next : 1 .. MaxWords + 1]

\* The calls, with every field typed.
Calls == [pc : Pcs, qid : Nat, left : 0 .. MaxCount, id : 0 .. MaxBuffers,
          cbs : 0 .. MaxBuffers, batch : Seq(Elements)]

\* TypeOK, and the types of what TypeOK leaves open.
Typed ==
  /\ config \in Configs
  /\ word \in [Words -> 0 .. CommandBufferValue]
  /\ markers \in MarkerStates
  /\ allocated \in 0 .. MaxBuffers
  /\ submit_info_counter \in 0 .. allocated
  /\ queue_submit_index_ \in Nat
  /\ DOMAIN submit_infos_ \subseteq 1 .. submit_info_counter
  /\ \A id \in DOMAIN submit_infos_ : submit_infos_[id] \in SubmitInfo
  /\ \A q \in DOMAIN queue_submits_ : queue_submits_[q] \in Seq(Ids)
  /\ helper_submit_infos_ \in Seq([marker : Words, cbs : Ids])
  /\ call \in [Threads -> Calls]
  /\ freed \subseteq 1 .. allocated
  /\ queue \in [Threads -> Seq(Elements)]
  /\ started \in [Threads -> Nat] /\ finished \in [Threads -> Nat]
  /\ \A t \in Threads : finished[t] <= started[t] /\ started[t] <= Len(queue[t])

\* The words that the allocator may give out.
Free(m) == ToSet(m.recycled) \cup m.next .. MaxWords

\* A word is free once, and a recycled word was allocated before.
FreeApart(m) ==
  /\ \A j, k \in 1 .. Len(m.recycled) : m.recycled[j] = m.recycled[k] => j = k
  /\ \A j \in 1 .. Len(m.recycled) : m.recycled[j] < m.next

\* What is in a call's hands at each of its steps.
CallsSound ==
  \A t \in Threads :
    /\ call[t].pc = "idle" => call[t] = Idle
    /\ call[t].pc \notin InStep => call[t].cbs = Null
    /\ call[t].pc \in InStep => call[t].cbs \in 1 .. allocated /\ call[t].id <= submit_info_counter
    /\ call[t].pc \in {"start", "finish"} =>
         call[t].batch # <<>> /\ Last(call[t].batch).cbs = call[t].cbs
    /\ call[t].pc = "record" => BindSparse /\ (call[t].left > 0 \/ call[t].batch # <<>>)

\* No two calls are registering one submit.
IdsApart ==
  \A t, u \in Threads :
    call[t].pc \in InStep /\ call[u].pc \in InStep /\ call[t].id = call[u].id
      /\ call[t].id # Invalid => t = u

\* A pair of buffers is in one place.
BuffersApart ==
  /\ \A t, u \in Threads : \A j \in 1 .. Len(All(t)), k \in 1 .. Len(All(u)) :
       All(t)[j].cbs = All(u)[k].cbs => t = u /\ j = k
  /\ \A t \in Threads : \A j \in 1 .. Len(All(t)) : All(t)[j].cbs <= allocated
  /\ \A t, u \in Threads :
       call[t].pc = "store" =>
         /\ \A k \in 1 .. Len(All(u)) : All(u)[k].cbs # call[t].cbs
         /\ call[u].pc = "store" /\ call[u].cbs = call[t].cbs => t = u

\* The GPU has yet to write the word.
TopAhead(t, k) == k \in 1 .. Len(All(t)) /\ k > started[t] /\ All(t)[k].top # Null

\* The GPU has yet to write the bottom word of an element.
BottomAhead(t, k) == k \in 1 .. Len(All(t)) /\ k > finished[t] /\ All(t)[k].bottom # Null

\* No word awaits two writes of the GPU.
WritesApart ==
  \A t, u \in Threads :
   \A j \in 1 .. Len(All(t)), k \in 1 .. Len(All(u)) :
    /\ TopAhead(t, j) /\ TopAhead(u, k) /\ All(t)[j].top = All(u)[k].top => t = u /\ j = k
    /\ BottomAhead(t, j) /\ BottomAhead(u, k) /\ All(t)[j].bottom = All(u)[k].bottom => t = u /\ j = k
    /\ TopAhead(t, j) /\ BottomAhead(u, k) => All(t)[j].top # All(u)[k].bottom

\* No word that the GPU will write is free.
WritesHeld ==
  \A t \in Threads : \A k \in 1 .. Len(All(t)) :
    /\ TopAhead(t, k) => All(t)[k].top \notin Free(markers)
    /\ BottomAhead(t, k) => All(t)[k].bottom \notin Free(markers)

\* The two words of a tracked submit.
WordsOf(id) == {submit_infos_[id].top_marker, submit_infos_[id].bottom_marker}

\* A tracked submit has words and buffers of its own, none of them free, and
\* the buffers that its call stored.
InfosApart ==
  /\ \A id \in DOMAIN submit_infos_ :
       /\ submit_infos_[id].top_marker # submit_infos_[id].bottom_marker
       /\ WordsOf(id) \cap Free(markers) = {}
       /\ submit_infos_[id].cbs <= allocated
  /\ \A id, ie \in DOMAIN submit_infos_ :
       id # ie => /\ WordsOf(id) \cap WordsOf(ie) = {}
                  /\ submit_infos_[id].cbs = submit_infos_[ie].cbs => submit_infos_[id].cbs = Null
  /\ \A id \in DOMAIN submit_infos_, t \in Threads :
       call[t].pc = "store" =>
         /\ submit_infos_[id].cbs # call[t].cbs
         /\ call[t].id = id => submit_infos_[id].cbs = Null
  /\ \A id \in DOMAIN submit_infos_, t \in Threads :
       call[t].pc \in {"start", "finish"} /\ call[t].id = id => submit_infos_[id].cbs = call[t].cbs

\* Only a submit's own buffers write its words.
InfosWritten ==
  \A id \in DOMAIN submit_infos_, t \in Threads : \A k \in 1 .. Len(All(t)) :
    /\ TopAhead(t, k) /\ All(t)[k].top \in WordsOf(id) => submit_infos_[id].cbs = All(t)[k].cbs
    /\ BottomAhead(t, k) /\ All(t)[k].bottom \in WordsOf(id) => submit_infos_[id].cbs = All(t)[k].cbs

\* The element that a call is recording the writes of.
Current(id, t, k) == k = Len(All(t)) /\ call[t].pc \in {"start", "finish"} /\ call[t].id = id

\* The buffers of a tracked submit write its words, but for what its call has
\* not recorded yet.
InfosRecorded ==
  \A id \in DOMAIN submit_infos_, t \in Threads : \A k \in 1 .. Len(All(t)) :
    submit_infos_[id].cbs = All(t)[k].cbs =>
      /\ All(t)[k].top = IF Current(id, t, k) /\ call[t].pc = "start" THEN Null
                         ELSE submit_infos_[id].top_marker
      /\ All(t)[k].bottom = IF Current(id, t, k) THEN Null
                            ELSE submit_infos_[id].bottom_marker

\* The helper submits of vkQueueBindSparse that are tracked.
Helpers == ToSet(helper_submit_infos_)

\* A helper submit has a word and buffers of its own; its buffers write that
\* word at their end and nothing else, and nothing else writes it.
HelpersApart ==
  /\ ~BindSparse => helper_submit_infos_ = <<>>
  /\ Once(helper_submit_infos_)
  /\ \A g, h \in Helpers :
       /\ g.marker = h.marker => g = h
       /\ g.cbs = h.cbs => g = h
  /\ \A h \in Helpers :
       /\ h.marker \notin Free(markers)
       /\ h.cbs <= allocated
       /\ \A id \in DOMAIN submit_infos_ :
            /\ h.marker \notin WordsOf(id)
            /\ h.cbs # submit_infos_[id].cbs
       /\ \A t \in Threads :
            /\ call[t].cbs # h.cbs
            /\ \A k \in 1 .. Len(All(t)) :
                 /\ TopAhead(t, k) => All(t)[k].top # h.marker
                 /\ BottomAhead(t, k) /\ All(t)[k].bottom = h.marker
                      => All(t)[k].cbs = h.cbs
                 /\ All(t)[k].cbs = h.cbs
                      => All(t)[k].top = Null /\ All(t)[k].bottom = h.marker

\* A helper whose marker says finished has been.
HelpersTrue ==
  \A h \in Helpers : HelperFinished(h) =>
    \A t \in Threads : \A k \in 1 .. Len(All(t)) :
      All(t)[k].cbs = h.cbs => k <= finished[t]

\* The GPU's kFinished in a tracked submit's word is not lost.
FinishedIsWritten ==
  \A id \in DOMAIN submit_infos_, t \in Threads : \A k \in 1 .. Len(All(t)) :
    submit_infos_[id].cbs = All(t)[k].cbs /\ k <= finished[t] =>
      word[submit_infos_[id].bottom_marker] = kFinished

\* When no driver call fails, the buffers of a tracked submit are queued or
\* about to be.
NoneIsLost ==
  Failures = {} =>
    \A id \in DOMAIN submit_infos_ :
      submit_infos_[id].cbs # Null =>
        \E t \in Threads : \E k \in 1 .. Len(All(t)) : submit_infos_[id].cbs = All(t)[k].cbs

\* Without sparse binds.
Clean == {kInvalid, CommandBufferValue}

\* A word that is free holds no SubmitState that a new owner could be misled
\* by.
FreeIsClean == \A w \in Free(markers) : word[w] \in Clean

\* A bottom word says kFinished only when the GPU has finished its submit.
FinishedIsTrue ==
  \A id \in DOMAIN submit_infos_ :
    word[submit_infos_[id].bottom_marker] = kFinished =>
      \E t \in Threads : \E k \in 1 .. finished[t] : submit_infos_[id].cbs = All(t)[k].cbs

\* A top word says kQueued and kRunning when the submit is.
TopIsTrue ==
  \A id \in DOMAIN submit_infos_ :
    /\ submit_infos_[id].cbs = Null => word[submit_infos_[id].top_marker] \in Clean
    /\ \A t \in Threads : \A k \in 1 .. Len(All(t)) :
         submit_infos_[id].cbs = All(t)[k].cbs =>
           IF All(t)[k].top = Null THEN word[submit_infos_[id].top_marker] \in Clean
           ELSE word[submit_infos_[id].top_marker] = IF k <= started[t] THEN kRunning ELSE kQueued

\* A submit that the GPU has not finished is tracked.
AheadIsTracked ==
  \A t \in Threads : \A k \in 1 .. Len(All(t)) :
    k > finished[t] /\ All(t)[k].top # Null =>
      \E id \in DOMAIN submit_infos_ : submit_infos_[id].cbs = All(t)[k].cbs

\* The buffers that the GPU has not finished, or that a call will submit, have
\* not been freed.
AheadIsNotFreed ==
  \A t \in Threads :
    /\ call[t].cbs \notin freed
    /\ \A k \in 1 .. Len(All(t)) : k > finished[t] => All(t)[k].cbs \notin freed

\* What the words say where no sparse bind recycles them.
WordsTrue ==
  ~BindSparse =>
    FreeIsClean /\ FinishedIsTrue /\ TopIsTrue /\ AheadIsTracked /\ AheadIsNotFreed

\* The inductive invariant.
IInv ==
  /\ Typed /\ FreeApart(markers) /\ CallsSound /\ IdsApart /\ BuffersApart
  /\ WritesApart /\ WritesHeld /\ InfosApart /\ InfosWritten /\ InfosRecorded
  /\ HelpersApart /\ HelpersTrue /\ FinishedIsWritten /\ NoneIsLost /\ WordsTrue
  /\ RegistriesAgree

\* What depends on the configuration alone stays with it.
LEMMA ConfigFixed ==
  ASSUME config' = config
  PROVE  /\ MaxWords' = MaxWords /\ Words' = Words /\ BindSparse' = BindSparse
         /\ Failures' = Failures /\ SubmitInfo' = SubmitInfo /\ Elements' = Elements
         /\ MarkerStates' = MarkerStates /\ Calls' = Calls
BY DEF MaxWords, Words, BindSparse, Failures, SubmitInfo, Elements,
   MarkerStates, Calls

\* The allocator has finitely many words.
LEMMA RoomIsNat == Typed => MaxWords \in Nat
BY ConfigAssumption DEF Typed, MaxWords

\* Sequences without the last element, and with one or several more.
LEMMA FrontIs ==
  ASSUME NEW S, NEW s \in Seq(S), s # <<>>
  PROVE  /\ Len(s) \in Nat \ {0} /\ Last(s) \in S /\ Last(s) \in ToSet(s)
         /\ Front(s) \in Seq(S) /\ Len(Front(s)) = Len(s) - 1
         /\ \A j \in 1 .. Len(s) - 1 : Front(s)[j] = s[j]
         /\ Once(s) => Once(Front(s)) /\ ToSet(Front(s)) = ToSet(s) \ {Last(s)}
<1> DEFINE f == SubSeq(s, 1, Len(s) - 1)
<1>1. Len(s) \in Nat \ {0} OBVIOUS
<1>2. Last(s) = s[Len(s)] /\ Front(s) = f BY DEF Last, Front
<1>3. /\ f \in Seq(S) /\ Len(f) = Len(s) - 1
      /\ \A j \in 1 .. Len(s) - 1 : f[j] = s[j]
  <2>1. 1 \in 1 .. Len(s) + 1 /\ Len(s) - 1 \in 0 .. Len(s) BY <1>1
  <2>2. PICK m \in Nat : m = Len(s) - 1 BY <1>1
  <2>3. \A j \in 1 .. m : s[j] \in S BY <1>1, <2>2, ElementOfSeq
  <2>4. /\ SubSeq(s, 1, m) \in Seq(S)
        /\ Len(SubSeq(s, 1, m)) = IF 1 <= m THEN m - 1 + 1 ELSE 0
        /\ \A j \in 1 .. m - 1 + 1 : SubSeq(s, 1, m)[j] = s[1 + j - 1]
    BY <1>1, <2>1, <2>2, <2>3, SubSeqProperties
  <2>5. f = SubSeq(s, 1, m) BY <2>2
  <2>6. QED BY <2>2, <2>4, <2>5
<1> HIDE DEF f
<1>4. Len(s) \in 1 .. Len(s) BY <1>1
<1>5. ASSUME Once(s) PROVE Once(f) BY <1>1, <1>3, <1>5 DEF Once
<1>6. ASSUME Once(s) PROVE ToSet(f) = ToSet(s) \ {s[Len(s)]}
  <2>1. \A x : x \in ToSet(f) <=> \E j \in 1 .. Len(s) - 1 : s[j] = x
    BY <1>1, <1>3 DEF ToSet
  <2>2. \A x : x \in ToSet(s) <=> \E j \in 1 .. Len(s) : s[j] = x BY DEF ToSet
  <2>3. \A j \in 1 .. Len(s) : j = Len(s) \/ j \in 1 .. Len(s) - 1 BY <1>1
  <2>4. \A j \in 1 .. Len(s) - 1 : j \in 1 .. Len(s) /\ s[j] # s[Len(s)]
    BY <1>1, <1>4, <1>6 DEF Once
  <2>5. QED BY <2>1, <2>2, <2>3, <2>4
<1>7. s[Len(s)] \in ToSet(s) BY <1>4 DEF ToSet
<1>8. s[Len(s)] \in S BY <1>4, ElementOfSeq
<1>9. QED BY <1>1, <1>2, <1>3, <1>5, <1>6, <1>7, <1>8

\* Concatenation: its elements, its set, and when nothing is repeated.
LEMMA ConcatIs ==
  ASSUME NEW S, NEW s \in Seq(S), NEW p \in Seq(S)
  PROVE  /\ Len(s) \in Nat /\ Len(p) \in Nat
         /\ s \o p \in Seq(S) /\ Len(s \o p) = Len(s) + Len(p)
         /\ \A j \in 1 .. Len(s) : (s \o p)[j] = s[j]
         /\ \A j \in 1 .. Len(p) : (s \o p)[Len(s) + j] = p[j]
         /\ ToSet(s \o p) = ToSet(s) \cup ToSet(p)
         /\ Once(s) /\ Once(p) /\ ToSet(s) \cap ToSet(p) = {} => Once(s \o p)
<1> DEFINE q == s \o p
<1>1. Len(s) \in Nat /\ Len(p) \in Nat OBVIOUS
<1>2. /\ q \in Seq(S) /\ Len(q) = Len(s) + Len(p)
      /\ \A j \in 1 .. Len(s) + Len(p) : q[j] = IF j <= Len(s) THEN s[j] ELSE p[j - Len(s)]
  BY ConcatProperties
<1> HIDE DEF q
<1>3. \A j \in 1 .. Len(s) : j \in 1 .. Len(q) /\ q[j] = s[j] BY <1>1, <1>2
<1>4. \A j \in 1 .. Len(p) : Len(s) + j \in 1 .. Len(q) /\ q[Len(s) + j] = p[j]
  <2> TAKE j \in 1 .. Len(p)
  <2>1. Len(s) + j \in 1 .. Len(q) /\ ~(Len(s) + j <= Len(s)) /\ Len(s) + j - Len(s) = j
    BY <1>1, <1>2
  <2>2. QED BY <1>2, <2>1
<1>5. \A j \in 1 .. Len(q) : j \in 1 .. Len(s) \/ \E k \in 1 .. Len(p) : j = Len(s) + k
  <2> TAKE j \in 1 .. Len(q)
  <2>1. CASE j <= Len(s) BY <1>1, <1>2, <2>1
  <2>2. CASE j > Len(s)
    <3>1. j - Len(s) \in 1 .. Len(p) /\ j = Len(s) + (j - Len(s))
      BY <1>1, <1>2, <2>2
    <3>2. QED BY <3>1
  <2>3. QED BY <1>1, <1>2, <2>1, <2>2
<1>6. ToSet(q) = ToSet(s) \cup ToSet(p)
  <2>1. \A x : x \in ToSet(q) <=> \E j \in 1 .. Len(q) : q[j] = x BY DEF ToSet
  <2>2. \A x : x \in ToSet(s) <=> \E j \in 1 .. Len(s) : s[j] = x BY DEF ToSet
  <2>3. \A x : x \in ToSet(p) <=> \E j \in 1 .. Len(p) : p[j] = x BY DEF ToSet
  <2>4. ASSUME NEW x \in ToSet(q) PROVE x \in ToSet(s) \/ x \in ToSet(p)
    <3>1. PICK j \in 1 .. Len(q) : q[j] = x BY <2>1
    <3>2. CASE j \in 1 .. Len(s) BY <1>3, <2>2, <3>1, <3>2
    <3>3. CASE \E k \in 1 .. Len(p) : j = Len(s) + k
      <4>1. PICK k \in 1 .. Len(p) : j = Len(s) + k BY <3>3
      <4>2. QED BY <1>4, <2>3, <3>1, <4>1
    <3>4. QED BY <1>5, <3>2, <3>3
  <2>5. \A x \in ToSet(s) : x \in ToSet(q) BY <1>3, <2>1, <2>2
  <2>6. \A x \in ToSet(p) : x \in ToSet(q) BY <1>4, <2>1, <2>3
  <2>7. QED BY <2>4, <2>5, <2>6
<1>7. ASSUME Once(s), Once(p), ToSet(s) \cap ToSet(p) = {} PROVE Once(q)
  <2>1. \A j \in 1 .. Len(s) : s[j] \in ToSet(s) BY DEF ToSet
  <2>2. \A j \in 1 .. Len(p) : p[j] \in ToSet(p) BY DEF ToSet
  <2>3. \A j, k \in 1 .. Len(s) : q[j] = q[k] => j = k BY <1>3, <1>7 DEF Once
  <2>4. \A j, k \in 1 .. Len(p) : q[Len(s) + j] = q[Len(s) + k] => j = k
    BY <1>4, <1>7 DEF Once
  <2>5. \A j \in 1 .. Len(s), k \in 1 .. Len(p) : q[j] # q[Len(s) + k]
    BY <1>3, <1>4, <1>7, <2>1, <2>2
  <2>6. QED BY <1>5, <2>3, <2>4, <2>5 DEF Once
<1>8. QED BY <1>1, <1>2, <1>3, <1>4, <1>6, <1>7 DEF q

\* Append: its elements, its set, and when nothing is repeated.
LEMMA AppendIs ==
  ASSUME NEW S, NEW s \in Seq(S), NEW e \in S
  PROVE  /\ Len(s) \in Nat
         /\ Append(s, e) \in Seq(S) /\ Len(Append(s, e)) = Len(s) + 1
         /\ \A j \in 1 .. Len(s) : Append(s, e)[j] = s[j]
         /\ Append(s, e)[Len(s) + 1] = e
         /\ ToSet(Append(s, e)) = ToSet(s) \cup {e}
         /\ Once(s) /\ e \notin ToSet(s) => Once(Append(s, e))
<1>1. <<e>> \in Seq(S) /\ Len(<<e>>) = 1 /\ <<e>>[1] = e OBVIOUS
<1>2. Append(s, e) = s \o <<e>> OBVIOUS
<1> DEFINE p == <<e>>
<1> HIDE DEF p
<1>3. \A j \in 1 .. 1 : j = 1 OBVIOUS
<1>4. ToSet(p) = {e} /\ Once(p) BY <1>1, <1>3 DEF p, ToSet, Once
<1>5. /\ s \o p \in Seq(S) /\ Len(s) \in Nat /\ Len(s \o p) = Len(s) + 1
      /\ \A j \in 1 .. Len(s) : (s \o p)[j] = s[j]
      /\ (s \o p)[Len(s) + 1] = e
      /\ ToSet(s \o p) = ToSet(s) \cup ToSet(p)
      /\ Once(s) /\ Once(p) /\ ToSet(s) \cap ToSet(p) = {} => Once(s \o p)
  <2>1. p \in Seq(S) /\ Len(p) = 1 /\ 1 \in 1 .. Len(p) /\ p[1] = e
    BY <1>1 DEF p
  <2>2. QED BY <2>1, ConcatIs
<1>6. QED BY <1>2, <1>4, <1>5 DEF p

-----------------------------------------------------------------------------

\* What is free is a word.
LEMMA FreeIsWords ==
  ASSUME MaxWords \in Nat, NEW m \in MarkerStates PROVE Free(m) \subseteq Words
BY DEF Free, MarkerStates, Words, ToSet

\* The free words of an allocator, from its fields.
LEMMA FreeWords ==
  ASSUME NEW r \in Seq(Words), NEW n
  PROVE  /\ FreeApart([recycled |-> r, next |-> n]) <=> Once(r) /\ \A w \in ToSet(r) : w < n
         /\ Free([recycled |-> r, next |-> n]) = ToSet(r) \cup n .. MaxWords
BY DEF FreeApart, Free, Once, ToSet

\* Recycle, spelled out.
LEMMA RecycleIs ==
  ASSUME NEW m \in MarkerStates, NEW w
  PROVE  Recycle(m, w) = [recycled |-> Append(m.recycled, w), next |-> m.next]
BY DEF Recycle, MarkerStates

\* AllocateMarker takes one word, and only that one, off the free ones.
LEMMA Takes ==
  ASSUME MaxWords \in Nat, NEW m \in MarkerStates, FreeApart(m), HasRoom(m)
  PROVE  /\ Allocated(m) \in Words /\ Allocated(m) \in Free(m)
         /\ Without(m) \in MarkerStates /\ FreeApart(Without(m))
         /\ Free(Without(m)) = Free(m) \ {Allocated(m)}
<1>1. PICK r, n : r = m.recycled /\ n = m.next OBVIOUS
<1>2. r \in Seq(Words) /\ n \in 1 .. MaxWords + 1 /\ m = [recycled |-> r, next |-> n]
  BY <1>1 DEF MarkerStates
<1>3. Once(r) /\ (\A w \in ToSet(r) : w < n) /\ Free(m) = ToSet(r) \cup n .. MaxWords
  BY <1>2, FreeWords
<1>4. CASE r # <<>>
  <2>1. PICK q, l : q = Front(r) /\ l = Last(r) OBVIOUS
  <2>2. Allocated(m) = l /\ Without(m) = [recycled |-> q, next |-> n]
    BY <1>1, <1>2, <1>4, <2>1 DEF Allocated, Without
  <2>3. q \in Seq(Words) /\ l \in Words /\ l \in ToSet(r) /\ Once(q) /\ ToSet(q) = ToSet(r) \ {l}
    BY <1>2, <1>3, <1>4, <2>1, FrontIs
  <2>4. l < n /\ l \notin n .. MaxWords BY <1>2, <1>3, <2>3 DEF Words
  <2>5. FreeApart(Without(m)) /\ Free(Without(m)) = ToSet(q) \cup n .. MaxWords
    BY <1>3, <2>2, <2>3, FreeWords
  <2>6. QED BY <1>2, <1>3, <2>2, <2>3, <2>4, <2>5 DEF MarkerStates
<1>5. CASE r = <<>>
  <2>1. n <= MaxWords /\ Allocated(m) = n /\ Without(m) = [recycled |-> r, next |-> n + 1]
    BY <1>1, <1>2, <1>5 DEF HasRoom, Allocated, Without
  <2>2. n .. MaxWords = {n} \cup (n + 1) .. MaxWords /\ n \notin (n + 1) .. MaxWords
    BY <1>2, <2>1
  <2>3. ToSet(r) = {} BY <1>5 DEF ToSet
  <2>4. FreeApart(Without(m)) /\ Free(Without(m)) = ToSet(r) \cup (n + 1) .. MaxWords
    <3>1. \A w \in ToSet(r) : w < n + 1 BY <2>3
    <3>2. QED BY <1>2, <1>3, <2>1, <3>1, FreeWords
  <2>5. QED BY <1>2, <1>3, <2>1, <2>2, <2>3, <2>4 DEF MarkerStates, Words
<1>6. QED BY <1>4, <1>5

\* FreeMarker gives one word back.
LEMMA Gives ==
  ASSUME MaxWords \in Nat, NEW m \in MarkerStates, FreeApart(m), NEW w \in Words \ Free(m)
  PROVE  /\ Recycle(m, w) \in MarkerStates /\ FreeApart(Recycle(m, w))
         /\ Free(Recycle(m, w)) = Free(m) \cup {w}
<1>1. PICK r, n : r = m.recycled /\ n = m.next OBVIOUS
<1>2. r \in Seq(Words) /\ n \in 1 .. MaxWords + 1 /\ m = [recycled |-> r, next |-> n]
  BY <1>1 DEF MarkerStates
<1>3. Once(r) /\ (\A x \in ToSet(r) : x < n) /\ Free(m) = ToSet(r) \cup n .. MaxWords
  BY <1>2, FreeWords
<1>4. w < n /\ w \notin ToSet(r)
  <2>1. PICK max \in Nat : max = MaxWords OBVIOUS
  <2>2. w \in 1 .. max /\ w \notin n .. max /\ w \notin ToSet(r)
    BY <1>3, <2>1 DEF Words
  <2>3. n \in 1 .. max + 1 BY <1>2, <2>1
  <2>4. QED BY <2>2, <2>3
<1>5. PICK q : q = Append(r, w) OBVIOUS
<1>6. Recycle(m, w) = [recycled |-> q, next |-> n]
  <2>1. Recycle(m, w) = [recycled |-> Append(m.recycled, w), next |-> m.next]
    BY RecycleIs
  <2>2. QED BY <1>1, <1>5, <2>1
<1>7. q \in Seq(Words) /\ ToSet(q) = ToSet(r) \cup {w} /\ Once(q)
  BY <1>2, <1>3, <1>4, <1>5, AppendIs
<1>8. FreeApart(Recycle(m, w)) /\ Free(Recycle(m, w)) = ToSet(q) \cup n .. MaxWords
  BY <1>3, <1>4, <1>6, <1>7, FreeWords
<1>9. QED BY <1>2, <1>3, <1>6, <1>7, <1>8 DEF MarkerStates

\* The type of a tracked helper submit.
HelperInfo == [marker : Words, cbs : Ids]

\* A cleanup gives the words of several helpers back.
LEMMA GivesAll ==
  ASSUME MaxWords \in Nat, NEW m \in MarkerStates, FreeApart(m), NEW hs \in Seq(HelperInfo),
         \A h \in ToSet(hs) : h.marker \notin Free(m),
         \A j, k \in 1 .. Len(hs) : hs[j].marker = hs[k].marker => j = k
  PROVE  /\ RecycleAll(m, hs) \in MarkerStates /\ FreeApart(RecycleAll(m, hs))
         /\ Free(RecycleAll(m, hs)) = Free(m) \cup {h.marker : h \in ToSet(hs)}
<1>1. PICK r, n : r = m.recycled /\ n = m.next OBVIOUS
<1>2. r \in Seq(Words) /\ n \in 1 .. MaxWords + 1 /\ m = [recycled |-> r, next |-> n]
  BY <1>1 DEF MarkerStates
<1>3. Once(r) /\ (\A x \in ToSet(r) : x < n) /\ Free(m) = ToSet(r) \cup n .. MaxWords
  BY <1>2, FreeWords
<1>4. PICK p : p = [k \in 1 .. Len(hs) |-> hs[k].marker] OBVIOUS
<1>5. Len(hs) \in Nat /\ \A k \in 1 .. Len(hs) : hs[k] \in ToSet(hs) /\ hs[k].marker \in Words
  <2>1. Len(hs) \in Nat /\ \A k \in 1 .. Len(hs) : hs[k] \in HelperInfo
    BY ElementOfSeq
  <2>2. QED BY <2>1 DEF ToSet, HelperInfo
<1>6. p \in Seq(Words) /\ Len(p) = Len(hs) /\ \A k \in 1 .. Len(hs) : p[k] = hs[k].marker
  BY <1>4, <1>5
<1>7. ToSet(p) = {h.marker : h \in ToSet(hs)}
  <2>1. \A x : x \in ToSet(p) <=> \E k \in 1 .. Len(hs) : hs[k].marker = x
    BY <1>6 DEF ToSet
  <2>2. \A h : h \in ToSet(hs) <=> \E k \in 1 .. Len(hs) : hs[k] = h
    BY DEF ToSet
  <2>3. QED BY <2>1, <2>2
<1>14. Once(p) BY <1>5, <1>6 DEF Once
<1>8. ASSUME NEW w \in ToSet(p) PROVE w < n /\ w \notin ToSet(r)
  <2>1. PICK h \in ToSet(hs) : h.marker = w BY <1>7
  <2>2. PICK k \in 1 .. Len(hs) : hs[k] = h BY DEF ToSet
  <2>3. PICK max \in Nat : max = MaxWords OBVIOUS
  <2>4. w \in Words /\ w \notin Free(m) BY <1>5, <2>1, <2>2
  <2>5. w \in 1 .. max /\ w \notin n .. max /\ w \notin ToSet(r)
    BY <1>3, <2>3, <2>4 DEF Words
  <2>6. n \in 1 .. max + 1 BY <1>2, <2>3
  <2>7. QED BY <2>5, <2>6
<1>9. PICK q : q = r \o p OBVIOUS
<1>10. RecycleAll(m, hs) = [recycled |-> q, next |-> n]
  <2>1. RecycleAll(m, hs) = [m EXCEPT !.recycled = q]
    BY <1>1, <1>4, <1>9 DEF RecycleAll
  <2>2. [m EXCEPT !.recycled = q] = [recycled |-> q, next |-> m.next]
    BY DEF MarkerStates
  <2>3. QED BY <1>1, <2>1, <2>2
<1>11. q \in Seq(Words) /\ ToSet(q) = ToSet(r) \cup ToSet(p) /\ Once(q)
  BY <1>2, <1>3, <1>6, <1>14, <1>8, <1>9, ConcatIs
<1>12. FreeApart(RecycleAll(m, hs)) /\ Free(RecycleAll(m, hs)) = ToSet(q) \cup n .. MaxWords
  BY <1>3, <1>8, <1>10, <1>11, FreeWords
<1>13. QED BY <1>2, <1>3, <1>7, <1>10, <1>11, <1>12 DEF MarkerStates

\* The elements of a queue and of a batch, in All.
LEMMA AllTyped ==
  ASSUME Typed, NEW t \in Threads
  PROVE  /\ All(t) \in Seq(Elements) /\ Len(All(t)) \in Nat
         /\ queue[t] \in Seq(Elements) /\ call[t].batch \in Seq(Elements)
         /\ Len(queue[t]) \in Nat /\ Len(call[t].batch) \in Nat
         /\ Len(All(t)) = Len(queue[t]) + Len(call[t].batch)
         /\ \A k \in 1 .. Len(queue[t]) : All(t)[k] = queue[t][k]
         /\ \A k \in 1 .. Len(call[t].batch) : All(t)[Len(queue[t]) + k] = call[t].batch[k]
<1>1. queue[t] \in Seq(Elements) /\ call[t].batch \in Seq(Elements)
  BY DEF Typed, Calls
<1>2. All(t) = queue[t] \o call[t].batch BY DEF All
<1>3. PICK q \in Seq(Elements), b \in Seq(Elements) : q = queue[t] /\ b = call[t].batch
  BY <1>1
<1>4. /\ q \o b \in Seq(Elements) /\ Len(q) \in Nat /\ Len(b) \in Nat
      /\ Len(q \o b) = Len(q) + Len(b)
      /\ \A k \in 1 .. Len(q) : (q \o b)[k] = q[k]
      /\ \A k \in 1 .. Len(b) : (q \o b)[Len(q) + k] = b[k]
  BY ONLY q \in Seq(Elements), b \in Seq(Elements), ConcatIs
<1>5. Len(q \o b) \in Nat BY <1>4
<1>6. QED BY <1>1, <1>2, <1>3, <1>4, <1>5

\* The GPU's counts never pass what the queue was given.
LEMMA CountsTyped ==
  ASSUME Typed, NEW t \in Threads
  PROVE  /\ started[t] \in Nat /\ finished[t] \in Nat
         /\ finished[t] <= started[t] /\ started[t] <= Len(queue[t])
         /\ finished[t] <= Len(All(t)) /\ started[t] <= Len(All(t))
<1>1. /\ started[t] \in Nat /\ finished[t] \in Nat
      /\ finished[t] <= started[t] /\ started[t] <= Len(queue[t])
  BY DEF Typed
<1>2. /\ Len(queue[t]) \in Nat /\ Len(call[t].batch) \in Nat
      /\ Len(All(t)) = Len(queue[t]) + Len(call[t].batch)
  BY AllTyped
<1>4. /\ \A a, b, c \in Nat : a <= b /\ b <= c => a <= c
      /\ \A a, b \in Nat : a + b \in Nat /\ a <= a + b
  OBVIOUS
<1>3. Len(queue[t]) <= Len(All(t)) /\ Len(All(t)) \in Nat BY ONLY <1>2, <1>4
<1>5. started[t] <= Len(All(t)) BY <1>1, <1>2, <1>3, <1>4
<1>6. finished[t] <= Len(All(t)) BY <1>1, <1>3, <1>4, <1>5
<1>7. QED BY <1>1, <1>5, <1>6

\* The fields of an element.
LEMMA ElementsTyped ==
  ASSUME Typed, NEW t \in Threads, NEW k \in 1 .. Len(All(t))
  PROVE  /\ k \in Nat \ {0}
         /\ All(t)[k] \in Elements /\ All(t)[k].cbs \in Nat \ {0} /\ All(t)[k].cbs \in Ids
         /\ All(t)[k].top \in Words \cup {Null} /\ All(t)[k].bottom \in Words \cup {Null}
<1>1. All(t) \in Seq(Elements) /\ Len(All(t)) \in Nat BY AllTyped
<1>2. All(t)[k] \in Elements BY <1>1, ElementOfSeq
<1>3. \A e \in Elements : e.cbs \in Ids /\ e.top \in Words \cup {Null} /\ e.bottom \in Words \cup {Null}
  BY DEF Elements
<1>4. Ids \subseteq Nat \ {0} BY BoundAssumption DEF Ids
<1>5. k \in Nat \ {0} BY <1>1
<1>6. PICK e \in Elements : e = All(t)[k] BY <1>2
<1>7. e.cbs \in Nat \ {0} BY <1>3, <1>4
<1>8. QED BY <1>3, <1>5, <1>6, <1>7

-----------------------------------------------------------------------------
(* A step that adds no element to a queue or a batch and no marker write to *)
(* an element: the others are left as they were, or are a beginning of      *)
(* what they were, and at most one call moves on.                           *)

\* Only new submits, with words that were free, are added to the registry.
InfosGrow ==
  \A id \in DOMAIN submit_infos_' :
    \/ id \in DOMAIN submit_infos_ /\ submit_infos_'[id] = submit_infos_[id]
    \/ /\ submit_infos_'[id].cbs = Null
       /\ submit_infos_'[id].top_marker \in Free(markers) \ Free(markers)'
       /\ submit_infos_'[id].bottom_marker \in Free(markers) \ Free(markers)'
       /\ submit_infos_'[id].top_marker # submit_infos_'[id].bottom_marker
       /\ \A ie \in DOMAIN submit_infos_' : ie # id => 
             ie \in DOMAIN submit_infos_ /\ submit_infos_'[ie] = submit_infos_[ie]
       /\ \A t \in Threads : call'[t] = call[t] => call'[t].id # id \/ call'[t].pc \notin InStep

\* A step that records nothing: elements and words in use are given up or stay,
\* and a call that gets buffers gets new ones.
Narrows ==
  /\ config' = config
  /\ allocated \in Nat /\ allocated' \in Nat /\ allocated <= allocated'
  /\ \A t \in Threads :
       /\ Len(All(t)) \in Nat /\ Len(All(t)') \in 0 .. Len(All(t))
       /\ \A k \in 1 .. Len(All(t)') : All(t)'[k] = All(t)[k]
       /\ started[t] \in Nat /\ started'[t] \in Nat /\ started[t] <= started'[t]
       /\ finished[t] \in Nat /\ finished'[t] \in Nat /\ finished[t] <= finished'[t]
       /\ Failures = {} => Len(All(t)') = Len(All(t))
       /\ \/ call'[t] = call[t] /\ Len(All(t)') = Len(All(t))
          \/ /\ call[t].pc \notin InStep /\ call'[t].pc \notin {"start", "finish"}
             /\ \/ call'[t].pc # "store" /\ call'[t].cbs = Null
                \/ /\ call'[t].cbs = allocated + 1 /\ allocated' = allocated + 1
                   /\ call'[t].id \notin DOMAIN submit_infos_
             /\ \A u \in Threads \ {t} : call'[u] = call[u]
  /\ Free(markers)' \subseteq Free(markers)
  /\ helper_submit_infos_' = helper_submit_infos_
  /\ InfosGrow

\* The parts of the invariant that say who owns which word and which buffers.
Structure ==
  /\ BuffersApart /\ WritesApart /\ WritesHeld /\ InfosApart /\ InfosWritten
  /\ InfosRecorded /\ HelpersApart /\ NoneIsLost

\* The elements that such a step leaves were there before, and await no more
\* writes.
LEMMA NarrowsAhead ==
  ASSUME Narrows, NEW t \in Threads, NEW k \in 1 .. Len(All(t)')
  PROVE  /\ k \in 1 .. Len(All(t)) /\ All(t)'[k] = All(t)[k]
         /\ TopAhead(t, k)' => TopAhead(t, k)
         /\ BottomAhead(t, k)' => BottomAhead(t, k)
<1>1. k \in 1 .. Len(All(t)) /\ All(t)'[k] = All(t)[k] BY DEF Narrows
<1>2. TopAhead(t, k)' => TopAhead(t, k) BY <1>1 DEF Narrows, TopAhead
<1>3. BottomAhead(t, k)' => BottomAhead(t, k) BY <1>1 DEF Narrows, BottomAhead
<1>4. QED BY <1>1, <1>2, <1>3

\* Such a step keeps the buffers of all elements and calls apart.
LEMMA NarrowsBuffers ==
  ASSUME Narrows, BuffersApart, Typed, CallsSound PROVE BuffersApart'
<1>1. ASSUME NEW t \in Threads, NEW u \in Threads,
             NEW j \in 1 .. Len(All(t)'), NEW k \in 1 .. Len(All(u)'),
             All(t)'[j].cbs = All(u)'[k].cbs
      PROVE  t = u /\ j = k
  BY <1>1, NarrowsAhead DEF BuffersApart
<1>2. ASSUME NEW t \in Threads, NEW j \in 1 .. Len(All(t)') PROVE All(t)'[j].cbs <= allocated /\ All(t)'[j].cbs <= allocated'
  <2>1. All(t)'[j] = All(t)[j] /\ All(t)[j].cbs <= allocated
    BY NarrowsAhead DEF BuffersApart
  <2>2. All(t)[j].cbs \in Ids BY ElementsTyped, NarrowsAhead
  <2>3. QED BY <2>1, <2>2, BoundAssumption DEF Narrows, Ids
<1>3. ASSUME NEW t \in Threads, NEW u \in Threads, call'[t].pc = "store"
      PROVE  /\ \A k \in 1 .. Len(All(u)') : All(u)'[k].cbs # call'[t].cbs
             /\ call'[u].pc = "store" /\ call'[u].cbs = call'[t].cbs => t = u
  <2>1. \A v \in Threads : \/ call'[v] = call[v]
                           \/ /\ call'[v].pc = "store" => call'[v].cbs = allocated + 1
                              /\ \A w \in Threads \ {v} : call'[w] = call[w]
    BY DEF Narrows
  <2>2. \A v \in Threads : call[v].pc = "store" => call[v].cbs \in 1 .. allocated
    BY DEF CallsSound, InStep
  <2>3. ASSUME NEW k \in 1 .. Len(All(u)') PROVE All(u)'[k].cbs # call'[t].cbs
    <3>1. CASE call'[t] = call[t] BY <1>3, <3>1, NarrowsAhead DEF BuffersApart
    <3>2. CASE call'[t].cbs = allocated + 1
      <4>1. All(u)'[k].cbs <= allocated BY <1>2
      <4>2. QED BY <3>2, <4>1 DEF Narrows
    <3>3. QED BY <1>3, <2>1, <3>1, <3>2
  <2>4. ASSUME call'[u].pc = "store", call'[u].cbs = call'[t].cbs PROVE t = u
    <3>1. allocated \in Nat BY DEF Narrows
    <3>2. CASE call'[t] = call[t] /\ call'[u] = call[u]
      BY <1>3, <2>4, <3>2 DEF BuffersApart
    <3>3. QED BY <1>3, <2>1, <2>2, <2>4, <3>1, <3>2
  <2>5. QED BY <2>3, <2>4
<1>4. QED BY <1>1, <1>2, <1>3 DEF BuffersApart

\* Such a step keeps the GPU's pending writes apart, and off the free words.
LEMMA NarrowsWrites ==
  ASSUME Narrows, WritesApart, WritesHeld PROVE WritesApart' /\ WritesHeld'
<1>1. WritesApart' BY NarrowsAhead DEF WritesApart
<1>2. WritesHeld'
  <2>1. Free(markers)' \subseteq Free(markers) BY DEF Narrows
  <2>2. QED BY <2>1, NarrowsAhead DEF WritesHeld
<1>3. QED BY <1>1, <1>2

\* Such a step keeps the tracked submits apart, and their writes recorded.
LEMMA NarrowsInfos ==
  ASSUME Narrows, Typed, CallsSound, WritesHeld, InfosApart, InfosWritten, InfosRecorded, BuffersApart
  PROVE  InfosApart' /\ InfosWritten' /\ InfosRecorded'
<1> DEFINE Old(id) == id \in DOMAIN submit_infos_ /\ submit_infos_'[id] = submit_infos_[id]
           New(id) == /\ submit_infos_'[id].cbs = Null
                      /\ WordsOf(id)' \subseteq Free(markers) \ Free(markers)'
                      /\ submit_infos_'[id].top_marker # submit_infos_'[id].bottom_marker
                      /\ \A ie \in DOMAIN submit_infos_' : ie # id => Old(ie)
                      /\ \A t \in Threads : call'[t] = call[t] => call'[t].id # id \/ call'[t].pc \notin InStep
<1>1. \A id \in DOMAIN submit_infos_' : Old(id) \/ New(id)
  BY DEF Narrows, InfosGrow, WordsOf
<1>2. \A id \in DOMAIN submit_infos_' : Old(id) => WordsOf(id)' = WordsOf(id)
  BY DEF WordsOf
<1>3. Free(markers)' \subseteq Free(markers) BY DEF Narrows
<1>4. \A t \in Threads : \/ call'[t] = call[t] /\ Len(All(t)') = Len(All(t))
                         \/ /\ call[t].pc \notin InStep /\ call'[t].pc \notin {"start", "finish"}
                            /\ call'[t].pc = "store" =>
                                 call'[t].cbs = allocated + 1 /\ call'[t].id \notin DOMAIN submit_infos_
  BY DEF Narrows
<1>5. allocated \in Nat /\ allocated' \in Nat /\ allocated <= allocated'
  BY DEF Narrows
<1>6. \A id \in DOMAIN submit_infos_ : submit_infos_[id].cbs \in Nat
  BY BoundAssumption DEF Typed, SubmitInfo
<1>7. \A t \in Threads : \A k \in 1 .. Len(All(t)) : All(t)[k].cbs # Null
  BY ElementsTyped DEF Null
<1> HIDE DEF Old, New
<1>8. \A id \in DOMAIN submit_infos_' : submit_infos_'[id].cbs # Null => Old(id)
  BY <1>1 DEF New
<1>10. InfosApart'
  <2>1. ASSUME NEW id \in DOMAIN submit_infos_'
        PROVE  /\ submit_infos_'[id].top_marker # submit_infos_'[id].bottom_marker
               /\ WordsOf(id)' \cap Free(markers)' = {}
               /\ submit_infos_'[id].cbs <= allocated'
    <3>1. CASE Old(id) BY <1>2, <1>3, <1>5, <1>6, <3>1 DEF Old, InfosApart
    <3>2. CASE New(id) BY <1>5, <3>2 DEF New, Null
    <3>3. QED BY <1>1, <3>1, <3>2
  <2>2. ASSUME NEW id \in DOMAIN submit_infos_', NEW ie \in DOMAIN submit_infos_', id # ie
        PROVE  /\ WordsOf(id)' \cap WordsOf(ie)' = {}
               /\ submit_infos_'[id].cbs = submit_infos_'[ie].cbs => submit_infos_'[id].cbs = Null
    <3>1. CASE Old(id) /\ Old(ie) BY <1>2, <2>2, <3>1 DEF Old, InfosApart
    <3>2. CASE New(id) /\ Old(ie)
      <4>1. WordsOf(ie)' \cap Free(markers) = {}
        BY <1>2, <3>2 DEF Old, InfosApart
      <4>2. QED BY <3>2, <4>1 DEF New
    <3>3. CASE Old(id) /\ New(ie)
      <4>1. WordsOf(id)' \cap Free(markers) = {}
        BY <1>2, <3>3 DEF Old, InfosApart
      <4>2. QED BY <3>3, <4>1 DEF New
    <3>4. QED BY <1>1, <2>2, <3>1, <3>2, <3>3 DEF New
  <2>3. ASSUME NEW id \in DOMAIN submit_infos_', NEW t \in Threads, call'[t].pc = "store"
        PROVE  /\ submit_infos_'[id].cbs # call'[t].cbs
               /\ call'[t].id = id => submit_infos_'[id].cbs = Null
    <3>1. call'[t].cbs \in Nat \ {0}
      <4>1. CASE call'[t] = call[t] BY <1>5, <2>3, <4>1 DEF CallsSound, InStep
      <4>2. QED BY <1>4, <1>5, <2>3, <4>1
    <3>2. CASE submit_infos_'[id].cbs = Null BY <3>1, <3>2 DEF Null
    <3>3. CASE submit_infos_'[id].cbs # Null
      <4>1. Old(id) BY <1>8, <3>3
      <4>2. submit_infos_'[id].cbs = submit_infos_[id].cbs /\ submit_infos_[id].cbs <= allocated
        BY <4>1 DEF Old, InfosApart
      <4>3. CASE call'[t] = call[t] BY <2>3, <4>1, <4>3 DEF Old, InfosApart
      <4>4. CASE call'[t].cbs = allocated + 1 /\ call'[t].id \notin DOMAIN submit_infos_
        BY <1>5, <1>6, <4>1, <4>2, <4>4 DEF Old
      <4>5. QED BY <1>4, <2>3, <4>3, <4>4
    <3>4. QED BY <3>2, <3>3
  <2>4. ASSUME NEW id \in DOMAIN submit_infos_', NEW t \in Threads,
               call'[t].pc \in {"start", "finish"}, call'[t].id = id
        PROVE  submit_infos_'[id].cbs = call'[t].cbs
    <3>1. call'[t] = call[t] BY <1>4, <2>4
    <3>2. Old(id) BY <1>1, <2>4, <3>1 DEF New, InStep
    <3>3. QED BY <2>4, <3>1, <3>2 DEF Old, InfosApart
  <2>5. QED BY <2>1, <2>2, <2>3, <2>4 DEF InfosApart
<1>11. InfosWritten'
  <2>1. SUFFICES ASSUME NEW id \in DOMAIN submit_infos_', NEW t \in Threads, NEW k \in 1 .. Len(All(t)')
        PROVE  /\ TopAhead(t, k)' /\ All(t)'[k].top \in WordsOf(id)' => submit_infos_'[id].cbs = All(t)'[k].cbs
               /\ BottomAhead(t, k)' /\ All(t)'[k].bottom \in WordsOf(id)' => submit_infos_'[id].cbs = All(t)'[k].cbs
    BY DEF InfosWritten
  <2>2. /\ k \in 1 .. Len(All(t)) /\ All(t)'[k] = All(t)[k]
        /\ TopAhead(t, k)' => TopAhead(t, k)
        /\ BottomAhead(t, k)' => BottomAhead(t, k)
    BY NarrowsAhead
  <2>3. CASE Old(id) BY <1>2, <2>2, <2>3 DEF Old, InfosWritten
  <2>4. CASE New(id) BY <2>2, <2>4 DEF New, WritesHeld
  <2>5. QED BY <1>1, <2>3, <2>4
<1>12. InfosRecorded'
  <2>1. SUFFICES ASSUME NEW id \in DOMAIN submit_infos_', NEW t \in Threads, NEW k \in 1 .. Len(All(t)'),
                        submit_infos_'[id].cbs = All(t)'[k].cbs
        PROVE  /\ All(t)'[k].top = IF Current(id, t, k)' /\ call'[t].pc = "start" THEN Null
                                   ELSE submit_infos_'[id].top_marker
               /\ All(t)'[k].bottom = IF Current(id, t, k)' THEN Null
                                      ELSE submit_infos_'[id].bottom_marker
    BY DEF InfosRecorded
  <2>2. k \in 1 .. Len(All(t)) /\ All(t)'[k] = All(t)[k] BY NarrowsAhead
  <2>3. Old(id) BY <1>7, <1>8, <2>1, <2>2
  <2>4. Current(id, t, k)' <=> Current(id, t, k) BY <1>4 DEF Current, InStep
  <2>5. Current(id, t, k) => call'[t] = call[t] BY <1>4 DEF Current, InStep
  <2>6. QED BY <2>1, <2>2, <2>3, <2>4, <2>5 DEF Old, InfosRecorded
<1>13. QED BY <1>10, <1>11, <1>12

\* The fields of a tracked helper submit.
LEMMA HelpersTyped ==
  ASSUME Typed, NEW h \in Helpers
  PROVE  /\ h \in HelperInfo /\ h.marker \in Words
         /\ h.cbs \in Nat \ {0} /\ h.cbs \in Ids /\ h.cbs # Null
<1>1. helper_submit_infos_ \in Seq(HelperInfo) BY DEF Typed, HelperInfo
<1>2. PICK k \in 1 .. Len(helper_submit_infos_) : helper_submit_infos_[k] = h
  BY DEF Helpers, ToSet
<1>3. h \in HelperInfo BY <1>1, <1>2, ElementOfSeq
<1>4. Ids \subseteq Nat \ {0} BY BoundAssumption DEF Ids
<1>5. QED BY <1>3, <1>4 DEF HelperInfo, Null

\* Such a step keeps the words and the buffers of the helper submits apart.
LEMMA NarrowsHelpers ==
  ASSUME Narrows, Typed, HelpersApart PROVE HelpersApart'
<1>1. /\ config' = config /\ Free(markers)' \subseteq Free(markers)
      /\ helper_submit_infos_' = helper_submit_infos_ /\ allocated \in Nat /\ allocated' \in Nat
      /\ allocated <= allocated'
  BY DEF Narrows
<1>2. BindSparse' = BindSparse BY <1>1, ConfigFixed
<1>3. Helpers' = Helpers BY <1>1 DEF Helpers
<1>4. ASSUME NEW h \in Helpers
      PROVE  /\ h.marker \notin Free(markers)'
             /\ h.cbs <= allocated'
  BY <1>1, HelpersTyped DEF HelpersApart
<1>5. ASSUME NEW h \in Helpers, NEW id \in DOMAIN submit_infos_'
      PROVE  /\ h.marker \notin WordsOf(id)'
             /\ h.cbs # submit_infos_'[id].cbs
  <2>1. CASE id \in DOMAIN submit_infos_ /\ submit_infos_'[id] = submit_infos_[id]
    BY <2>1 DEF HelpersApart, WordsOf
  <2>2. CASE /\ submit_infos_'[id].cbs = Null
             /\ submit_infos_'[id].top_marker \in Free(markers)
             /\ submit_infos_'[id].bottom_marker \in Free(markers)
    BY <2>2, HelpersTyped DEF HelpersApart, WordsOf
  <2>3. QED BY <2>1, <2>2 DEF Narrows, InfosGrow
<1>6. ASSUME NEW h \in Helpers, NEW t \in Threads PROVE call'[t].cbs # h.cbs
  <2>1. CASE call'[t] = call[t] BY <2>1 DEF HelpersApart
  <2>2. CASE call'[t].cbs = Null BY <2>2, HelpersTyped
  <2>3. CASE call'[t].cbs = allocated + 1
    <3>1. h.cbs <= allocated /\ h.cbs \in Nat
      BY HelpersTyped DEF HelpersApart
    <3>2. QED BY <1>1, <2>3, <3>1
  <2>4. QED BY <2>1, <2>2, <2>3 DEF Narrows
<1>7. ASSUME NEW h \in Helpers, NEW t \in Threads, NEW k \in 1 .. Len(All(t)')
      PROVE  /\ TopAhead(t, k)' => All(t)'[k].top # h.marker
             /\ BottomAhead(t, k)' /\ All(t)'[k].bottom = h.marker
                  => All(t)'[k].cbs = h.cbs
             /\ All(t)'[k].cbs = h.cbs
                  => All(t)'[k].top = Null /\ All(t)'[k].bottom = h.marker
  BY NarrowsAhead DEF HelpersApart
<1>8. QED BY <1>1, <1>2, <1>3, <1>4, <1>5, <1>6, <1>7 DEF HelpersApart

\* Such a step loses the buffers of no tracked submit.
LEMMA NarrowsLost ==
  ASSUME Narrows, NoneIsLost PROVE NoneIsLost'
<1>1. Failures' = Failures BY ConfigFixed DEF Narrows
<1>2. SUFFICES ASSUME Failures = {}, NEW id \in DOMAIN submit_infos_', submit_infos_'[id].cbs # Null
      PROVE  \E t \in Threads : \E k \in 1 .. Len(All(t)') : submit_infos_'[id].cbs = All(t)'[k].cbs
  BY <1>1 DEF NoneIsLost
<1>3. id \in DOMAIN submit_infos_ /\ submit_infos_'[id] = submit_infos_[id]
  BY <1>2 DEF Narrows, InfosGrow
<1>4. PICK t \in Threads : \E k \in 1 .. Len(All(t)) : submit_infos_[id].cbs = All(t)[k].cbs
  BY <1>2, <1>3 DEF NoneIsLost
<1>7. PICK k \in 1 .. Len(All(t)) : submit_infos_[id].cbs = All(t)[k].cbs
  BY <1>4
<1>5. k \in 1 .. Len(All(t)') BY <1>2 DEF Narrows
<1>6. QED BY <1>3, <1>5, <1>7, NarrowsAhead

\* Such a step keeps all of Structure.
LEMMA NarrowsStructure ==
  ASSUME Narrows, Typed, CallsSound, Structure PROVE Structure'
BY NarrowsBuffers, NarrowsWrites, NarrowsInfos, NarrowsHelpers, NarrowsLost DEF
   Structure

\* A step of one thread's call and queue.
Others(t) == \A u \in Threads \ {t} : call'[u] = call[u] /\ queue'[u] = queue[u]

\* The elements of the others stay.
LEMMA OthersKeep ==
  ASSUME NEW t \in Threads, Others(t), NEW u \in Threads \ {t}
  PROVE  call'[u] = call[u] /\ All(u)' = All(u)
BY DEF Others, All

\* A step of one thread that adds nothing to what it has.
LEMMA NarrowsBy ==
  ASSUME Typed, Typed', NEW t \in Threads, Others(t), config' = config,
         call[t].pc \notin InStep, call'[t].pc \notin {"start", "finish"},
         \/ call'[t].pc # "store" /\ call'[t].cbs = Null /\ allocated' = allocated
         \/ /\ call'[t].cbs = allocated + 1 /\ allocated' = allocated + 1
            /\ call'[t].id \notin DOMAIN submit_infos_,
         \/ All(t)' = All(t)
         \/ queue'[t] = queue[t] /\ call'[t].batch = <<>> /\ Failures # {},
         Free(markers)' \subseteq Free(markers),
         UNCHANGED <<helper_submit_infos_, started, finished>>,
         InfosGrow
  PROVE  Narrows
<1>1. allocated \in Nat /\ allocated' \in Nat /\ allocated <= allocated'
  BY BoundAssumption DEF Typed
<1>2. ASSUME NEW u \in Threads
      PROVE  /\ Len(All(u)) \in Nat /\ Len(All(u)') \in 0 .. Len(All(u))
             /\ \A k \in 1 .. Len(All(u)') : All(u)'[k] = All(u)[k]
             /\ Failures = {} => Len(All(u)') = Len(All(u))
  <2>1. Len(All(u)) \in Nat BY AllTyped
  <2>2. CASE All(u)' = All(u) BY <2>1, <2>2
  <2>3. CASE u = t /\ queue'[t] = queue[t] /\ call'[t].batch = <<>> /\ Failures # {}
    <3>1. All(t)' = queue[t] \o <<>> BY <2>3 DEF All
    <3>2. queue[t] \o <<>> = queue[t] BY AllTyped
    <3>3. /\ Len(queue[t]) \in Nat /\ Len(call[t].batch) \in Nat
          /\ Len(All(t)) = Len(queue[t]) + Len(call[t].batch)
          /\ \A k \in 1 .. Len(queue[t]) : All(t)[k] = queue[t][k]
      BY AllTyped
    <3>4. Len(queue[t]) \in 0 .. Len(All(t))
      <4>1. \A a, b \in Nat : a \in 0 .. a + b OBVIOUS
      <4>2. QED BY <3>3, <4>1
    <3>5. QED BY <2>1, <2>3, <3>1, <3>2, <3>3, <3>4
  <2>4. QED BY <2>2, <2>3, OthersKeep
<1>3. \A u \in Threads : started[u] \in Nat /\ finished[u] \in Nat
  BY CountsTyped
<1>4. ASSUME NEW u \in Threads
      PROVE  \/ call'[u] = call[u] /\ Len(All(u)') = Len(All(u))
             \/ /\ call[u].pc \notin InStep /\ call'[u].pc \notin {"start", "finish"}
                /\ \/ call'[u].pc # "store" /\ call'[u].cbs = Null
                   \/ /\ call'[u].cbs = allocated + 1 /\ allocated' = allocated + 1
                      /\ call'[u].id \notin DOMAIN submit_infos_
                /\ \A v \in Threads \ {u} : call'[v] = call[v]
  BY OthersKeep
<1>5. QED BY <1>1, <1>2, <1>3, <1>4 DEF Narrows

\* A registry that stays has no new submits.
LEMMA SameInfosGrow == submit_infos_' = submit_infos_ => InfosGrow
BY DEF InfosGrow

\* A step of the GPU or of a command buffer.
LEMMA NarrowsQuietly ==
  ASSUME Typed, Typed', config' = config, Free(markers)' \subseteq Free(markers),
         UNCHANGED <<call, queue, allocated, submit_infos_, helper_submit_infos_>>,
         \A t \in Threads : started[t] <= started'[t] /\ finished[t] <= finished'[t]
  PROVE  Narrows /\ \A t \in Threads : All(t)' = All(t)
<1>1. allocated \in Nat BY BoundAssumption DEF Typed
<1>2. \A t \in Threads : All(t)' = All(t) BY DEF All
<1>3. \A t \in Threads : Len(All(t)) \in Nat BY AllTyped
<1>4. \A t \in Threads : /\ started[t] \in Nat /\ finished[t] \in Nat
                         /\ started'[t] \in Nat /\ finished'[t] \in Nat
  BY CountsTyped DEF Typed
<1>5. QED BY <1>1, <1>2, <1>3, <1>4, SameInfosGrow DEF Narrows

\* The parts of the invariant that type the state and the registries.
Basics == Typed /\ FreeApart(markers) /\ CallsSound /\ IdsApart /\ RegistriesAgree

\* The fields of a call.
LEMMA CallIs ==
  ASSUME Typed, NEW t \in Threads
  PROVE  /\ call[t] \in Calls /\ call[t].pc \in Pcs /\ call[t].qid \in Nat /\ call[t].left \in 0 .. MaxCount
         /\ call[t].id \in 0 .. MaxBuffers /\ call[t].cbs \in 0 .. MaxBuffers
         /\ call[t].batch \in Seq(Elements)
BY DEF Typed, Calls

\* The new call of a thread.
LEMMA CallBecomes ==
  ASSUME Typed, Elements' = Elements, NEW t \in Threads, NEW r \in Calls, call' = [call EXCEPT ![t] = r]
  PROVE  /\ call' \in [Threads -> Calls] /\ call'[t] = r
         /\ \A u \in Threads \ {t} : call'[u] = call[u]
BY DEF Typed

\* A call that begins.
BeginsAt(pc, count, qid) ==
  [pc |-> pc, qid |-> qid, left |-> count, id |-> Invalid, cbs |-> Null, batch |-> <<>>]

\* An idle call that QueueSubmit begins is BeginsAt.
LEMMA IdleBegins ==
  ASSUME NEW p, NEW count, NEW n
  PROVE  [Idle EXCEPT !.pc = p, !.left = count, !.qid = n] = BeginsAt(p, count, n)
<1>1. PICK r : r = [Idle EXCEPT !.pc = p, !.left = count, !.qid = n] OBVIOUS
<1>2. r = [pc |-> p, qid |-> n, left |-> count, id |-> Invalid, cbs |-> Null, batch |-> <<>>]
  BY <1>1 DEF Idle
<1>3. QED BY <1>1, <1>2 DEF BeginsAt

\* An idle call that QueueBindSparse begins is BeginsAt.
LEMMA IdleBindBegins ==
  ASSUME NEW p, NEW count
  PROVE  [Idle EXCEPT !.pc = p, !.left = count] = BeginsAt(p, count, 0)
<1>1. PICK r : r = [Idle EXCEPT !.pc = p, !.left = count] OBVIOUS
<1>2. r = [pc |-> p, qid |-> 0, left |-> count, id |-> Invalid, cbs |-> Null, batch |-> <<>>]
  BY <1>1 DEF Idle
<1>3. QED BY <1>1, <1>2 DEF BeginsAt

\* A call that begins keeps the basics and records nothing.
LEMMA BeginSteps ==
  ASSUME Basics, config' = config, NEW t \in Threads, NEW count \in 1 .. MaxCount,
         SubmitBegins(t, count) \/ BindBegins(t, count)
  PROVE  Basics' /\ Narrows /\ UNCHANGED <<word, freed, started, finished, submit_infos_>>
<1>1. PICK pc \in {"register", "record"}, qid \in Nat :
        /\ call' = [call EXCEPT ![t] = BeginsAt(pc, count, qid)]
        /\ pc = "record" => BindSparse
  <2>1. CASE SubmitBegins(t, count)
    <3>1. queue_submit_index_ + 1 \in Nat BY DEF Basics, Typed
    <3>2. QED BY <2>1, <3>1, IdleBegins DEF SubmitBegins
  <2>2. CASE BindBegins(t, count)
    BY <2>2, IdleBindBegins DEF BindBegins
  <2>3. QED BY <2>1, <2>2
<1>2. PICK r : r = BeginsAt(pc, count, qid) OBVIOUS
<1>3. r = [pc |-> pc, qid |-> qid, left |-> count, id |-> Invalid, cbs |-> Null, batch |-> <<>>]
  BY <1>2 DEF BeginsAt
<1>4. r \in Calls BY <1>3, BoundAssumption DEF Calls, Pcs, Invalid, Null
<1>5. /\ call' \in [Threads -> Calls] /\ call'[t] = r
      /\ \A u \in Threads \ {t} : call'[u] = call[u]
  BY <1>1, <1>2, <1>4, ConfigFixed, CallBecomes DEF Basics
<1>6. call[t].pc = "idle" /\ call[t].batch = <<>>
  BY DEF SubmitBegins, BindBegins, Basics, CallsSound, Idle
<1>7. UNCHANGED <<word, markers, tracker, helper_submit_infos_, allocated, freed, gpu>>
      /\ queue_submit_index_' \in Nat
  BY DEF SubmitBegins, BindBegins, Basics, Typed
<1>8. Typed' BY <1>5, <1>7, ConfigFixed DEF Basics, Typed, tracker, gpu
<1>9. CallsSound'
  <2>1. \A u \in Threads \ {t} : call'[u] = call[u] BY <1>5
  <2>2. allocated' = allocated /\ submit_info_counter' = submit_info_counter /\ BindSparse' = BindSparse
    BY <1>7, ConfigFixed DEF tracker
  <2>3. call'[t].pc \notin InStep /\ call'[t].pc # "idle" /\ call'[t].cbs = Null
        /\ (call'[t].pc = "record" => BindSparse /\ call'[t].left > 0)
    BY <1>1, <1>3, <1>5 DEF InStep
  <2>4. QED BY <2>1, <2>2, <2>3 DEF Basics, CallsSound, InStep
<1>10. IdsApart' /\ RegistriesAgree' /\ FreeApart(markers)'
  BY <1>1, <1>3, <1>5, <1>7 DEF Basics, IdsApart, InStep, RegistriesAgree,
     FreeApart, tracker
<1>11. Narrows
  <2>1. All(t)' = All(t)
    BY <1>3, <1>5, <1>6, <1>7 DEF All, gpu
  <2>2. Others(t) BY <1>5, <1>7 DEF Others, gpu
  <2>3. Free(markers)' = Free(markers) BY <1>7, ConfigFixed DEF Free
  <2>4. InfosGrow BY <1>7, SameInfosGrow DEF tracker
  <2>5. /\ call[t].pc \notin InStep /\ call'[t].pc \notin {"start", "finish"}
        /\ call'[t].pc # "store" /\ call'[t].cbs = Null /\ allocated' = allocated
    BY <1>1, <1>3, <1>5, <1>6, <1>7 DEF InStep
  <2>6. UNCHANGED <<helper_submit_infos_, started, finished>> BY <1>7 DEF gpu
  <2>7. QED BY <1>8, <2>1, <2>2, <2>3, <2>4, <2>5, <2>6, NarrowsBy DEF Basics
<1>12. QED BY <1>7, <1>8, <1>9, <1>10, <1>11 DEF Basics, tracker, gpu

\* A call that ends, or sends a helper: what is kept of it is given to the queue.
LEMMA SendSteps ==
  ASSUME Basics, config' = config, NEW t \in Threads,
         AllocateFails(t) \/ QueueSubmit(t) \/ SendHelper(t)
  PROVE  Basics' /\ Narrows /\ UNCHANGED <<word, freed, started, finished, submit_infos_>>
<1>1. /\ call[t] \in Calls /\ call[t].batch \in Seq(Elements) /\ call[t].left \in 0 .. MaxCount
      /\ call[t].qid \in Nat /\ call[t].id \in 0 .. MaxBuffers
      /\ queue[t] \in Seq(Elements)
  BY CallIs DEF Basics, Typed
<1>2. UNCHANGED <<word, markers, tracker, queue_submit_index_, helper_submit_infos_, allocated,
                  freed, started, finished>>
  BY DEF AllocateFails, QueueSubmit, SendHelper, gpu
<1>3. call[t].pc \in {"register", "record"} /\ call[t].cbs = Null
  BY DEF AllocateFails, QueueSubmit, SendHelper, Registering, Basics,
     CallsSound, InStep
<1>4. Idle \in Calls BY BoundAssumption DEF Idle, Calls, Pcs, Invalid, Null
<1> DEFINE Sends(r, q) ==
             /\ call' = [call EXCEPT ![t] = r] /\ queue' = [queue EXCEPT ![t] = q]
             /\ \/ q \o r.batch = queue[t] \o call[t].batch
                \/ q = queue[t] /\ r.batch = <<>> /\ Failures # {}
             /\ Len(queue[t]) <= Len(q)
             /\ \/ r = Idle
                \/ r.pc = "record" /\ r.cbs = Null /\ r.batch # <<>> /\ BindSparse
<1> HIDE DEF Sends
<1>5. PICK r \in Calls, q \in Seq(Elements) : Sends(r, q)
  <2>1. Idle.batch = <<>> /\ Idle.pc = "idle" BY DEF Idle
  <2>2. queue \in [Threads -> Seq(Elements)] BY DEF Basics, Typed
  <2>3. Len(queue[t]) \in Nat BY <1>1
  <2>4. CASE Failures # {} /\ call' = [call EXCEPT ![t] = Idle] /\ queue' = queue
    <3>1. PICK p : p = queue[t] OBVIOUS
    <3>2. queue' = [queue EXCEPT ![t] = p] BY <2>2, <2>4, <3>1
    <3>3. p \in Seq(Elements) /\ Len(p) <= Len(p) BY <1>1, <2>3, <3>1
    <3>4. Sends(Idle, p) BY <2>1, <2>4, <3>1, <3>2, <3>3 DEF Sends
    <3>5. QED BY <1>4, <3>3, <3>4
  <2>5. CASE /\ queue' = [queue EXCEPT ![t] = @ \o call[t].batch]
             /\ call' = [call EXCEPT ![t] = Idle]
    <3>1. PICK p, b : p = queue[t] /\ b = call[t].batch OBVIOUS
    <3>2. p \in Seq(Elements) /\ b \in Seq(Elements) BY <1>1, <3>1
    <3>3. /\ p \o b \in Seq(Elements) /\ Len(p) <= Len(p \o b) /\ (p \o b) \o <<>> = p \o b
      BY <3>2
    <3>4. queue' = [queue EXCEPT ![t] = p \o b] BY <2>5, <3>1
    <3>5. Sends(Idle, p \o b) BY <2>1, <2>5, <3>1, <3>3, <3>4 DEF Sends
    <3>6. QED BY <1>4, <3>3, <3>5
  <2>6. CASE /\ SendHelper(t)
             /\ queue' = [queue EXCEPT ![t] = Append(@, Head(call[t].batch))]
             /\ call' = [call EXCEPT ![t] = IF Tail(call[t].batch) = <<>> THEN Idle
                                            ELSE [@ EXCEPT !.batch = Tail(call[t].batch)]]
    <3>1. PICK p, b : p = queue[t] /\ b = call[t].batch OBVIOUS
    <3>2. call[t].pc = "record" /\ call[t].left = 0 BY <2>6 DEF SendHelper
    <3>3. b # <<>> /\ BindSparse BY <3>1, <3>2 DEF Basics, CallsSound
    <3>4. p \in Seq(Elements) /\ b \in Seq(Elements) BY <1>1, <3>1
    <3>5. PICK h, l : h = Head(b) /\ l = Tail(b) OBVIOUS
    <3>6. h \in Elements /\ l \in Seq(Elements) BY <3>3, <3>4, <3>5
    <3>7. /\ Append(p, h) \in Seq(Elements) /\ Len(p) <= Len(Append(p, h))
      BY <3>4, <3>6
    <3>8. Append(p, h) \o l = p \o b BY <3>3, <3>4, <3>5
    <3>9. queue' = [queue EXCEPT ![t] = Append(p, h)] BY <2>6, <3>1, <3>5
    <3>10. CASE l = <<>>
      <4>1. call' = [call EXCEPT ![t] = Idle] BY <2>6, <3>1, <3>5, <3>10
      <4>2. Sends(Idle, Append(p, h))
        BY <2>1, <3>1, <3>7, <3>8, <3>9, <3>10, <4>1 DEF Sends
      <4>3. QED BY <1>4, <3>7, <4>2
    <3>11. CASE l # <<>>
      <4>1. PICK r : r = [call[t] EXCEPT !.batch = l] OBVIOUS
      <4>2. call' = [call EXCEPT ![t] = r] BY <2>6, <3>1, <3>5, <3>11, <4>1
      <4>3. r \in Calls /\ r.pc = call[t].pc /\ r.cbs = call[t].cbs /\ r.batch = l
        BY <1>1, <3>6, <4>1 DEF Calls
      <4>4. Sends(r, Append(p, h))
        BY <1>3, <3>1, <3>2, <3>3, <3>7, <3>8, <3>9, <3>11, <4>2, <4>3 DEF Sends
      <4>5. QED BY <3>7, <4>3, <4>4
    <3>12. QED BY <3>10, <3>11
  <2>7. QED BY <2>4, <2>5, <2>6 DEF AllocateFails, QueueSubmit, SendHelper, gpu
<1>6. /\ call' \in [Threads -> Calls] /\ call'[t] = r
      /\ \A u \in Threads \ {t} : call'[u] = call[u]
  BY <1>5, ConfigFixed, CallBecomes DEF Basics, Sends
<1>7. /\ queue' \in [Threads -> Seq(Elements)] /\ queue'[t] = q
      /\ \A u \in Threads \ {t} : queue'[u] = queue[u]
  BY <1>5 DEF Basics, Typed, Sends
<1>8. r.cbs = Null /\ r.pc \notin InStep /\ (r.pc = "idle" => r = Idle)
      /\ (r.pc = "record" => BindSparse /\ r.batch # <<>>)
  BY <1>5 DEF Idle, InStep, Sends
<1>9. Typed'
  <2>1. \A u \in Threads : finished'[u] <= started'[u] /\ started'[u] <= Len(queue'[u])
    <3>1. started[t] <= Len(queue[t]) /\ started[t] \in Nat /\ finished[t] <= started[t]
      BY DEF Basics, Typed
    <3>2. started[t] <= Len(q)
      <4>1. Len(queue[t]) \in Nat /\ Len(q) \in Nat BY <1>1
      <4>2. QED BY <1>5, <3>1, <4>1 DEF Sends
    <3>3. QED BY <1>2, <1>7, <3>1, <3>2 DEF Basics, Typed
  <2>2. QED BY <1>2, <1>6, <1>7, <2>1, ConfigFixed DEF Basics, Typed, tracker
<1>10. CallsSound'
  <2>1. allocated' = allocated /\ submit_info_counter' = submit_info_counter /\ BindSparse' = BindSparse
    BY <1>2, ConfigFixed DEF tracker
  <2>2. QED BY <1>6, <1>8, <2>1 DEF Basics, CallsSound, InStep
<1>11. IdsApart' /\ RegistriesAgree' /\ FreeApart(markers)'
  BY <1>2, <1>6, <1>8 DEF Basics, IdsApart, InStep, RegistriesAgree, FreeApart,
     tracker
<1>12. Narrows
  <2>1. \/ All(t)' = All(t)
        \/ queue'[t] = queue[t] /\ call'[t].batch = <<>> /\ Failures # {}
    BY <1>5, <1>6, <1>7 DEF All, Sends
  <2>2. Others(t) BY <1>6, <1>7 DEF Others
  <2>3. Free(markers)' = Free(markers) BY <1>2, ConfigFixed DEF Free
  <2>4. InfosGrow BY <1>2, SameInfosGrow DEF tracker
  <2>5. /\ call[t].pc \notin InStep /\ call'[t].pc \notin {"start", "finish"}
        /\ call'[t].pc # "store" /\ call'[t].cbs = Null /\ allocated' = allocated
    BY <1>2, <1>3, <1>6, <1>8 DEF InStep
  <2>6. UNCHANGED <<helper_submit_infos_, started, finished>> BY <1>2
  <2>7. QED BY <1>9, <2>1, <2>2, <2>3, <2>4, <2>5, <2>6, NarrowsBy DEF Basics
<1>13. QED BY <1>2, <1>9, <1>10, <1>11, <1>12 DEF Basics, tracker

\* Both outcomes of RegisterSubmitInfo.
LEMMA RegisteringMoves ==
  ASSUME Basics, NEW t \in Threads, NEW id,
         call' = [call EXCEPT ![t].pc = "store", ![t].id = id,
                              ![t].left = @ - 1, ![t].cbs = allocated'],
         Registering(t), id \in 0 .. MaxBuffers, allocated' = allocated + 1,
         config' = config, allocated < MaxBuffers
  PROVE  /\ call' \in [Threads -> Calls]
         /\ call'[t].pc = "store" /\ call'[t].id = id /\ call'[t].cbs = allocated'
         /\ call'[t].batch = call[t].batch
         /\ call[t].pc = "register" /\ allocated' \in 1 .. MaxBuffers
         /\ \A u \in Threads \ {t} : call'[u] = call[u]
<1>1. PICK cb : cb = allocated' OBVIOUS
<1>2. allocated \in 0 .. MaxBuffers /\ cb \in 1 .. MaxBuffers
  BY <1>1, BoundAssumption DEF Basics, Typed
<1>3. call[t] \in Calls /\ call[t].pc = "register" /\ call[t].left > 0
  BY CallIs DEF Basics, Registering
<1>4. PICK r : r = [call[t] EXCEPT !.pc = "store", !.id = id, !.left = @ - 1, !.cbs = cb]
  OBVIOUS
<1>5. call' = [call EXCEPT ![t] = r] BY <1>1, <1>4
<1>6. r = [pc |-> "store", qid |-> call[t].qid, left |-> call[t].left - 1, id |-> id,
           cbs |-> cb, batch |-> call[t].batch]
  BY <1>3, <1>4 DEF Calls
<1>7. r \in Calls
  <2>1. /\ call[t].qid \in Nat /\ call[t].left \in 0 .. MaxCount /\ MaxCount \in Nat
        /\ call[t].batch \in Seq(Elements)
    BY BoundAssumption, CallIs DEF Basics
  <2>2. call[t].left - 1 \in 0 .. MaxCount BY <1>3, <2>1
  <2>3. "store" \in Pcs /\ cb \in 0 .. MaxBuffers
    BY <1>2, BoundAssumption DEF Pcs, InStep
  <2>4. QED BY <1>6, <2>1, <2>2, <2>3 DEF Calls
<1>8. /\ call' \in [Threads -> Calls] /\ call'[t] = r
      /\ \A u \in Threads \ {t} : call'[u] = call[u]
  BY <1>5, <1>7, ConfigFixed, CallBecomes DEF Basics
<1>9. QED BY <1>1, <1>2, <1>3, <1>6, <1>8

\* RegistriesAgree, of any two registries.
Agree(qs, ids) ==
  /\ UNION {ToSet(qs[q]) : q \in DOMAIN qs} = ids
  /\ \A q, r \in DOMAIN qs : \A j \in 1 .. Len(qs[q]), k \in 1 .. Len(qs[r]) :
       qs[q][j] = qs[r][k] => q = r /\ j = k

\* RegistriesAgree, of any two registries.
LEMMA AgreeIs == RegistriesAgree <=> Agree(queue_submits_, DOMAIN submit_infos_)
BY DEF RegistriesAgree, Agree

\* PushSubmit, of any registry.
Pushed(qs, qid, id) ==
  [q \in DOMAIN qs \cup {qid} |->
     LET ids == IF q \in DOMAIN qs THEN qs[q] ELSE <<>>
     IN IF q = qid THEN Append(ids, id) ELSE ids]

\* A new id that is pushed keeps the registries in agreement.
LEMMA PushAgrees ==
  ASSUME NEW qs, \A q \in DOMAIN qs : qs[q] \in Seq(Ids), NEW ids, Agree(qs, ids),
         NEW id \in Ids, id \notin ids, NEW qid, NEW new, new = Pushed(qs, qid, id)
  PROVE  /\ \A q \in DOMAIN new : new[q] \in Seq(Ids)
         /\ Agree(new, ids \cup {id})
<1>1. PICK s : s = IF qid \in DOMAIN qs THEN qs[qid] ELSE <<>> OBVIOUS
<1>2. s \in Seq(Ids) BY <1>1
<1>3. /\ DOMAIN new = DOMAIN qs \cup {qid}
      /\ new[qid] = Append(s, id)
      /\ \A q \in DOMAIN qs : q # qid => new[q] = qs[q]
  BY <1>1 DEF Pushed
<1>4. PICK a : a = Append(s, id) OBVIOUS
<1>5. /\ a \in Seq(Ids) /\ Len(s) \in Nat /\ Len(a) = Len(s) + 1
      /\ \A j \in 1 .. Len(s) : a[j] = s[j]
      /\ a[Len(s) + 1] = id /\ ToSet(a) = ToSet(s) \cup {id}
  BY ONLY <1>2, <1>4, id \in Ids, AppendIs
<1>6. \A q \in DOMAIN qs : \A j \in 1 .. Len(qs[q]) : qs[q][j] \in ids
  <2>1. \A q \in DOMAIN qs : \A j \in 1 .. Len(qs[q]) : qs[q][j] \in ToSet(qs[q])
    BY DEF ToSet
  <2>2. QED BY <2>1 DEF Agree
<1>7. ToSet(s) \subseteq ids
  <2>1. CASE qid \in DOMAIN qs BY <1>1, <2>1 DEF Agree
  <2>2. CASE qid \notin DOMAIN qs BY <1>1, <2>2 DEF ToSet
  <2>3. QED BY <2>1, <2>2
<1>8. \A j \in 1 .. Len(s) : qid \in DOMAIN qs /\ s = qs[qid] BY <1>1
<1>9. UNION {ToSet(new[q]) : q \in DOMAIN new} = ids \cup {id}
  <2>1. ASSUME NEW x \in ids \cup {id} PROVE \E q \in DOMAIN new : x \in ToSet(new[q])
    <3>1. CASE x = id BY <1>3, <1>4, <1>5, <3>1
    <3>2. CASE x \in ids
      <4>1. PICK q \in DOMAIN qs : x \in ToSet(qs[q]) BY <3>2 DEF Agree
      <4>2. CASE q = qid BY <1>1, <1>3, <1>4, <1>5, <4>1, <4>2
      <4>3. CASE q # qid BY <1>3, <4>1, <4>3
      <4>4. QED BY <4>2, <4>3
    <3>3. QED BY <3>1, <3>2
  <2>2. ASSUME NEW q \in DOMAIN new, NEW x \in ToSet(new[q]) PROVE x \in ids \cup {id}
    <3>1. CASE q = qid BY <1>3, <1>4, <1>5, <1>7, <2>2, <3>1
    <3>2. CASE q # qid BY <1>3, <2>2, <3>2 DEF Agree
    <3>3. QED BY <3>1, <3>2
  <2>3. \A x : x \in UNION {ToSet(new[q]) : q \in DOMAIN new}
                <=> \E q \in DOMAIN new : x \in ToSet(new[q])
    OBVIOUS
  <2>4. QED BY <2>1, <2>2, <2>3
<1>10. \A j \in 1 .. Len(a) : j \in 1 .. Len(s) \/ j = Len(s) + 1 BY <1>5
<1>11. ASSUME NEW q \in DOMAIN new, NEW r \in DOMAIN new,
              NEW j \in 1 .. Len(new[q]), NEW k \in 1 .. Len(new[r]), new[q][j] = new[r][k]
       PROVE  q = r /\ j = k
  <2>1. CASE q # qid /\ r # qid BY <1>3, <1>11, <2>1 DEF Agree
  <2>2. CASE q = qid /\ r # qid
    <3>1. r \in DOMAIN qs /\ k \in 1 .. Len(qs[r]) /\ new[r][k] = qs[r][k] /\ qs[r][k] \in ids
      BY <1>3, <1>6, <2>2
    <3>2. j \in 1 .. Len(a) /\ new[q][j] = a[j] BY <1>3, <1>4, <2>2
    <3>3. j # Len(s) + 1 BY <1>5, <1>11, <3>1, <3>2
    <3>4. j \in 1 .. Len(s) BY <1>10, <3>2, <3>3
    <3>5. qid \in DOMAIN qs /\ j \in 1 .. Len(qs[qid]) /\ qs[qid][j] = qs[r][k]
      BY <1>5, <1>8, <1>11, <3>1, <3>2, <3>4
    <3>6. QED BY <2>2, <3>1, <3>5 DEF Agree
  <2>3. CASE q # qid /\ r = qid
    <3>1. q \in DOMAIN qs /\ j \in 1 .. Len(qs[q]) /\ new[q][j] = qs[q][j] /\ qs[q][j] \in ids
      BY <1>3, <1>6, <2>3
    <3>2. k \in 1 .. Len(a) /\ new[r][k] = a[k] BY <1>3, <1>4, <2>3
    <3>3. k # Len(s) + 1 BY <1>5, <1>11, <3>1, <3>2
    <3>4. k \in 1 .. Len(s) BY <1>10, <3>2, <3>3
    <3>5. qid \in DOMAIN qs /\ k \in 1 .. Len(qs[qid]) /\ qs[q][j] = qs[qid][k]
      BY <1>5, <1>8, <1>11, <3>1, <3>2, <3>4
    <3>6. QED BY <2>3, <3>1, <3>5 DEF Agree
  <2>4. CASE q = qid /\ r = qid
    <3>1. j \in 1 .. Len(a) /\ k \in 1 .. Len(a) /\ a[j] = a[k]
      BY <1>3, <1>4, <1>11, <2>4
    <3>2. \A l \in 1 .. Len(s) : a[l] = s[l] /\ s[l] \in ids BY <1>5, <1>6, <1>8
    <3>3. CASE j \in 1 .. Len(s) /\ k \in 1 .. Len(s)
      BY <1>8, <2>4, <3>1, <3>2, <3>3 DEF Agree
    <3>4. QED BY <1>5, <1>10, <2>4, <3>1, <3>2, <3>3
  <2>5. QED BY <2>1, <2>2, <2>3, <2>4
<1>12. \A q \in DOMAIN new : new[q] \in Seq(Ids) BY <1>3, <1>4, <1>5
<1>13. QED BY <1>9, <1>11, <1>12 DEF Agree

\* RegisterSubmitInfo keeps the basics, records nothing and leaves the submits
\* that were tracked alone.
LEMMA RegisterSteps ==
  ASSUME Basics, config' = config, NEW t \in Threads, Register(t)
  PROVE  /\ Basics' /\ Narrows /\ UNCHANGED <<word, freed, started, finished>>
         /\ \A id \in DOMAIN submit_infos_ :
              id \in DOMAIN submit_infos_' /\ submit_infos_'[id] = submit_infos_[id]
<1>1. PICK id : id = submit_info_counter + 1 OBVIOUS
<1>2. UNCHANGED <<word, queue_submit_index_, helper_submit_infos_, freed, gpu>>
      /\ allocated' = allocated + 1 /\ submit_info_counter' = id /\ Registering(t) /\ allocated < MaxBuffers
  BY <1>1 DEF Register
<1>3. allocated \in 0 .. MaxBuffers /\ submit_info_counter \in 0 .. allocated
  BY DEF Basics, Typed
<1>4. /\ id \in 1 .. MaxBuffers /\ id \in 1 .. allocated' /\ id \in Ids /\ allocated' \in 1 .. MaxBuffers
      /\ allocated \in Nat
  BY <1>1, <1>2, <1>3, BoundAssumption DEF Ids
<1>5. id \notin DOMAIN submit_infos_ /\ DOMAIN submit_infos_ \subseteq 1 .. submit_info_counter
  BY <1>1, <1>3, BoundAssumption DEF Basics, Typed
<1>6. MaxWords \in Nat /\ markers \in MarkerStates /\ FreeApart(markers)
  BY RoomIsNat DEF Basics, Typed
<1>7. PICK top, m : top = Allocated(markers) /\ m = Without(markers) OBVIOUS
<1>8. PICK bottom, n : bottom = Allocated(m) /\ n = Without(m) OBVIOUS
<1>9. /\ HasRoom(markers) /\ HasRoom(m) /\ markers' = n
      /\ submit_infos_' =
           [k \in DOMAIN submit_infos_ \cup {id} |->
              IF k = id THEN [top_marker |-> top, bottom_marker |-> bottom, cbs |-> Null]
              ELSE submit_infos_[k]]
  BY <1>1, <1>7, <1>8 DEF Register
<1>10. /\ top \in Words /\ top \in Free(markers) /\ m \in MarkerStates /\ FreeApart(m)
       /\ Free(m) = Free(markers) \ {top}
  BY <1>6, <1>7, <1>9, Takes
<1>11. /\ bottom \in Words /\ bottom \in Free(m) /\ n \in MarkerStates /\ FreeApart(n)
       /\ Free(n) = Free(m) \ {bottom}
  BY <1>6, <1>8, <1>9, <1>10, Takes
<1>12. Free(markers)' = Free(n) BY <1>9, ConfigFixed DEF Free
<1>13. top # bottom /\ top \notin Free(markers)' /\ bottom \notin Free(markers)'
       /\ bottom \in Free(markers) /\ Free(markers)' \subseteq Free(markers)
  BY <1>10, <1>11, <1>12
<1>14. /\ DOMAIN submit_infos_' = DOMAIN submit_infos_ \cup {id}
       /\ submit_infos_'[id] = [top_marker |-> top, bottom_marker |-> bottom, cbs |-> Null]
       /\ \A ie \in DOMAIN submit_infos_ : submit_infos_'[ie] = submit_infos_[ie]
  BY <1>5, <1>9
<1>15. PICK new : new = submit_infos_'[id] OBVIOUS
<1>16. new.top_marker = top /\ new.bottom_marker = bottom /\ new.cbs = Null /\ new \in SubmitInfo
  BY <1>10, <1>11, <1>14, <1>15, BoundAssumption DEF SubmitInfo, Null
<1>17. /\ call' \in [Threads -> Calls]
       /\ call'[t].pc = "store" /\ call'[t].id = id /\ call'[t].cbs = allocated'
       /\ call'[t].batch = call[t].batch /\ call[t].pc = "register"
       /\ \A u \in Threads \ {t} : call'[u] = call[u]
  <2>1. call' = [call EXCEPT ![t].pc = "store", ![t].id = id, ![t].left = @ - 1, ![t].cbs = allocated']
    BY <1>1 DEF Register
  <2>2. Registering(t) /\ id \in 0 .. MaxBuffers /\ allocated' = allocated + 1 /\ allocated < MaxBuffers
    BY <1>2, <1>4
  <2>3. QED
    BY ONLY Basics, config' = config, t \in Threads, <2>1, <2>2,
       RegisteringMoves
<1>18. PICK qid : qid = call[t].qid OBVIOUS
<1>19. /\ \A q \in DOMAIN queue_submits_' : queue_submits_'[q] \in Seq(Ids)
       /\ Agree(queue_submits_', DOMAIN submit_infos_ \cup {id})
  <2>1. queue_submits_' = Pushed(queue_submits_, qid, id)
    BY <1>1, <1>18 DEF Register, PushSubmit, Pushed
  <2>2. /\ \A q \in DOMAIN queue_submits_ : queue_submits_[q] \in Seq(Ids)
        /\ Agree(queue_submits_, DOMAIN submit_infos_)
    BY AgreeIs DEF Basics, Typed
  <2>3. QED BY <1>4, <1>5, <2>1, <2>2, PushAgrees
<1>20. RegistriesAgree' BY <1>14, <1>19, AgreeIs DEF RegistriesAgree, Agree
<1>21. Typed'
  <2>1. \A ie \in DOMAIN submit_infos_' : submit_infos_'[ie] \in SubmitInfo
    BY <1>14, <1>15, <1>16 DEF Basics, Typed
  <2>2. submit_info_counter' \in 0 .. allocated' /\ freed' \subseteq 1 .. allocated'
    BY <1>2, <1>4 DEF Basics, Typed
  <2>3. DOMAIN submit_infos_' \subseteq 1 .. submit_info_counter'
    BY <1>1, <1>2, <1>3, <1>4, <1>5, <1>14
  <2>4. allocated' \in 0 .. MaxBuffers BY <1>4
  <2>5. QED
    BY <1>2, <1>9, <1>11, <1>14, <1>17, <1>19, <2>1, <2>2, <2>3, <2>4,
       ConfigFixed DEF Basics, Typed, gpu
<1>22. CallsSound'
  <2>1. \A u \in Threads : /\ call[u].cbs \in 1 .. allocated => call[u].cbs \in 1 .. allocated'
                           /\ call[u].id <= submit_info_counter => call[u].id <= submit_info_counter'
    <3>1. \A u \in Threads : call[u].id \in Nat BY CallIs DEF Basics
    <3>2. QED BY <1>1, <1>2, <1>3, <1>4, <3>1
  <2>2. call'[t].cbs \in 1 .. allocated' /\ call'[t].id <= submit_info_counter'
    BY <1>2, <1>4, <1>17
  <2>3. BindSparse' = BindSparse BY ConfigFixed
  <2>4. QED BY <1>17, <2>1, <2>2, <2>3 DEF Basics, CallsSound, InStep
<1>23. IdsApart'
  <2>1. \A u \in Threads : call[u].pc \in InStep => call[u].id # id
    <3>1. \A u \in Threads : call[u].pc \in InStep => call[u].id <= submit_info_counter
      BY DEF Basics, CallsSound
    <3>2. QED BY <1>1, <1>3, <3>1
  <2>2. QED BY <1>17, <2>1 DEF Basics, IdsApart
<1>24. InfosGrow
  <2>1. \A u \in Threads : call'[u] = call[u] => call'[u].id # id \/ call'[u].pc \notin InStep
    <3>1. \A u \in Threads : call[u].pc \in InStep => call[u].id # id
      <4>1. \A u \in Threads : call[u].pc \in InStep => call[u].id <= submit_info_counter
        BY DEF Basics, CallsSound
      <4>2. QED BY <1>1, <1>3, <4>1
    <3>2. QED BY <3>1
  <2>2. QED BY <1>10, <1>13, <1>14, <1>15, <1>16, <2>1 DEF InfosGrow
<1>25. Narrows
  <2>1. All(t)' = All(t) BY <1>2, <1>17 DEF All, gpu
  <2>2. Others(t) BY <1>2, <1>17 DEF Others, gpu
  <2>3. /\ call[t].pc \notin InStep /\ call'[t].pc \notin {"start", "finish"}
        /\ call'[t].cbs = allocated + 1 /\ allocated' = allocated + 1
        /\ call'[t].id \notin DOMAIN submit_infos_
    BY <1>2, <1>5, <1>17 DEF InStep
  <2>4. UNCHANGED <<helper_submit_infos_, started, finished>> BY <1>2 DEF gpu
  <2>5. QED BY <1>13, <1>21, <1>24, <2>1, <2>2, <2>3, <2>4, NarrowsBy DEF Basics
<1>26. QED
  BY <1>2, <1>9, <1>11, <1>14, <1>20, <1>21, <1>22, <1>23, <1>25 DEF Basics,
     gpu

\* A word that is taken and given back at once.
LEMMA TakeAndGive ==
  ASSUME MaxWords \in Nat, NEW m \in MarkerStates, FreeApart(m), HasRoom(m),
         NEW n, n = Recycle(Without(m), Allocated(m))
  PROVE  n \in MarkerStates /\ FreeApart(n) /\ Free(n) = Free(m) /\ Allocated(m) \in Free(m)
<1>1. /\ Allocated(m) \in Words /\ Allocated(m) \in Free(m)
      /\ Without(m) \in MarkerStates /\ FreeApart(Without(m))
      /\ Free(Without(m)) = Free(m) \ {Allocated(m)}
  BY Takes
<1>2. Allocated(m) \in Words \ Free(Without(m)) BY <1>1
<1>3. /\ n \in MarkerStates /\ FreeApart(n)
      /\ Free(n) = Free(Without(m)) \cup {Allocated(m)}
  BY <1>1, <1>2, Gives
<1>4. QED BY <1>1, <1>3

\* A registration that finds no marker gives the top one back, keeps the basics
\* and records nothing.
LEMMA RegisterFailsSteps ==
  ASSUME Basics, config' = config, NEW t \in Threads, RegisterFails(t)
  PROVE  Basics' /\ Narrows /\ UNCHANGED <<word, freed, started, finished, submit_infos_>>
<1>1. UNCHANGED <<word, tracker, queue_submit_index_, helper_submit_infos_, freed, gpu>>
      /\ allocated' = allocated + 1 /\ Registering(t) /\ allocated < MaxBuffers
  BY DEF RegisterFails
<1>2. allocated \in 0 .. MaxBuffers /\ submit_info_counter \in 0 .. allocated
  BY DEF Basics, Typed
<1>3. allocated' \in 1 .. MaxBuffers /\ allocated \in Nat /\ submit_info_counter \in 0 .. allocated'
  BY <1>1, <1>2, BoundAssumption
<1>4. MaxWords \in Nat /\ markers \in MarkerStates /\ FreeApart(markers)
  BY RoomIsNat DEF Basics, Typed
<1>5. markers' \in MarkerStates /\ FreeApart(markers') /\ Free(markers') = Free(markers)
  <2>1. CASE HasRoom(markers) /\ markers' = Recycle(Without(markers), Allocated(markers))
    BY <1>4, <2>1, TakeAndGive
  <2>2. QED BY <1>4, <2>1 DEF RegisterFails
<1>6. Free(markers)' = Free(markers) BY <1>5, ConfigFixed DEF Free
<1>7. /\ call' \in [Threads -> Calls]
      /\ call'[t].pc = "store" /\ call'[t].id = Invalid /\ call'[t].cbs = allocated'
      /\ call'[t].batch = call[t].batch /\ call[t].pc = "register"
      /\ \A u \in Threads \ {t} : call'[u] = call[u]
  <2>1. call' = [call EXCEPT ![t].pc = "store", ![t].id = Invalid, ![t].left = @ - 1, ![t].cbs = allocated']
    BY DEF RegisterFails
  <2>2. Registering(t) /\ Invalid \in 0 .. MaxBuffers /\ allocated' = allocated + 1 /\ allocated < MaxBuffers
    BY <1>1, BoundAssumption DEF Invalid
  <2>3. QED
    BY ONLY Basics, config' = config, t \in Threads, <2>1, <2>2,
       RegisteringMoves
<1>8. Typed'
  <2>1. freed' \subseteq 1 .. allocated' BY <1>1, <1>3 DEF Basics, Typed
  <2>2. allocated' \in 0 .. MaxBuffers BY <1>3
  <2>3. QED
    BY <1>1, <1>3, <1>5, <1>7, <2>1, <2>2, ConfigFixed DEF Basics, Typed, gpu,
       tracker
<1>9. CallsSound'
  <2>1. \A u \in Threads : call[u].cbs \in 1 .. allocated => call[u].cbs \in 1 .. allocated'
    BY <1>1, <1>3
  <2>2. call'[t].cbs \in 1 .. allocated' /\ call'[t].id <= submit_info_counter'
    BY <1>1, <1>2, <1>3, <1>7 DEF tracker, Invalid
  <2>3. BindSparse' = BindSparse /\ submit_info_counter' = submit_info_counter
    BY <1>1, ConfigFixed DEF tracker
  <2>4. QED BY <1>7, <2>1, <2>2, <2>3 DEF Basics, CallsSound, InStep
<1>10. IdsApart' /\ RegistriesAgree'
  BY <1>1, <1>7 DEF Basics, IdsApart, RegistriesAgree, tracker
<1>11. Narrows
  <2>1. All(t)' = All(t) BY <1>1, <1>7 DEF All, gpu
  <2>2. Others(t) BY <1>1, <1>7 DEF Others, gpu
  <2>3. Invalid \notin DOMAIN submit_infos_
    BY BoundAssumption, <1>2 DEF Basics, Typed, Invalid
  <2>4. /\ call[t].pc \notin InStep /\ call'[t].pc \notin {"start", "finish"}
        /\ call'[t].cbs = allocated + 1 /\ allocated' = allocated + 1
        /\ call'[t].id \notin DOMAIN submit_infos_
    BY <1>1, <1>7, <2>3 DEF InStep
  <2>5. UNCHANGED <<helper_submit_infos_, started, finished>> BY <1>1 DEF gpu
  <2>6. InfosGrow BY <1>1, SameInfosGrow DEF tracker
  <2>7. QED BY <1>6, <1>8, <2>1, <2>2, <2>4, <2>5, <2>6, NarrowsBy DEF Basics
<1>12. QED BY <1>1, <1>5, <1>8, <1>9, <1>10, <1>11 DEF Basics, gpu, tracker

\* The words after a write of the GPU.
LEMMA WrittenTyped ==
  ASSUME Basics, NEW w \in Words \cup {Null}, NEW v \in 0 .. CommandBufferValue
  PROVE  /\ Written(w, v) \in [Words -> 0 .. CommandBufferValue]
         /\ \A x \in Words : Written(w, v)[x] = IF x = w THEN v ELSE word[x]
<1>1. word \in [Words -> 0 .. CommandBufferValue] BY DEF Basics, Typed
<1>2. Null \notin Words BY RoomIsNat DEF Basics, Words, Null
<1>3. QED BY <1>1, <1>2 DEF Written

\* What the GPU does, and a command buffer, leaves the tracker alone.
LEMMA QuietBasics ==
  ASSUME Basics, config' = config, markers' \in MarkerStates, FreeApart(markers'),
         word' \in [Words -> 0 .. CommandBufferValue],
         UNCHANGED <<tracker, queue_submit_index_, helper_submit_infos_, call, allocated, freed, queue>>,
         started' \in [Threads -> Nat], finished' \in [Threads -> Nat],
         \A t \in Threads : finished'[t] <= started'[t] /\ started'[t] <= Len(queue[t])
  PROVE  Basics'
<1>1. Typed' BY ConfigFixed DEF Basics, Typed, tracker
<1>2. CallsSound' /\ IdsApart' /\ RegistriesAgree'
  BY ConfigFixed DEF Basics, CallsSound, IdsApart, RegistriesAgree, tracker
<1>3. QED BY <1>1, <1>2 DEF Basics

\* A command buffer writes no other word than the free one it had.
LEMMA ReturnsSteps ==
  ASSUME Basics, config' = config, CommandBufferReturns
  PROVE  /\ Basics' /\ Narrows /\ (\A t \in Threads : All(t)' = All(t)) /\ Free(markers)' = Free(markers)
         /\ UNCHANGED <<call, freed, started, finished, submit_infos_, helper_submit_infos_>>
         /\ \E w \in Free(markers), v \in Clean : word' = [word EXCEPT ![w] = v]
<1>1. MaxWords \in Nat /\ markers \in MarkerStates /\ FreeApart(markers)
  BY RoomIsNat DEF Basics, Typed
<1>2. HasRoom(markers) /\ markers' = Recycle(Without(markers), Allocated(markers))
  BY DEF CommandBufferReturns
<1>3. /\ markers' \in MarkerStates /\ FreeApart(markers') /\ Free(markers') = Free(markers)
      /\ Allocated(markers) \in Free(markers)
  BY <1>1, <1>2, TakeAndGive
<1>4. Free(markers)' = Free(markers) BY <1>3, ConfigFixed DEF Free
<1>5. PICK w \in Free(markers), v \in Clean : word' = [word EXCEPT ![w] = v]
  BY <1>3 DEF CommandBufferReturns, Clean, kInvalid
<1>6. UNCHANGED <<tracker, queue_submit_index_, helper_submit_infos_, call, allocated, freed, gpu>>
  BY DEF CommandBufferReturns
<1>7. word' \in [Words -> 0 .. CommandBufferValue]
  <2>1. v \in 0 .. CommandBufferValue BY DEF Clean, kInvalid, CommandBufferValue
  <2>2. word \in [Words -> 0 .. CommandBufferValue] BY DEF Basics, Typed
  <2>3. QED BY <1>5, <2>1, <2>2
<1>8. \A t \in Threads : /\ started[t] \in Nat /\ finished[t] \in Nat
                         /\ started[t] <= started[t] /\ finished[t] <= finished[t]
  BY CountsTyped DEF Basics
<1>9. Basics' BY <1>3, <1>6, <1>7, QuietBasics DEF Basics, Typed, gpu
<1>10. Narrows /\ \A t \in Threads : All(t)' = All(t)
  <2>1. UNCHANGED <<call, queue, allocated, submit_infos_, helper_submit_infos_, started, finished>>
    BY <1>6 DEF gpu, tracker
  <2>2. QED BY <1>4, <1>8, <1>9, <2>1, NarrowsQuietly DEF Basics
<1>11. QED BY <1>4, <1>5, <1>6, <1>9, <1>10 DEF gpu, tracker

\* The GPU's steps change the words and its counts only.
LEMMA GPUSteps ==
  ASSUME Basics, config' = config, NEW t \in Threads, GPUStart(t) \/ GPUFinish(t)
  PROVE  /\ Basics' /\ Narrows /\ \A u \in Threads : All(u)' = All(u)
         /\ UNCHANGED <<markers, call, freed, submit_infos_, helper_submit_infos_>>
<1>1. PICK s, f : s = started[t] /\ f = finished[t] OBVIOUS
<1>2. s \in Nat /\ f \in Nat /\ f <= s /\ s <= Len(queue[t]) /\ Len(queue[t]) \in Nat
  BY <1>1, CountsTyped, AllTyped DEF Basics
<1>3. UNCHANGED <<markers, tracker, queue_submit_index_, helper_submit_infos_, call, allocated, freed, queue>>
  BY DEF GPUStart, GPUFinish
<1>4. \A k \in 1 .. Len(queue[t]) : queue[t][k].top \in Words \cup {Null} /\ queue[t][k].bottom \in Words \cup {Null}
  <2>1. \A k \in 1 .. Len(queue[t]) : queue[t][k] \in Elements
    BY AllTyped, ElementOfSeq DEF Basics
  <2>2. QED BY <2>1 DEF Elements
<1>5. word' \in [Words -> 0 .. CommandBufferValue]
  <2>1. kRunning \in 0 .. CommandBufferValue /\ kFinished \in 0 .. CommandBufferValue
    BY DEF kRunning, kFinished, CommandBufferValue
  <2>2. CASE GPUStart(t)
    <3>1. s + 1 \in 1 .. Len(queue[t]) BY <1>1, <1>2, <2>2 DEF GPUStart
    <3>2. word' = Written(queue[t][s + 1].top, kRunning)
      BY <1>1, <2>2 DEF GPUStart
    <3>3. queue[t][s + 1].top \in Words \cup {Null} BY <1>4, <3>1
    <3>4. Written(queue[t][s + 1].top, kRunning) \in [Words -> 0 .. CommandBufferValue]
      BY <2>1, <3>3, WrittenTyped
    <3>5. QED BY ONLY <3>2, <3>4
  <2>3. CASE GPUFinish(t)
    <3>1. f + 1 \in 1 .. Len(queue[t]) BY <1>1, <1>2, <2>3 DEF GPUFinish
    <3>2. word' = Written(queue[t][f + 1].bottom, kFinished)
      BY <1>1, <2>3 DEF GPUFinish
    <3>3. queue[t][f + 1].bottom \in Words \cup {Null} BY <1>4, <3>1
    <3>4. Written(queue[t][f + 1].bottom, kFinished) \in [Words -> 0 .. CommandBufferValue]
      BY <2>1, <3>3, WrittenTyped
    <3>5. QED BY ONLY <3>2, <3>4
  <2>4. QED BY <2>2, <2>3
<1>6. /\ started' \in [Threads -> Nat] /\ finished' \in [Threads -> Nat]
      /\ \A u \in Threads : /\ finished'[u] <= started'[u] /\ started'[u] <= Len(queue[u])
                            /\ started[u] <= started'[u] /\ finished[u] <= finished'[u]
  <2>1. /\ started \in [Threads -> Nat] /\ finished \in [Threads -> Nat]
        /\ \A u \in Threads : finished[u] <= started[u] /\ started[u] <= Len(queue[u])
    BY DEF Basics, Typed
  <2>2. CASE GPUStart(t)
    <3>1. finished' = finished /\ started' = [started EXCEPT ![t] = s + 1] /\ s < Len(queue[t])
      BY <1>1, <2>2 DEF GPUStart
    <3>2. \A u \in Threads : started[u] <= started'[u] /\ finished[u] <= started'[u]
      BY <1>1, <1>2, <2>1, <3>1
    <3>3. \A u \in Threads : started'[u] <= Len(queue[u]) /\ finished[u] <= finished[u]
      BY <1>1, <1>2, <2>1, <3>1
    <3>4. QED BY <2>1, <1>2, <3>1, <3>2, <3>3
  <2>3. CASE GPUFinish(t)
    <3>1. started' = started /\ finished' = [finished EXCEPT ![t] = f + 1] /\ f < s
      BY <1>1, <2>3 DEF GPUFinish
    <3>2. \A u \in Threads : finished[u] <= finished'[u] /\ finished'[u] <= started[u]
      BY <1>1, <1>2, <2>1, <3>1
    <3>3. QED BY <2>1, <1>2, <3>1, <3>2
  <2>4. QED BY <2>2, <2>3
<1>7. Basics' BY <1>3, <1>5, <1>6, QuietBasics DEF Basics, Typed
<1>8. Free(markers)' = Free(markers) BY <1>3, ConfigFixed DEF Free
<1>9. Narrows /\ \A u \in Threads : All(u)' = All(u)
  <2>1. UNCHANGED <<call, queue, allocated, submit_infos_, helper_submit_infos_>>
    BY <1>3 DEF tracker
  <2>2. QED BY <1>6, <1>7, <1>8, <2>1, NarrowsQuietly DEF Basics
<1>10. QED BY <1>3, <1>7, <1>9 DEF tracker

-----------------------------------------------------------------------------
(* A step of one thread that adds one element to its batch.                *)

\* An element that a step leaves in its place.
OldElement(u, k) ==
  /\ k \in 1 .. Len(All(u)) /\ All(u)'[k] = All(u)[k]
  /\ TopAhead(u, k)' <=> TopAhead(u, k)
  /\ BottomAhead(u, k)' <=> BottomAhead(u, k)

\* The element that a step adds at the end.
NewElement(t, e, u, k) ==
  /\ u = t /\ k = Len(All(t)) + 1 /\ k = Len(All(t)') /\ All(u)'[k] = e
  /\ TopAhead(u, k)' <=> e.top # Null
  /\ BottomAhead(u, k)' <=> e.bottom # Null

\* Thread t's batch gets one more element e; all else stays in its place.
Appends(t, e) ==
  /\ \A u \in Threads : \A k \in 1 .. Len(All(u)') : OldElement(u, k) \/ NewElement(t, e, u, k)
  /\ \A u \in Threads : \A k \in 1 .. Len(All(u)) : k \in 1 .. Len(All(u)') /\ OldElement(u, k)
  /\ Len(All(t)) + 1 \in 1 .. Len(All(t)') /\ NewElement(t, e, t, Len(All(t)) + 1)
  /\ \A u \in Threads \ {t} : call'[u] = call[u] /\ Len(All(u)') = Len(All(u))

\* Appending to a batch appends to all that a queue was and will be given.
LEMMA AppendConcat ==
  ASSUME NEW S, NEW q \in Seq(S), NEW b \in Seq(S), NEW e \in S
  PROVE  q \o Append(b, e) = Append(q \o b, e)
<1>1. /\ Append(b, e) \in Seq(S) /\ q \o b \in Seq(S)
  OBVIOUS
<1>2. PICK x, y : x = q \o Append(b, e) /\ y = Append(q \o b, e) OBVIOUS
<1>3. x \in Seq(S) /\ y \in Seq(S) /\ Len(x) = Len(q) + (Len(b) + 1) /\ Len(y) = (Len(q) + Len(b)) + 1
  BY <1>2
<1>4. Len(x) = Len(y) BY <1>3
<1>5. ASSUME NEW k \in 1 .. Len(x) PROVE x[k] = y[k]
  BY <1>2, <1>3
<1>6. QED BY <1>2, <1>3, <1>4, <1>5

\* What a step that appends to a batch does to All.
LEMMA AppendsIs ==
  ASSUME Typed, NEW t \in Threads, NEW e \in Elements,
         UNCHANGED <<config, queue, started, finished>>,
         call'[t].batch = Append(call[t].batch, e),
         \A u \in Threads \ {t} : call'[u] = call[u]
  PROVE  Appends(t, e)
<1>1. PICK a : a = All(t) OBVIOUS
<1>2. a \in Seq(Elements) /\ Len(a) \in Nat BY <1>1, AllTyped
<1>3. All(t)' = Append(a, e)
  <2>1. PICK q \in Seq(Elements), b \in Seq(Elements) : q = queue[t] /\ b = call[t].batch
    BY AllTyped
  <2>2. q \o Append(b, e) = Append(q \o b, e) BY AppendConcat
  <2>3. QED BY <1>1, <2>1, <2>2 DEF All
<1>4. /\ Len(All(t)') = Len(a) + 1 /\ All(t)'[Len(a) + 1] = e
      /\ \A k \in 1 .. Len(a) : All(t)'[k] = a[k]
  BY ONLY <1>2, <1>3, e \in Elements, AppendIs
<1>5. started[t] \in Nat /\ finished[t] \in Nat /\ started[t] <= Len(a) /\ finished[t] <= Len(a)
  BY <1>1, CountsTyped
<1>6. /\ \A k \in 1 .. Len(a) : k \in 1 .. Len(All(t)') /\ k # Len(a) + 1
      /\ \A k \in 1 .. Len(All(t)') : k \in 1 .. Len(a) \/ k = Len(a) + 1
      /\ Len(a) + 1 \in 1 .. Len(All(t)')
      /\ Len(a) + 1 > started[t] /\ Len(a) + 1 > finished[t]
  BY <1>2, <1>4, <1>5
<1>7. \A u \in Threads \ {t} : All(u)' = All(u) BY DEF All
<1>8. \A u \in Threads \ {t} : \A k \in 1 .. Len(All(u)) : OldElement(u, k)
  BY <1>7 DEF OldElement, TopAhead, BottomAhead
<1>9. \A k \in 1 .. Len(a) : OldElement(t, k)
  BY <1>1, <1>4, <1>6 DEF OldElement, TopAhead, BottomAhead
<1>10. NewElement(t, e, t, Len(a) + 1)
  BY <1>1, <1>4, <1>6 DEF NewElement, TopAhead, BottomAhead
<1>11. QED BY <1>1, <1>6, <1>7, <1>8, <1>9, <1>10 DEF Appends

\* StoreSubmitHelperCommandBuffersInfo: the basics, and the buffers that are
\* stored in the submit's entry.
LEMMA StoreSteps ==
  ASSUME Basics, InfosApart, config' = config, NEW t \in Threads, Store(t)
  PROVE  /\ Basics' /\ Appends(t, Entry(call[t].cbs, Null, Null)) /\ Free(markers)' = Free(markers)
         /\ UNCHANGED <<word, helper_submit_infos_, allocated, freed, started, finished>>
         /\ call[t].pc = "store" /\ call'[t].pc = "start" /\ call'[t].id = call[t].id
         /\ call'[t].cbs = call[t].cbs
         /\ DOMAIN submit_infos_' = DOMAIN submit_infos_
         /\ \A id \in DOMAIN submit_infos_ :
              /\ submit_infos_'[id].top_marker = submit_infos_[id].top_marker
              /\ submit_infos_'[id].bottom_marker = submit_infos_[id].bottom_marker
              /\ submit_infos_'[id].cbs = IF id = call[t].id THEN call[t].cbs ELSE submit_infos_[id].cbs
<1>1. PICK id, cb : id = call[t].id /\ cb = call[t].cbs OBVIOUS
<1>2. UNCHANGED <<word, markers, submit_info_counter, queue_submits_, queue_submit_index_,
                  helper_submit_infos_, allocated, freed, gpu>> /\ call[t].pc = "store"
  BY DEF Store
<1>3. id \in 0 .. MaxBuffers /\ cb \in 1 .. allocated /\ cb \in Ids /\ cb \in 0 .. MaxBuffers /\ id <= submit_info_counter
  BY <1>1, <1>2, BoundAssumption, CallIs DEF Basics, CallsSound, InStep, Typed,
     Ids
<1>4. PICK e : e = Entry(cb, Null, Null) OBVIOUS
<1>5. e \in Elements BY <1>3, <1>4 DEF Entry, Elements
<1>6. PICK r : r = [call[t] EXCEPT !.pc = "start", !.batch = Append(@, e)] OBVIOUS
<1>7. call' = [call EXCEPT ![t] = r] BY <1>1, <1>4, <1>6 DEF Store
<1>8. call[t] \in Calls /\ call[t].batch \in Seq(Elements) BY CallIs DEF Basics
<1>9. PICK b : b = Append(call[t].batch, e) OBVIOUS
<1>10. b \in Seq(Elements) /\ b # <<>> /\ Last(b) = e
  <2>1. b \in Seq(Elements) /\ b # <<>> /\ b[Len(b)] = e BY <1>5, <1>8, <1>9
  <2>2. QED BY <2>1 DEF Last
<1>11. /\ r.pc = "start" /\ r.qid = call[t].qid /\ r.left = call[t].left /\ r.id = id /\ r.cbs = cb
       /\ r.batch = b /\ r \in Calls
  <2>1. r = [call[t] EXCEPT !.pc = "start", !.batch = b] BY <1>6, <1>9
  <2>2. QED BY <1>1, <1>8, <1>10, <2>1 DEF Calls, Pcs, InStep
<1>12. /\ call' \in [Threads -> Calls] /\ call'[t] = r
       /\ \A u \in Threads \ {t} : call'[u] = call[u]
  BY <1>7, <1>11, ConfigFixed, CallBecomes DEF Basics
<1>13. /\ DOMAIN submit_infos_' = DOMAIN submit_infos_
       /\ \A ie \in DOMAIN submit_infos_ :
            /\ submit_infos_'[ie].top_marker = submit_infos_[ie].top_marker
            /\ submit_infos_'[ie].bottom_marker = submit_infos_[ie].bottom_marker
            /\ submit_infos_'[ie].cbs = IF ie = id THEN cb ELSE submit_infos_[ie].cbs
            /\ submit_infos_'[ie] \in SubmitInfo
  <2>1. \A ie \in DOMAIN submit_infos_ : submit_infos_[ie] \in SubmitInfo
    BY DEF Basics, Typed
  <2>2. CASE id \in DOMAIN submit_infos_
    <3>1. PICK i : i = [submit_infos_[id] EXCEPT !.cbs = cb] OBVIOUS
    <3>2. submit_infos_' = [submit_infos_ EXCEPT ![id] = i]
      BY <1>1, <2>2, <3>1 DEF Store, Known
    <3>3. /\ i \in SubmitInfo /\ i.top_marker = submit_infos_[id].top_marker
          /\ i.bottom_marker = submit_infos_[id].bottom_marker /\ i.cbs = cb
      BY <1>3, <2>1, <2>2, <3>1 DEF SubmitInfo
    <3>4. QED BY <2>1, <2>2, <3>2, <3>3
  <2>3. CASE id \notin DOMAIN submit_infos_
    <3>1. submit_infos_' = submit_infos_ BY <1>1, <2>3 DEF Store, Known
    <3>2. \A ie \in DOMAIN submit_infos_ : ie # id BY <2>3
    <3>3. QED BY <2>1, <3>1, <3>2
  <2>4. QED BY <2>2, <2>3
<1>14. Typed' BY <1>2, <1>12, <1>13, ConfigFixed DEF Basics, Typed, gpu
<1>15. CallsSound'
  <2>1. BindSparse' = BindSparse /\ call'[t].pc = "start" /\ call'[t].id = id /\ call'[t].cbs = cb
        /\ call'[t].batch = b /\ e.cbs = cb
    BY <1>4, <1>11, <1>12, ConfigFixed DEF Entry
  <2>2. QED BY <1>2, <1>3, <1>10, <1>12, <2>1 DEF Basics, CallsSound, InStep
<1>16. IdsApart' BY <1>1, <1>2, <1>11, <1>12 DEF Basics, IdsApart, InStep
<1>17. RegistriesAgree' /\ FreeApart(markers)'
  BY <1>2, <1>13 DEF Basics, RegistriesAgree, FreeApart
<1>18. Appends(t, e)
  <2>1. call'[t].batch = Append(call[t].batch, e) BY <1>9, <1>11, <1>12
  <2>2. QED BY <1>2, <1>5, <1>12, <2>1, AppendsIs DEF Basics, gpu
<1>19. Free(markers)' = Free(markers) BY <1>2, ConfigFixed DEF Free
<1>20. QED
  BY <1>1, <1>2, <1>4, <1>11, <1>12, <1>13, <1>14, <1>15, <1>16, <1>17, <1>18,
     <1>19 DEF Basics, gpu

\* The buffers stored are nobody else's, and they write nothing yet.
LEMMA StoreStructure ==
  ASSUME Basics, Structure, config' = config, NEW t \in Threads, Store(t)
  PROVE  Structure'
<1> DEFINE id == call[t].id
           cb == call[t].cbs
           e == Entry(cb, Null, Null)
<1>1. e.cbs = cb /\ e.top = Null /\ e.bottom = Null BY DEF Entry
<1>2. /\ Appends(t, e) /\ Free(markers)' = Free(markers) /\ allocated' = allocated
      /\ helper_submit_infos_' = helper_submit_infos_
      /\ call[t].pc = "store" /\ call'[t].pc = "start" /\ call'[t].id = id /\ call'[t].cbs = cb
      /\ DOMAIN submit_infos_' = DOMAIN submit_infos_
      /\ \A ie \in DOMAIN submit_infos_ :
           /\ submit_infos_'[ie].top_marker = submit_infos_[ie].top_marker
           /\ submit_infos_'[ie].bottom_marker = submit_infos_[ie].bottom_marker
           /\ submit_infos_'[ie].cbs = IF ie = id THEN cb ELSE submit_infos_[ie].cbs
  BY StoreSteps DEF Structure
<1> HIDE DEF e, id, cb
<1>3. /\ \A u \in Threads : \A k \in 1 .. Len(All(u)') : OldElement(u, k) \/ NewElement(t, e, u, k)
      /\ Len(All(t)) + 1 \in 1 .. Len(All(t)') /\ NewElement(t, e, t, Len(All(t)) + 1)
      /\ \A u \in Threads : \A k \in 1 .. Len(All(u)) : k \in 1 .. Len(All(u)') /\ OldElement(u, k)
      /\ \A u \in Threads \ {t} : call'[u] = call[u] /\ Len(All(u)') = Len(All(u))
  BY <1>2 DEF Appends
<1>4. \A ie \in DOMAIN submit_infos_ : WordsOf(ie)' = WordsOf(ie)
  BY <1>2 DEF WordsOf
<1>5. cb \in 1 .. allocated /\ allocated \in Nat /\ cb # Null
  BY <1>2, BoundAssumption DEF Basics, CallsSound, Typed, InStep, cb, Null
<1>6. \A u \in Threads : \A k \in 1 .. Len(All(u)) : All(u)[k].cbs # cb /\ All(u)[k].cbs # Null
  BY <1>2, ElementsTyped DEF Structure, BuffersApart, Basics, cb, Null
<1>7. \A ie \in DOMAIN submit_infos_ : /\ submit_infos_[ie].cbs # cb
                                       /\ ie = id => submit_infos_[ie].cbs = Null
  BY <1>2 DEF Structure, InfosApart, id, cb
<1>8. \A u \in Threads \ {t} :
        /\ call[u].pc = "store" => call[u].cbs # cb
        /\ call[u].pc \in InStep /\ call[u].id = id => id \notin DOMAIN submit_infos_
  <2>1. Invalid \notin DOMAIN submit_infos_
    BY BoundAssumption DEF Basics, Typed, Invalid
  <2>2. QED
    BY <1>2, <2>1 DEF Structure, BuffersApart, Basics, IdsApart, InStep, id, cb
<1>9. BuffersApart'
  <2>1. ASSUME NEW u \in Threads, NEW v \in Threads, NEW j \in 1 .. Len(All(u)'), NEW k \in 1 .. Len(All(v)'),
               All(u)'[j].cbs = All(v)'[k].cbs
        PROVE  u = v /\ j = k
    <3>1. CASE OldElement(u, j) /\ OldElement(v, k)
      BY <2>1, <3>1 DEF OldElement, Structure, BuffersApart
    <3>2. CASE OldElement(u, j) /\ NewElement(t, e, v, k)
      BY <1>1, <1>6, <2>1, <3>2 DEF OldElement, NewElement
    <3>3. CASE NewElement(t, e, u, j) /\ OldElement(v, k)
      BY <1>1, <1>6, <2>1, <3>3 DEF OldElement, NewElement
    <3>4. CASE NewElement(t, e, u, j) /\ NewElement(t, e, v, k)
      BY <3>4 DEF NewElement
    <3>5. QED BY <1>3, <3>1, <3>2, <3>3, <3>4
  <2>2. ASSUME NEW u \in Threads, NEW k \in 1 .. Len(All(u)') PROVE All(u)'[k].cbs <= allocated
    BY <1>1, <1>3, <1>5 DEF OldElement, NewElement, Structure, BuffersApart
  <2>3. ASSUME NEW u \in Threads, NEW v \in Threads, call'[u].pc = "store"
        PROVE  /\ \A k \in 1 .. Len(All(v)') : All(v)'[k].cbs # call'[u].cbs
               /\ call'[v].pc = "store" /\ call'[v].cbs = call'[u].cbs => u = v
    <3>1. u # t /\ call'[u] = call[u] BY <1>2, <1>3, <2>3
    <3>2. ASSUME NEW k \in 1 .. Len(All(v)') PROVE All(v)'[k].cbs # call'[u].cbs
      <4>1. CASE OldElement(v, k)
        BY <2>3, <3>1, <4>1 DEF OldElement, Structure, BuffersApart
      <4>2. CASE NewElement(t, e, v, k)
        <5>1. call[u].cbs # cb BY <1>8, <2>3, <3>1
        <5>2. All(v)'[k].cbs = cb BY <1>1, <4>2 DEF NewElement
        <5>3. QED BY <3>1, <5>1, <5>2
      <4>3. QED BY <1>3, <4>1, <4>2
    <3>3. call'[v].pc = "store" /\ call'[v].cbs = call'[u].cbs => u = v
      BY <1>2, <1>3, <2>3, <3>1 DEF Structure, BuffersApart
    <3>4. QED BY <3>2, <3>3
  <2>4. QED BY <1>2, <2>1, <2>2, <2>3 DEF BuffersApart
<1>10. \A u \in Threads : \A k \in 1 .. Len(All(u)') :
         TopAhead(u, k)' \/ BottomAhead(u, k)' => OldElement(u, k)
  BY <1>1, <1>3 DEF NewElement
<1>11. WritesApart' /\ WritesHeld'
  <2>1. WritesApart' BY <1>10 DEF WritesApart, Structure, OldElement
  <2>2. WritesHeld' BY <1>2, <1>10 DEF WritesHeld, Structure, OldElement
  <2>3. QED BY <2>1, <2>2
<1>12. InfosApart'
  <2>1. ASSUME NEW ie \in DOMAIN submit_infos_
        PROVE  /\ submit_infos_'[ie].top_marker # submit_infos_'[ie].bottom_marker
               /\ WordsOf(ie)' \cap Free(markers)' = {}
               /\ submit_infos_'[ie].cbs <= allocated
    BY <1>2, <1>4, <1>5 DEF Structure, InfosApart
  <2>2. ASSUME NEW ie \in DOMAIN submit_infos_, NEW ig \in DOMAIN submit_infos_, ie # ig
        PROVE  /\ WordsOf(ie)' \cap WordsOf(ig)' = {}
               /\ submit_infos_'[ie].cbs = submit_infos_'[ig].cbs => submit_infos_'[ie].cbs = Null
    BY <1>2, <1>4, <1>7, <2>2 DEF Structure, InfosApart
  <2>3. ASSUME NEW ie \in DOMAIN submit_infos_, NEW u \in Threads, call'[u].pc = "store"
        PROVE  /\ submit_infos_'[ie].cbs # call'[u].cbs
               /\ call'[u].id = ie => submit_infos_'[ie].cbs = Null
    <3>1. u # t /\ call'[u] = call[u] BY <1>2, <1>3, <2>3
    <3>2. call[u].cbs # cb /\ (call[u].id = ie => ie # id)
      BY <1>8, <2>3, <3>1 DEF InStep
    <3>3. /\ submit_infos_[ie].cbs # call[u].cbs
          /\ call[u].id = ie => submit_infos_[ie].cbs = Null
      BY <2>3, <3>1 DEF Structure, InfosApart
    <3>4. QED BY <1>2, <3>1, <3>2, <3>3
  <2>4. ASSUME NEW ie \in DOMAIN submit_infos_, NEW u \in Threads,
               call'[u].pc \in {"start", "finish"}, call'[u].id = ie
        PROVE  submit_infos_'[ie].cbs = call'[u].cbs
    <3>1. CASE u = t BY <1>2, <2>4, <3>1
    <3>2. CASE u # t
      BY <1>2, <1>3, <1>8, <2>4, <3>2 DEF Structure, InfosApart, InStep
    <3>3. QED BY <3>1, <3>2
  <2>5. QED BY <1>2, <2>1, <2>2, <2>3, <2>4 DEF InfosApart
<1>13. InfosWritten'
  <2>1. SUFFICES ASSUME NEW ie \in DOMAIN submit_infos_, NEW u \in Threads, NEW k \in 1 .. Len(All(u)')
        PROVE  /\ TopAhead(u, k)' /\ All(u)'[k].top \in WordsOf(ie)' => submit_infos_'[ie].cbs = All(u)'[k].cbs
               /\ BottomAhead(u, k)' /\ All(u)'[k].bottom \in WordsOf(ie)' => submit_infos_'[ie].cbs = All(u)'[k].cbs
    BY <1>2 DEF InfosWritten
  <2>2. CASE OldElement(u, k)
    BY <1>2, <1>4, <1>6, <1>7, <2>2 DEF OldElement, Structure, InfosWritten
  <2>3. QED BY <1>10, <2>2
<1>14. InfosRecorded'
  <2>1. SUFFICES ASSUME NEW ie \in DOMAIN submit_infos_, NEW u \in Threads, NEW k \in 1 .. Len(All(u)'),
                        submit_infos_'[ie].cbs = All(u)'[k].cbs
        PROVE  /\ All(u)'[k].top = IF Current(ie, u, k)' /\ call'[u].pc = "start" THEN Null
                                   ELSE submit_infos_'[ie].top_marker
               /\ All(u)'[k].bottom = IF Current(ie, u, k)' THEN Null
                                      ELSE submit_infos_'[ie].bottom_marker
    BY <1>2 DEF InfosRecorded
  <2>2. CASE NewElement(t, e, u, k)
    <3>1. ie = id BY <1>1, <1>2, <1>7, <2>1, <2>2 DEF NewElement
    <3>2. Current(ie, u, k)' /\ call'[u].pc = "start"
      BY <1>2, <2>2, <3>1 DEF NewElement, Current
    <3>3. QED BY <1>1, <2>2, <3>2 DEF NewElement
  <2>3. CASE OldElement(u, k)
    <3>1. submit_infos_[ie].cbs = All(u)[k].cbs /\ k \in 1 .. Len(All(u)) /\ All(u)'[k] = All(u)[k]
      BY <1>2, <1>6, <2>1, <2>3 DEF OldElement
    <3>2. CASE u = t
      <4>1. k # Len(All(t)')
        BY <1>3, <3>1, <3>2, AllTyped DEF NewElement, Basics
      <4>2. ~Current(ie, u, k)' /\ ~Current(ie, u, k)
        BY <1>2, <3>2, <4>1 DEF Current
      <4>3. QED BY <1>2, <3>1, <4>2 DEF Structure, InfosRecorded
    <3>3. CASE u # t
      <4>1. Current(ie, u, k)' <=> Current(ie, u, k) BY <1>3, <3>3 DEF Current
      <4>2. call'[u] = call[u] BY <1>3, <3>3
      <4>3. QED BY <1>2, <3>1, <4>1, <4>2 DEF Structure, InfosRecorded
    <3>4. QED BY <3>2, <3>3
  <2>4. QED BY <1>3, <2>2, <2>3
<1>15. HelpersApart'
  <2>1. Helpers' = Helpers /\ BindSparse' = BindSparse
    BY <1>2, ConfigFixed DEF Helpers
  <2>2. \A h \in Helpers : h.cbs # cb /\ h.cbs # Null
    BY HelpersTyped DEF Structure, HelpersApart, Basics, cb
  <2>3. \A h \in Helpers, u \in Threads : call'[u].cbs # h.cbs
    BY <1>2, <1>3, <2>2 DEF Structure, HelpersApart
  <2>4. \A h \in Helpers, ie \in DOMAIN submit_infos_ : h.marker \notin WordsOf(ie)' /\ h.cbs # submit_infos_'[ie].cbs
    BY <1>2, <1>4, <2>2 DEF Structure, HelpersApart
  <2>5. ASSUME NEW h \in Helpers, NEW u \in Threads, NEW k \in 1 .. Len(All(u)')
        PROVE  /\ TopAhead(u, k)' => All(u)'[k].top # h.marker
               /\ BottomAhead(u, k)' /\ All(u)'[k].bottom = h.marker => All(u)'[k].cbs = h.cbs
               /\ All(u)'[k].cbs = h.cbs => All(u)'[k].top = Null /\ All(u)'[k].bottom = h.marker
    <3>1. CASE OldElement(u, k) BY <3>1 DEF OldElement, Structure, HelpersApart
    <3>2. CASE NewElement(t, e, u, k) BY <1>1, <2>2, <3>2 DEF NewElement
    <3>3. QED BY <1>3, <3>1, <3>2
  <2>6. QED BY <1>2, <2>1, <2>3, <2>4, <2>5 DEF Structure, HelpersApart
<1>16. NoneIsLost'
  <2>1. SUFFICES ASSUME Failures = {}, NEW ie \in DOMAIN submit_infos_, submit_infos_'[ie].cbs # Null
        PROVE  \E u \in Threads : \E k \in 1 .. Len(All(u)') : submit_infos_'[ie].cbs = All(u)'[k].cbs
    BY <1>2, ConfigFixed DEF NoneIsLost
  <2>2. CASE ie = id BY <1>1, <1>2, <1>3, <2>2 DEF NewElement
  <2>3. CASE ie # id
    <3>1. submit_infos_'[ie].cbs = submit_infos_[ie].cbs BY <1>2, <2>3
    <3>2. PICK u \in Threads : \E k \in 1 .. Len(All(u)) : submit_infos_[ie].cbs = All(u)[k].cbs
      BY <2>1, <3>1 DEF Structure, NoneIsLost
    <3>3. PICK k \in 1 .. Len(All(u)) : submit_infos_[ie].cbs = All(u)[k].cbs
      BY <3>2
    <3>4. QED BY <1>3, <3>1, <3>3 DEF OldElement
  <2>4. QED BY <2>2, <2>3
<1>17. QED BY <1>9, <1>11, <1>12, <1>13, <1>14, <1>15, <1>16 DEF Structure

\* The helper submits that a cleanup takes for finished.
Done == {h \in Helpers : HelperFinished(h)}

\* The words of a set of helper submits.
MarkersOf(hs) == {h.marker : h \in hs}

\* The helper submit that is recorded.
NewHelper(w, cb) == [marker |-> w, cbs |-> cb]

\* What RecordBindSparseHelperSubmit does: w is the word that the helper gets.
Binds(t, w) ==
  /\ Appends(t, Entry(allocated + 1, Null, w))
  /\ allocated' = allocated + 1 /\ allocated \in Nat /\ allocated + 1 \in Ids
  /\ call[t].pc = "record" /\ call'[t].pc = "record" /\ call'[t].cbs = Null
  /\ freed' = freed \cup {h.cbs : h \in Done}
  /\ UNCHANGED <<submit_infos_, started, finished>>
  /\ Free(markers)' \subseteq (Free(markers) \cup MarkersOf(Done)) \ {w}
  /\ Once(helper_submit_infos_')
  /\ \/ w = Null /\ word' = word /\ Helpers' = Helpers \ Done
     \/ /\ w \in Words /\ w \in Free(markers) \cup MarkersOf(Done)
        /\ word' = [word EXCEPT ![w] = kQueued]
        /\ Helpers' = (Helpers \ Done) \cup {NewHelper(w, allocated + 1)}

\* When no word is left after the cleanup, it gave none back.
LEMMA RoomAfter ==
  ASSUME MaxWords \in Nat, NEW m \in MarkerStates, NEW hs \in Seq(HelperInfo),
         ~HasRoom(RecycleAll(m, hs))
  PROVE  hs = <<>>
<1>1. PICK r, p : r = m.recycled /\ p = [k \in 1 .. Len(hs) |-> hs[k].marker] OBVIOUS
<1>2. RecycleAll(m, hs).recycled = r \o p BY <1>1 DEF RecycleAll, MarkerStates
<1>3. r \o p = <<>> BY <1>2 DEF HasRoom
<1>4. r \in Seq(Words) /\ p \in Seq({hs[k].marker : k \in 1 .. Len(hs)}) /\ Len(p) = Len(hs)
      /\ Len(hs) \in Nat /\ Len(r) \in Nat
  BY <1>1 DEF MarkerStates
<1>5. Len(r \o p) = Len(r) + Len(p) BY <1>4
<1>6. Len(hs) = 0 BY <1>3, <1>4, <1>5
<1>7. QED BY <1>6

\* The allocator and the list of helpers after the cleanup.
LEMMA BindMarkers ==
  ASSUME Basics, HelpersApart, NEW m, NEW left, NEW fin,
         fin = Kept(helper_submit_infos_, Done), m = RecycleAll(markers, fin),
         left = Kept(helper_submit_infos_, Helpers \ Done)
  PROVE  /\ m \in MarkerStates /\ FreeApart(m) /\ Free(m) = Free(markers) \cup MarkersOf(Done)
         /\ left \in Seq(HelperInfo) /\ ToSet(left) = Helpers \ Done /\ Once(left)
         /\ ~HasRoom(m) => Done = {}
<1>1. MaxWords \in Nat /\ markers \in MarkerStates /\ FreeApart(markers)
  BY RoomIsNat DEF Basics, Typed
<1>2. helper_submit_infos_ \in Seq(HelperInfo) BY DEF Basics, Typed, HelperInfo
<1>3. Once(helper_submit_infos_) BY DEF HelpersApart
<1>4. fin \in Seq(HelperInfo) /\ ToSet(fin) = Done /\ Once(fin)
  <2>1. fin \in Seq(HelperInfo) /\ ToSet(fin) = Helpers \cap Done /\ Once(fin)
    BY <1>2, <1>3, KeptKeeps DEF Helpers
  <2>2. QED BY <2>1 DEF Done
<1>5. left \in Seq(HelperInfo) /\ ToSet(left) = Helpers \ Done /\ Once(left)
  <2>1. left \in Seq(HelperInfo) /\ ToSet(left) = Helpers \cap (Helpers \ Done) /\ Once(left)
    BY <1>2, <1>3, KeptKeeps DEF Helpers
  <2>2. QED BY <2>1
<1>6. \A j \in 1 .. Len(fin) : fin[j] \in Done BY <1>4 DEF ToSet
<1>7. \A g, h \in Done : g.marker = h.marker => g = h BY DEF Done, HelpersApart
<1>8. \A j, k \in 1 .. Len(fin) : fin[j].marker = fin[k].marker => j = k
  BY <1>4, <1>6, <1>7 DEF Once
<1>9. \A h \in ToSet(fin) : h.marker \notin Free(markers)
  BY <1>4 DEF Done, HelpersApart
<1>10. /\ m \in MarkerStates /\ FreeApart(m)
       /\ Free(m) = Free(markers) \cup {h.marker : h \in ToSet(fin)}
  BY <1>1, <1>4, <1>8, <1>9, GivesAll
<1>11. ASSUME ~HasRoom(m) PROVE Done = {}
  <2>1. fin = <<>> BY <1>1, <1>4, <1>11, RoomAfter
  <2>2. QED BY <1>4, <2>1 DEF ToSet
<1>12. QED BY <1>4, <1>5, <1>10, <1>11 DEF MarkersOf

\* RecordBindSparseHelperSubmit, as Binds has it.
LEMMA BindSteps ==
  ASSUME Basics, HelpersApart, config' = config, NEW t \in Threads, RecordBindSparseHelperSubmit(t)
  PROVE  Basics' /\ \E w \in Words \cup {Null} : Binds(t, w)
<1>1. PICK left, fin, m, cb :
        /\ left = Kept(helper_submit_infos_, Helpers \ Done) /\ fin = Kept(helper_submit_infos_, Done)
        /\ m = RecycleAll(markers, fin) /\ cb = allocated + 1
  OBVIOUS
<1>2. PICK w : w = IF HasRoom(m) THEN Allocated(m) ELSE Null OBVIOUS
<1>3. PICK e : e = Entry(cb, Null, w) OBVIOUS
<1>4. /\ call[t].pc = "record" /\ call[t].left > 0 /\ allocated < MaxBuffers /\ allocated' = cb
      /\ freed' = freed \cup {h.cbs : h \in Done}
      /\ HasRoom(m) => /\ markers' = Without(m)
                       /\ helper_submit_infos_' = Append(left, NewHelper(w, cb))
                       /\ word' = [word EXCEPT ![w] = kQueued]
      /\ ~HasRoom(m) => helper_submit_infos_' = left /\ markers' = markers /\ word' = word
      /\ call' = [call EXCEPT ![t].left = @ - 1, ![t].batch = Append(@, e)]
      /\ UNCHANGED <<tracker, queue_submit_index_, gpu>>
  BY <1>1, <1>2, <1>3 DEF RecordBindSparseHelperSubmit, Done, Helpers, NewHelper
<1>5. MaxWords \in Nat /\ markers \in MarkerStates /\ FreeApart(markers)
  BY RoomIsNat DEF Basics, Typed
<1>6. /\ allocated \in Nat /\ cb \in Ids /\ cb \in 1 .. MaxBuffers /\ allocated \in 0 .. MaxBuffers
      /\ submit_info_counter \in 0 .. allocated /\ submit_info_counter \in 0 .. cb
  <2>1. allocated \in 0 .. MaxBuffers /\ submit_info_counter \in 0 .. allocated
    BY DEF Basics, Typed
  <2>2. QED BY <1>1, <1>4, <2>1, BoundAssumption DEF Ids
<1>7. /\ m \in MarkerStates /\ FreeApart(m) /\ Free(m) = Free(markers) \cup MarkersOf(Done)
      /\ left \in Seq(HelperInfo) /\ ToSet(left) = Helpers \ Done /\ Once(left)
      /\ ~HasRoom(m) => Done = {}
  BY <1>1, BindMarkers
<1>8. /\ markers' \in MarkerStates /\ FreeApart(markers') /\ w \in Words \cup {Null}
      /\ HasRoom(m) => w \in Words /\ w \in Free(m) /\ Free(markers') = Free(m) \ {w}
      /\ ~HasRoom(m) => w = Null /\ Free(markers') = Free(m)
  <2>1. CASE HasRoom(m) BY <1>2, <1>4, <1>5, <1>7, <2>1, Takes
  <2>2. CASE ~HasRoom(m) BY <1>2, <1>4, <1>5, <1>7, <2>2 DEF MarkersOf
  <2>3. QED BY <2>1, <2>2
<1>9. Free(markers)' = Free(markers') BY ConfigFixed DEF Free
<1>10. Null \notin Words /\ Free(markers') \subseteq Words
  BY <1>5, <1>8, FreeIsWords DEF Words, Null
<1>11. Free(markers)' \subseteq (Free(markers) \cup MarkersOf(Done)) \ {w}
  BY <1>7, <1>8, <1>9, <1>10
<1>12. e \in Elements BY <1>3, <1>6, <1>8 DEF Entry, Elements, Null
<1>13. PICK r, b : b = Append(call[t].batch, e) /\ r = [call[t] EXCEPT !.left = @ - 1, !.batch = b]
  OBVIOUS
<1>14. call[t] \in Calls /\ call[t].batch \in Seq(Elements) /\ call[t].left \in 0 .. MaxCount
       /\ call[t].cbs = Null
  BY <1>4, CallIs DEF Basics, CallsSound, InStep
<1>15. b \in Seq(Elements) /\ b # <<>> BY <1>12, <1>13, <1>14
<1>16. call' = [call EXCEPT ![t] = r] BY <1>4, <1>13
<1>17. r \in Calls /\ r.pc = "record" /\ r.cbs = Null /\ r.batch = b
  <2>1. call[t].left - 1 \in 0 .. MaxCount BY <1>4, <1>14, BoundAssumption
  <2>2. QED BY <1>4, <1>13, <1>14, <1>15, <2>1 DEF Calls
<1>18. /\ call' \in [Threads -> Calls] /\ call'[t] = r
       /\ \A u \in Threads \ {t} : call'[u] = call[u]
  BY <1>16, <1>17, ConfigFixed, CallBecomes DEF Basics
<1>19. word' \in [Words -> 0 .. CommandBufferValue]
  <2>1. word \in [Words -> 0 .. CommandBufferValue] BY DEF Basics, Typed
  <2>2. kQueued \in 0 .. CommandBufferValue BY DEF kQueued, CommandBufferValue
  <2>3. QED BY <1>4, <1>8, <2>1, <2>2
<1>20. /\ Once(helper_submit_infos_') /\ helper_submit_infos_' \in Seq(HelperInfo)
       /\ HasRoom(m) => Helpers' = (Helpers \ Done) \cup {NewHelper(w, cb)}
       /\ ~HasRoom(m) => Helpers' = Helpers \ Done
  <2>1. CASE HasRoom(m)
    <3>1. PICK h : h = NewHelper(w, cb) OBVIOUS
    <3>2. h \in HelperInfo /\ h.cbs = cb
      BY <1>6, <1>8, <2>1, <3>1 DEF NewHelper, HelperInfo
    <3>3. h \notin ToSet(left)
      <4>1. \A g \in Helpers : g.cbs <= allocated /\ g.cbs \in Nat
        BY HelpersTyped DEF HelpersApart, Basics
      <4>2. h \notin Helpers BY <1>1, <1>6, <3>2, <4>1
      <4>3. QED BY <1>7, <4>2
    <3>4. /\ Append(left, h) \in Seq(HelperInfo) /\ ToSet(Append(left, h)) = ToSet(left) \cup {h}
          /\ Once(Append(left, h))
      BY ONLY <1>7, <3>2, <3>3, AppendIs
    <3>5. QED BY <1>4, <1>7, <2>1, <3>1, <3>4 DEF Helpers
  <2>2. CASE ~HasRoom(m) BY <1>4, <1>7, <2>2 DEF Helpers
  <2>3. QED BY <2>1, <2>2
<1>21. freed' \subseteq 1 .. allocated'
  <2>1. \A h \in Done : h.cbs \in Nat \ {0} /\ h.cbs <= allocated
    BY HelpersTyped DEF Done, HelpersApart, Basics
  <2>2. freed \subseteq 1 .. allocated BY DEF Basics, Typed
  <2>3. QED BY <1>1, <1>4, <1>6, <2>1, <2>2
<1>22. Typed'
  <2>1. /\ allocated' \in 0 .. MaxBuffers /\ submit_info_counter' \in 0 .. allocated'
        /\ submit_info_counter' = submit_info_counter
    BY <1>1, <1>4, <1>6, BoundAssumption DEF tracker
  <2>2. helper_submit_infos_' \in Seq([marker : Words, cbs : Ids])
    BY <1>20 DEF HelperInfo
  <2>3. UNCHANGED <<submit_infos_, queue_submits_, queue_submit_index_, queue, started, finished>>
    BY <1>4 DEF tracker, gpu
  <2>4. markers' \in MarkerStates BY <1>8
  <2>5. QED
    BY <1>18, <1>19, <1>21, <2>1, <2>2, <2>3, <2>4, ConfigFixed DEF Basics,
       Typed
<1>23. CallsSound'
  <2>1. \A u \in Threads : call[u].cbs \in 1 .. allocated => call[u].cbs \in 1 .. allocated'
    BY <1>1, <1>4, <1>6
  <2>2. BindSparse' = BindSparse /\ submit_info_counter' = submit_info_counter /\ BindSparse
    BY <1>4, ConfigFixed DEF tracker, Basics, CallsSound
  <2>3. QED BY <1>15, <1>17, <1>18, <2>1, <2>2 DEF Basics, CallsSound, InStep
<1>24. IdsApart' /\ RegistriesAgree'
  BY <1>4, <1>17, <1>18 DEF Basics, IdsApart, RegistriesAgree, tracker, InStep
<1>25. Appends(t, e)
  <2>1. call'[t].batch = Append(call[t].batch, e) BY <1>13, <1>17, <1>18
  <2>2. UNCHANGED <<config, queue, started, finished>> BY <1>4 DEF gpu
  <2>3. QED BY <1>12, <1>18, <2>1, <2>2, AppendsIs DEF Basics
<1>26. Binds(t, w)
  <2>1. call'[t].pc = "record" /\ call'[t].cbs = Null BY <1>17, <1>18
  <2>2. UNCHANGED <<submit_infos_, started, finished>> BY <1>4 DEF tracker, gpu
  <2>3. \/ w = Null /\ word' = word /\ Helpers' = Helpers \ Done
        \/ /\ w \in Words /\ w \in Free(markers) \cup MarkersOf(Done)
           /\ word' = [word EXCEPT ![w] = kQueued]
           /\ Helpers' = (Helpers \ Done) \cup {NewHelper(w, cb)}
    BY <1>4, <1>7, <1>8, <1>20
  <2>4. QED
    BY <1>1, <1>3, <1>4, <1>6, <1>11, <1>20, <1>25, <2>1, <2>2, <2>3 DEF Binds
<1>27. QED BY <1>8, <1>22, <1>23, <1>24, <1>26 DEF Basics

\* The helper's word may be one that the cleanup gave back: the GPU is done
\* with it, by HelpersTrue.
LEMMA BindStructure ==
  ASSUME Basics, Structure, HelpersTrue, config' = config, NEW t \in Threads,
         NEW w \in Words \cup {Null}, Binds(t, w), Typed'
  PROVE  Structure'
<1> DEFINE cb == allocated + 1
           e == Entry(cb, Null, w)
           new == NewHelper(w, cb)
<1>1. /\ e.cbs = cb /\ e.top = Null /\ e.bottom = w
      /\ new.marker = w /\ new.cbs = cb
  BY DEF Entry, NewHelper
<1>2. /\ Appends(t, e) /\ allocated' = cb /\ allocated \in Nat
      /\ call[t].pc = "record" /\ call'[t].pc = "record" /\ call'[t].cbs = Null
      /\ submit_infos_' = submit_infos_ /\ finished' = finished
      /\ Free(markers)' \subseteq (Free(markers) \cup MarkersOf(Done)) \ {w}
      /\ Once(helper_submit_infos_')
      /\ w # Null => w \in Free(markers) \cup MarkersOf(Done)
      /\ \A h \in Helpers' : h \in Helpers \ Done \/ (h = new /\ w # Null)
  BY RoomIsNat DEF Binds, Words, Null, Basics
<1>3. cb \in Nat \ {0} /\ cb > allocated /\ cb # Null BY <1>2 DEF Null
<1> HIDE DEF e, cb, new
<1>4. /\ \A u \in Threads : \A k \in 1 .. Len(All(u)') : OldElement(u, k) \/ NewElement(t, e, u, k)
      /\ Len(All(t)) + 1 \in 1 .. Len(All(t)') /\ NewElement(t, e, t, Len(All(t)) + 1)
      /\ \A u \in Threads : \A k \in 1 .. Len(All(u)) : k \in 1 .. Len(All(u)') /\ OldElement(u, k)
      /\ \A u \in Threads \ {t} : call'[u] = call[u] /\ Len(All(u)') = Len(All(u))
  BY <1>2 DEF Appends
<1>5. \A id \in DOMAIN submit_infos_ : WordsOf(id)' = WordsOf(id)
  BY <1>2 DEF WordsOf
<1>6. \A u \in Threads : \A k \in 1 .. Len(All(u)) : All(u)[k].cbs \in Nat /\ All(u)[k].cbs <= allocated
  BY ElementsTyped DEF Structure, BuffersApart, Basics
<1>7. \A u \in Threads : \A k \in 1 .. Len(All(u)) : All(u)[k].cbs # cb
  BY <1>2, <1>3, <1>6
<1>8. \A id \in DOMAIN submit_infos_ : submit_infos_[id].cbs # cb /\ submit_infos_[id].cbs \in Nat
                                       /\ submit_infos_[id].cbs <= allocated
  <2>1. \A id \in DOMAIN submit_infos_ : submit_infos_[id].cbs \in Nat /\ submit_infos_[id].cbs <= allocated
    BY BoundAssumption DEF Structure, InfosApart, Basics, Typed, SubmitInfo
  <2>2. QED BY <1>2, <1>3, <2>1
<1>9. \A u \in Threads : call[u].cbs # cb
  <2>1. \A u \in Threads : call[u].cbs = Null \/ call[u].cbs \in 1 .. allocated
    BY DEF Basics, CallsSound
  <2>2. QED BY <1>2, <1>3, <2>1
<1>10. \A h \in Helpers : h.cbs # cb /\ h.cbs # Null /\ h.cbs <= allocated /\ h.cbs \in Nat
  <2>1. \A h \in Helpers : h.cbs \in Nat /\ h.cbs <= allocated /\ h.cbs # Null
    BY HelpersTyped DEF Structure, HelpersApart, Basics
  <2>2. QED BY <1>2, <1>3, <2>1
\* The words that are given out now are not about to be written.
<1>11. ASSUME NEW x \in Free(markers) \cup MarkersOf(Done), NEW u \in Threads, NEW k \in 1 .. Len(All(u))
       PROVE  /\ TopAhead(u, k) => All(u)[k].top # x
              /\ BottomAhead(u, k) => All(u)[k].bottom # x
  <2>1. CASE x \in Free(markers) BY <2>1 DEF Structure, WritesHeld
  <2>2. CASE x \in MarkersOf(Done)
    <3>1. PICK h \in Helpers : HelperFinished(h) /\ x = h.marker
      BY <2>2 DEF MarkersOf, Done
    <3>2. TopAhead(u, k) => All(u)[k].top # x
      BY <3>1 DEF Structure, HelpersApart
    <3>3. ASSUME BottomAhead(u, k), All(u)[k].bottom = x PROVE FALSE
      <4>1. All(u)[k].cbs = h.cbs BY <3>1, <3>3 DEF Structure, HelpersApart
      <4>2. k <= finished[u] /\ k > finished[u]
        BY <3>1, <3>3, <4>1 DEF HelpersTrue, BottomAhead
      <4>3. QED BY <4>2, CountsTyped, ElementsTyped DEF Basics
    <3>4. QED BY <3>2, <3>3
  <2>3. QED BY <2>1, <2>2
<1>12. \A x \in Free(markers) \cup MarkersOf(Done) :
         /\ \A id \in DOMAIN submit_infos_ : x \notin WordsOf(id)
         /\ \A h \in Helpers \ Done : x # h.marker
  BY DEF Structure, InfosApart, HelpersApart, MarkersOf, Done
<1>13. BuffersApart'
  <2>1. ASSUME NEW u \in Threads, NEW v \in Threads, NEW j \in 1 .. Len(All(u)'), NEW k \in 1 .. Len(All(v)'),
               All(u)'[j].cbs = All(v)'[k].cbs
        PROVE  u = v /\ j = k
    <3>1. CASE OldElement(u, j) /\ OldElement(v, k)
      BY <2>1, <3>1 DEF OldElement, Structure, BuffersApart
    <3>2. CASE OldElement(u, j) /\ NewElement(t, e, v, k)
      BY <1>1, <1>7, <2>1, <3>2 DEF OldElement, NewElement
    <3>3. CASE NewElement(t, e, u, j) /\ OldElement(v, k)
      BY <1>1, <1>7, <2>1, <3>3 DEF OldElement, NewElement
    <3>4. CASE NewElement(t, e, u, j) /\ NewElement(t, e, v, k)
      BY <3>4 DEF NewElement
    <3>5. QED BY <1>4, <3>1, <3>2, <3>3, <3>4
  <2>2. ASSUME NEW u \in Threads, NEW k \in 1 .. Len(All(u)') PROVE All(u)'[k].cbs <= allocated'
    <3>1. CASE OldElement(u, k) BY <1>2, <1>3, <1>6, <3>1 DEF OldElement
    <3>2. CASE NewElement(t, e, u, k) BY <1>1, <1>2, <1>3, <3>2 DEF NewElement
    <3>3. QED BY <1>4, <3>1, <3>2
  <2>3. ASSUME NEW u \in Threads, NEW v \in Threads, call'[u].pc = "store"
        PROVE  /\ \A k \in 1 .. Len(All(v)') : All(v)'[k].cbs # call'[u].cbs
               /\ call'[v].pc = "store" /\ call'[v].cbs = call'[u].cbs => u = v
    <3>1. u # t /\ call'[u] = call[u] BY <1>2, <1>4, <2>3
    <3>2. ASSUME NEW k \in 1 .. Len(All(v)') PROVE All(v)'[k].cbs # call'[u].cbs
      <4>1. CASE OldElement(v, k)
        BY <2>3, <3>1, <4>1 DEF OldElement, Structure, BuffersApart
      <4>2. CASE NewElement(t, e, v, k) BY <1>1, <1>9, <3>1, <4>2 DEF NewElement
      <4>3. QED BY <1>4, <4>1, <4>2
    <3>3. call'[v].pc = "store" /\ call'[v].cbs = call'[u].cbs => u = v
      BY <1>2, <1>4, <2>3, <3>1 DEF Structure, BuffersApart
    <3>4. QED BY <3>2, <3>3
  <2>4. QED BY <2>1, <2>2, <2>3 DEF BuffersApart
<1>14. \A u \in Threads : \A k \in 1 .. Len(All(u)') :
         /\ TopAhead(u, k)' => OldElement(u, k)
         /\ BottomAhead(u, k)' => OldElement(u, k) \/ (NewElement(t, e, u, k) /\ w # Null)
  BY <1>1, <1>4 DEF NewElement
<1>15. WritesApart'
  <2>1. SUFFICES ASSUME NEW u \in Threads, NEW v \in Threads,
                        NEW j \in 1 .. Len(All(u)'), NEW k \in 1 .. Len(All(v)')
        PROVE  /\ TopAhead(u, j)' /\ TopAhead(v, k)' /\ All(u)'[j].top = All(v)'[k].top => u = v /\ j = k
               /\ BottomAhead(u, j)' /\ BottomAhead(v, k)' /\ All(u)'[j].bottom = All(v)'[k].bottom
                    => u = v /\ j = k
               /\ TopAhead(u, j)' /\ BottomAhead(v, k)' => All(u)'[j].top # All(v)'[k].bottom
    BY DEF WritesApart
  <2>2. CASE OldElement(u, j) /\ OldElement(v, k)
    BY <2>2 DEF OldElement, Structure, WritesApart
  <2>3. CASE OldElement(u, j) /\ NewElement(t, e, v, k)
    <3>1. /\ j \in 1 .. Len(All(u)) /\ All(u)'[j] = All(u)[j]
          /\ TopAhead(u, j)' <=> TopAhead(u, j)
          /\ BottomAhead(u, j)' <=> BottomAhead(u, j)
      BY <2>3 DEF OldElement
    <3>2. /\ All(v)'[k].bottom = w /\ ~TopAhead(v, k)'
          /\ BottomAhead(v, k)' => w # Null
      BY <1>1, <2>3 DEF NewElement
    <3>3. w # Null => /\ TopAhead(u, j) => All(u)[j].top # w
                      /\ BottomAhead(u, j) => All(u)[j].bottom # w
      BY <1>2, <1>11, <3>1
    <3>4. QED BY <3>1, <3>2, <3>3
  <2>4. CASE NewElement(t, e, u, j) /\ OldElement(v, k)
    <3>1. /\ k \in 1 .. Len(All(v)) /\ All(v)'[k] = All(v)[k]
          /\ BottomAhead(v, k)' <=> BottomAhead(v, k)
      BY <2>4 DEF OldElement
    <3>2. /\ All(u)'[j].bottom = w /\ ~TopAhead(u, j)'
          /\ BottomAhead(u, j)' => w # Null
      BY <1>1, <2>4 DEF NewElement
    <3>3. w # Null => (BottomAhead(v, k) => All(v)[k].bottom # w)
      BY <1>2, <1>11, <3>1
    <3>4. QED BY <3>1, <3>2, <3>3
  <2>5. CASE NewElement(t, e, u, j) /\ NewElement(t, e, v, k)
    BY <1>1, <2>5 DEF NewElement
  <2>6. QED BY <1>4, <2>2, <2>3, <2>4, <2>5
<1>16. WritesHeld'
  <2>1. SUFFICES ASSUME NEW u \in Threads, NEW k \in 1 .. Len(All(u)')
        PROVE  /\ TopAhead(u, k)' => All(u)'[k].top \notin Free(markers)'
               /\ BottomAhead(u, k)' => All(u)'[k].bottom \notin Free(markers)'
    BY DEF WritesHeld
  <2>2. CASE OldElement(u, k) BY <1>2, <1>11, <2>2 DEF OldElement
  <2>3. CASE NewElement(t, e, u, k) BY <1>1, <1>2, <2>3 DEF NewElement
  <2>4. QED BY <1>4, <2>2, <2>3
<1>17. InfosApart'
  <2>1. \A id \in DOMAIN submit_infos_ : /\ WordsOf(id)' \cap Free(markers)' = {}
                                         /\ submit_infos_'[id].cbs <= allocated'
    BY <1>2, <1>3, <1>5, <1>8, <1>12
  <2>2. \A u \in Threads : call'[u].pc \in InStep => call'[u] = call[u]
    BY <1>2, <1>4 DEF InStep
  <2>3. QED BY <1>2, <1>5, <2>1, <2>2 DEF Structure, InfosApart, InStep
<1>18. InfosWritten'
  <2>1. SUFFICES ASSUME NEW id \in DOMAIN submit_infos_, NEW u \in Threads, NEW k \in 1 .. Len(All(u)')
        PROVE  /\ TopAhead(u, k)' /\ All(u)'[k].top \in WordsOf(id)' => submit_infos_'[id].cbs = All(u)'[k].cbs
               /\ BottomAhead(u, k)' /\ All(u)'[k].bottom \in WordsOf(id)' => submit_infos_'[id].cbs = All(u)'[k].cbs
    BY <1>2 DEF InfosWritten
  <2>2. CASE OldElement(u, k)
    BY <1>2, <1>5, <2>2 DEF OldElement, Structure, InfosWritten
  <2>3. CASE NewElement(t, e, u, k)
    <3>1. w # Null => w \notin WordsOf(id) BY <1>2, <1>12
    <3>2. QED BY <1>1, <1>5, <2>3, <3>1 DEF NewElement
  <2>4. QED BY <1>4, <2>2, <2>3
<1>19. InfosRecorded'
  <2>1. SUFFICES ASSUME NEW id \in DOMAIN submit_infos_, NEW u \in Threads, NEW k \in 1 .. Len(All(u)'),
                        submit_infos_[id].cbs = All(u)'[k].cbs
        PROVE  /\ All(u)'[k].top = IF Current(id, u, k)' /\ call'[u].pc = "start" THEN Null
                                   ELSE submit_infos_[id].top_marker
               /\ All(u)'[k].bottom = IF Current(id, u, k)' THEN Null
                                      ELSE submit_infos_[id].bottom_marker
    BY <1>2 DEF InfosRecorded
  <2>2. OldElement(u, k) BY <1>1, <1>4, <1>8, <2>1 DEF NewElement
  <2>3. (Current(id, u, k)' <=> Current(id, u, k)) /\ (Current(id, u, k) => call'[u] = call[u])
    BY <1>2, <1>4 DEF Current
  <2>4. QED BY <2>1, <2>2, <2>3 DEF OldElement, Structure, InfosRecorded
<1>20. HelpersApart'
  <2>1. BindSparse' /\ BindSparse
    BY <1>2, ConfigFixed DEF Basics, CallsSound
  <2>2. \A g, h \in Helpers' : /\ g.marker = h.marker => g = h
                               /\ g.cbs = h.cbs => g = h
    BY <1>1, <1>2, <1>10, <1>12 DEF Structure, HelpersApart
  <2>3. \A h \in Helpers' : h.marker \notin Free(markers)' /\ h.cbs <= allocated'
    BY <1>1, <1>2, <1>3, <1>10, <1>12
  <2>4. \A h \in Helpers', id \in DOMAIN submit_infos_ :
          h.marker \notin WordsOf(id)' /\ h.cbs # submit_infos_'[id].cbs
    BY <1>1, <1>2, <1>5, <1>8, <1>12 DEF Structure, HelpersApart
  <2>5. \A h \in Helpers', u \in Threads : call'[u].cbs # h.cbs
    BY <1>1, <1>2, <1>3, <1>4, <1>9, <1>10 DEF Structure, HelpersApart
  <2>6. ASSUME NEW h \in Helpers', NEW u \in Threads, NEW k \in 1 .. Len(All(u)')
        PROVE  /\ TopAhead(u, k)' => All(u)'[k].top # h.marker
               /\ BottomAhead(u, k)' /\ All(u)'[k].bottom = h.marker => All(u)'[k].cbs = h.cbs
               /\ All(u)'[k].cbs = h.cbs => All(u)'[k].top = Null /\ All(u)'[k].bottom = h.marker
    <3>1. CASE h \in Helpers \ Done /\ OldElement(u, k)
      BY <3>1 DEF OldElement, Structure, HelpersApart
    <3>2. CASE h = new /\ w # Null /\ OldElement(u, k)
      BY <1>1, <1>2, <1>7, <1>11, <3>2 DEF OldElement
    <3>3. CASE h \in Helpers \ Done /\ NewElement(t, e, u, k)
      BY <1>1, <1>2, <1>10, <1>12, <3>3 DEF NewElement
    <3>4. CASE h = new /\ NewElement(t, e, u, k)
      BY <1>1, <3>4 DEF NewElement
    <3>5. QED BY <1>2, <1>4, <3>1, <3>2, <3>3, <3>4
  <2>7. QED BY <1>2, <2>1, <2>2, <2>3, <2>4, <2>5, <2>6 DEF HelpersApart
<1>21. NoneIsLost'
  <2>1. SUFFICES ASSUME Failures = {}, NEW id \in DOMAIN submit_infos_, submit_infos_[id].cbs # Null
        PROVE  \E u \in Threads : \E k \in 1 .. Len(All(u)') : submit_infos_[id].cbs = All(u)'[k].cbs
    BY <1>2, ConfigFixed DEF NoneIsLost
  <2>2. PICK u \in Threads : \E k \in 1 .. Len(All(u)) : submit_infos_[id].cbs = All(u)[k].cbs
    BY <2>1 DEF Structure, NoneIsLost
  <2>3. PICK k \in 1 .. Len(All(u)) : submit_infos_[id].cbs = All(u)[k].cbs
    BY <2>2
  <2>4. QED BY <1>4, <2>3 DEF OldElement
<1>22. QED
  BY <1>13, <1>15, <1>16, <1>17, <1>18, <1>19, <1>20, <1>21 DEF Structure

-----------------------------------------------------------------------------
(* A step of one thread that writes to the last element of its batch.      *)

\* An element that a write leaves alone.
SameElement(u, k) ==
  /\ All(u)'[k] = All(u)[k]
  /\ TopAhead(u, k)' <=> TopAhead(u, k)
  /\ BottomAhead(u, k)' <=> BottomAhead(u, k)

\* An element of All after the last one of thread t's batch has become e.
Edited(t, e, u, k) ==
  /\ u = t /\ k = Len(All(t)) /\ All(u)'[k] = e /\ e.cbs = All(t)[k].cbs
  /\ TopAhead(u, k)' <=> e.top # Null
  /\ BottomAhead(u, k)' <=> e.bottom # Null
  /\ TopAhead(u, k) <=> All(t)[k].top # Null
  /\ BottomAhead(u, k) <=> All(t)[k].bottom # Null

\* Thread t's last element becomes e.
Edits(t, e) ==
  /\ \A u \in Threads : /\ Len(All(u)') = Len(All(u))
                        /\ \A k \in 1 .. Len(All(u)) : \/ SameElement(u, k) /\ ~(u = t /\ k = Len(All(t)))
                                                       \/ Edited(t, e, u, k)
  /\ Len(All(t)) \in 1 .. Len(All(t)) /\ Edited(t, e, t, Len(All(t)))
  /\ \A u \in Threads \ {t} : call'[u] = call[u]

\* The element that RecordSubmitStart and RecordSubmitFinish write to.
LEMMA LastIsCurrent ==
  ASSUME Basics, NEW t \in Threads, call[t].pc \in {"start", "finish"}
  PROVE  /\ call[t].batch # <<>> /\ Len(call[t].batch) \in 1 .. Len(call[t].batch)
         /\ Len(All(t)) \in 1 .. Len(All(t))
         /\ All(t)[Len(All(t))] = call[t].batch[Len(call[t].batch)]
         /\ All(t)[Len(All(t))].cbs = call[t].cbs /\ call[t].cbs \in 1 .. allocated
<1>1. PICK b : b = call[t].batch OBVIOUS
<1>2. b \in Seq(Elements) /\ b # <<>> /\ Last(b).cbs = call[t].cbs /\ call[t].cbs \in 1 .. allocated
  BY <1>1, CallIs DEF Basics, CallsSound, InStep
<1>3. Len(b) \in 1 .. Len(b) /\ Last(b) = b[Len(b)] /\ Len(b) \in Nat \ {0}
  BY <1>2 DEF Last
<1>4. /\ Len(queue[t]) \in Nat /\ Len(All(t)) = Len(queue[t]) + Len(b)
      /\ \A k \in 1 .. Len(b) : All(t)[Len(queue[t]) + k] = b[k]
  BY <1>1, AllTyped DEF Basics
<1>5. Len(All(t)) \in 1 .. Len(All(t))
  <2>1. \A m \in Nat, n \in Nat \ {0} : m + n \in 1 .. m + n OBVIOUS
  <2>2. QED BY <1>3, <1>4, <2>1
<1>6. QED BY <1>1, <1>2, <1>3, <1>4, <1>5

\* What a write that is recorded does to All.
LEMMA EditsIs ==
  ASSUME Basics, NEW t \in Threads, NEW e \in Elements, call[t].pc \in {"start", "finish"},
         UNCHANGED <<config, queue, started, finished>>,
         call'[t].batch = [call[t].batch EXCEPT ![Len(call[t].batch)] = e],
         e.cbs = call[t].cbs,
         \A u \in Threads \ {t} : call'[u] = call[u]
  PROVE  Edits(t, e)
<1>1. PICK q, b : q = queue[t] /\ b = call[t].batch OBVIOUS
<1>2. q \in Seq(Elements) /\ b \in Seq(Elements) /\ Len(q) \in Nat /\ Len(b) \in Nat
  BY <1>1, AllTyped DEF Basics
<1>3. /\ b # <<>> /\ Len(b) \in 1 .. Len(b) /\ Len(All(t)) \in 1 .. Len(All(t))
      /\ All(t)[Len(All(t))].cbs = call[t].cbs
  BY <1>1, LastIsCurrent
<1>4. PICK a : a = [b EXCEPT ![Len(b)] = e] OBVIOUS
<1>5. /\ a \in Seq(Elements) /\ Len(a) = Len(b) /\ a[Len(b)] = e
      /\ \A k \in 1 .. Len(b) : k # Len(b) => a[k] = b[k]
  BY <1>2, <1>3, <1>4, ExceptSeq
<1>6. All(t) = q \o b /\ All(t)' = q \o a BY <1>1, <1>4 DEF All
<1>7. /\ Len(q \o b) = Len(q) + Len(b)
      /\ \A k \in 1 .. Len(q) : (q \o b)[k] = q[k]
      /\ \A k \in 1 .. Len(b) : (q \o b)[Len(q) + k] = b[k]
  BY ONLY <1>2, ConcatIs
<1>8. /\ Len(q \o a) = Len(q) + Len(b)
      /\ \A k \in 1 .. Len(q) : (q \o a)[k] = q[k]
      /\ \A k \in 1 .. Len(b) : (q \o a)[Len(q) + k] = a[k]
  <2>1. q \in Seq(Elements) /\ a \in Seq(Elements) BY <1>2, <1>5
  <2>2. /\ Len(q \o a) = Len(q) + Len(a)
        /\ \A k \in 1 .. Len(q) : (q \o a)[k] = q[k]
        /\ \A k \in 1 .. Len(a) : (q \o a)[Len(q) + k] = a[k]
    BY ONLY <2>1, ConcatIs
  <2>3. QED BY <1>5, <2>2
<1>9. \A k \in 1 .. Len(All(t)) : k \in 1 .. Len(q) \/ \E j \in 1 .. Len(b) : k = Len(q) + j
  <2> TAKE k \in 1 .. Len(All(t))
  <2>1. Len(All(t)) = Len(q) + Len(b) BY <1>6, <1>7
  <2>2. CASE k <= Len(q) BY <1>2, <2>1, <2>2
  <2>3. CASE k > Len(q)
    <3>1. k - Len(q) \in 1 .. Len(b) /\ k = Len(q) + (k - Len(q))
      BY <1>2, <2>1, <2>3
    <3>2. QED BY <3>1
  <2>4. QED BY <1>2, <2>1, <2>2, <2>3
<1>10. /\ Len(All(t)') = Len(All(t)) /\ Len(All(t)) = Len(q) + Len(b)
       /\ All(t)'[Len(All(t))] = e
  BY <1>3, <1>5, <1>6, <1>7, <1>8
<1>11. ASSUME NEW k \in 1 .. Len(All(t)), k # Len(All(t)) PROVE All(t)'[k] = All(t)[k]
  <2>1. CASE k \in 1 .. Len(q) BY <1>6, <1>7, <1>8, <2>1
  <2>2. CASE \E j \in 1 .. Len(b) : k = Len(q) + j
    <3>1. PICK j \in 1 .. Len(b) : k = Len(q) + j BY <2>2
    <3>2. j # Len(b) BY <1>10, <1>11, <3>1
    <3>3. QED BY <1>5, <1>6, <1>7, <1>8, <3>1, <3>2
  <2>3. QED BY <1>9, <2>1, <2>2
<1>12. Len(All(t)) > started[t] /\ Len(All(t)) > finished[t]
  <2>1. /\ started[t] \in Nat /\ finished[t] \in Nat /\ finished[t] <= started[t] /\ started[t] <= Len(q)
    BY <1>1, CountsTyped DEF Basics
  <2>2. \A f, n, m \in Nat, l \in Nat \ {0} : f <= n /\ n <= m => m + l > n /\ m + l > f OBVIOUS
  <2>3. Len(b) \in Nat \ {0} BY <1>2, <1>3
  <2>4. QED BY <1>2, <1>10, <2>1, <2>2, <2>3
<1>13. \A u \in Threads \ {t} : All(u)' = All(u) BY DEF All
<1>14. \A u \in Threads \ {t} : \A k \in 1 .. Len(All(u)) : SameElement(u, k)
  BY <1>13 DEF SameElement, TopAhead, BottomAhead
<1>15. \A k \in 1 .. Len(All(t)) : k # Len(All(t)) => SameElement(t, k)
  BY <1>10, <1>11 DEF SameElement, TopAhead, BottomAhead
<1>16. Edited(t, e, t, Len(All(t)))
  BY <1>3, <1>10, <1>12 DEF Edited, TopAhead, BottomAhead
<1>17. QED BY <1>3, <1>10, <1>13, <1>14, <1>15, <1>16 DEF Edits

\* The write that the current buffers hold after the step, if they are tracked.
Writes(t, e) ==
  LET id == call[t].id
      c == All(t)[Len(All(t))]
  IN /\ ~Known(t) => e.top = c.top /\ e.bottom = c.bottom
     /\ Known(t) => /\ e.top = submit_infos_[id].top_marker
                    /\ e.bottom = IF call'[t].pc = "finish" THEN Null
                                  ELSE submit_infos_[id].bottom_marker

\* What RecordSubmitStart and RecordSubmitFinish do.
Records(t, e) ==
  /\ Edits(t, e) /\ Writes(t, e)
  /\ call[t].pc \in {"start", "finish"} /\ call'[t].pc \in {"finish", "register"}
  /\ call[t].pc = "start" <=> call'[t].pc = "finish"
  /\ call'[t].pc = "finish" => call'[t].id = call[t].id /\ call'[t].cbs = call[t].cbs
  /\ call'[t].pc = "register" => call'[t].cbs = Null
  /\ UNCHANGED <<helper_submit_infos_, allocated, started, finished>>
  /\ Free(markers)' = Free(markers)
  /\ DOMAIN submit_infos_' \subseteq DOMAIN submit_infos_
  /\ \A ie \in DOMAIN submit_infos_' : submit_infos_'[ie] = submit_infos_[ie]

\* A recorded write is to a word of the submit that its call registered, so
\* nobody else's.
LEMMA RecordsStructure ==
  ASSUME Basics, Structure, config' = config, NEW t \in Threads, NEW e \in Elements, Records(t, e)
  PROVE  Structure'
<1> DEFINE id == call[t].id
           l == Len(All(t))
           c == All(t)[l]
<1>1. /\ \A u \in Threads : Len(All(u)') = Len(All(u))
      /\ \A u \in Threads : \A k \in 1 .. Len(All(u)) :
           \/ SameElement(u, k) /\ ~(u = t /\ k = l)
           \/ Edited(t, e, u, k)
      /\ l \in 1 .. Len(All(t)) /\ Edited(t, e, t, l)
      /\ \A u \in Threads \ {t} : call'[u] = call[u]
  BY DEF Records, Edits
<1>2. /\ call[t].pc \in {"start", "finish"} /\ call'[t].pc \in {"finish", "register"}
      /\ call[t].pc = "start" <=> call'[t].pc = "finish"
      /\ call'[t].pc = "finish" => call'[t].id = id /\ call'[t].cbs = call[t].cbs
      /\ call'[t].pc = "register" => call'[t].cbs = Null
      /\ helper_submit_infos_' = helper_submit_infos_ /\ allocated' = allocated
      /\ Free(markers)' = Free(markers)
      /\ DOMAIN submit_infos_' \subseteq DOMAIN submit_infos_
      /\ \A ie \in DOMAIN submit_infos_' : submit_infos_'[ie] = submit_infos_[ie]
  BY DEF Records
<1>3. /\ id \notin DOMAIN submit_infos_ => e.top = c.top /\ e.bottom = c.bottom
      /\ id \in DOMAIN submit_infos_ =>
           /\ e.top = submit_infos_[id].top_marker
           /\ e.bottom = IF call'[t].pc = "finish" THEN Null ELSE submit_infos_[id].bottom_marker
  BY DEF Records, Writes, Known
<1>4. c.cbs = call[t].cbs /\ e.cbs = c.cbs /\ c.cbs # Null
  BY <1>1, <1>2, LastIsCurrent, ElementsTyped DEF Edited, Basics, Null
<1> HIDE DEF id, l, c
<1>5. \A u \in Threads : \A k \in 1 .. Len(All(u)) :
        All(u)'[k].cbs = All(u)[k].cbs
  BY <1>1 DEF SameElement, Edited
<1>6. \A ie \in DOMAIN submit_infos_' : WordsOf(ie)' = WordsOf(ie)
  BY <1>2 DEF WordsOf
<1>7. ASSUME id \in DOMAIN submit_infos_
      PROVE  /\ submit_infos_[id].cbs = c.cbs
             /\ c.bottom = Null
             /\ call[t].pc = "start" => c.top = Null
             /\ call[t].pc = "finish" => c.top = submit_infos_[id].top_marker
  <2>1. submit_infos_[id].cbs = c.cbs
    BY <1>2, <1>4, <1>7 DEF Structure, InfosApart, id
  <2>2. Current(id, t, l) BY <1>2 DEF Current, id, l
  <2>3. QED BY <1>1, <1>2, <1>7, <2>1, <2>2 DEF Structure, InfosRecorded, c
\* A write that is not the new one, and a word of the current submit.
<1>8. ASSUME id \in DOMAIN submit_infos_, NEW u \in Threads, NEW k \in 1 .. Len(All(u)), ~(u = t /\ k = l)
      PROVE  /\ TopAhead(u, k) => All(u)[k].top \notin WordsOf(id)
             /\ BottomAhead(u, k) => All(u)[k].bottom \notin WordsOf(id)
  <2>1. All(u)[k].cbs # c.cbs BY <1>1, <1>8 DEF Structure, BuffersApart, c
  <2>2. QED BY <1>7, <1>8, <2>1 DEF Structure, InfosWritten
<1>9. id \in DOMAIN submit_infos_ => /\ submit_infos_[id].top_marker \in WordsOf(id)
                                     /\ submit_infos_[id].bottom_marker \in WordsOf(id)
                                     /\ WordsOf(id) \cap Free(markers) = {}
                                     /\ submit_infos_[id].top_marker # submit_infos_[id].bottom_marker
  BY DEF WordsOf, Structure, InfosApart
<1>10. BuffersApart'
  <2>1. \A u \in Threads : call'[u].pc = "store" => call'[u] = call[u]
    BY <1>1, <1>2
  <2>2. QED BY <1>1, <1>2, <1>5, <2>1 DEF Structure, BuffersApart
\* The current element after the step, in the two cases.
<1>11. \/ id \notin DOMAIN submit_infos_ /\ \A u \in Threads : \A k \in 1 .. Len(All(u)) :
            /\ TopAhead(u, k)' => TopAhead(u, k)
            /\ BottomAhead(u, k)' => BottomAhead(u, k)
            /\ All(u)'[k].top = All(u)[k].top /\ All(u)'[k].bottom = All(u)[k].bottom
       \/ id \in DOMAIN submit_infos_
  BY <1>1, <1>3 DEF SameElement, Edited, c, l
<1>12. \A u \in Threads : \A k \in 1 .. Len(All(u)) :
         SameElement(u, k) =>
           /\ All(u)'[k] = All(u)[k]
           /\ TopAhead(u, k)' <=> TopAhead(u, k)
           /\ BottomAhead(u, k)' <=> BottomAhead(u, k)
  BY DEF SameElement
<1>13. id \in DOMAIN submit_infos_ =>
         \A u \in Threads : \A k \in 1 .. Len(All(u)) : Edited(t, e, u, k) =>
           /\ All(u)'[k].top = submit_infos_[id].top_marker
           /\ All(u)'[k].bottom \in {Null, submit_infos_[id].bottom_marker}
           /\ BottomAhead(u, k)' => All(u)'[k].bottom = submit_infos_[id].bottom_marker
           /\ u = t /\ k = l
  BY <1>3 DEF Edited, l
<1>14. WritesApart'
  <2>1. SUFFICES ASSUME NEW u \in Threads, NEW v \in Threads,
                        NEW j \in 1 .. Len(All(u)), NEW k \in 1 .. Len(All(v))
        PROVE  /\ TopAhead(u, j)' /\ TopAhead(v, k)' /\ All(u)'[j].top = All(v)'[k].top => u = v /\ j = k
               /\ BottomAhead(u, j)' /\ BottomAhead(v, k)' /\ All(u)'[j].bottom = All(v)'[k].bottom
                    => u = v /\ j = k
               /\ TopAhead(u, j)' /\ BottomAhead(v, k)' => All(u)'[j].top # All(v)'[k].bottom
    BY <1>1 DEF WritesApart
  <2>2. CASE id \notin DOMAIN submit_infos_
    BY <1>11, <2>2 DEF Structure, WritesApart
  <2>3. CASE id \in DOMAIN submit_infos_
    <3>1. CASE SameElement(u, j) /\ SameElement(v, k)
      BY <1>12, <3>1 DEF Structure, WritesApart
    <3>2. CASE SameElement(u, j) /\ ~(u = t /\ j = l) /\ Edited(t, e, v, k)
      BY <1>8, <1>9, <1>12, <1>13, <2>3, <3>2
    <3>3. CASE SameElement(v, k) /\ ~(v = t /\ k = l) /\ Edited(t, e, u, j)
      BY <1>8, <1>9, <1>12, <1>13, <2>3, <3>3
    <3>4. CASE Edited(t, e, u, j) /\ Edited(t, e, v, k)
      BY <1>9, <1>13, <2>3, <3>4
    <3>5. QED BY <1>1, <3>1, <3>2, <3>3, <3>4
  <2>4. QED BY <2>2, <2>3
<1>15. WritesHeld'
  <2>1. SUFFICES ASSUME NEW u \in Threads, NEW k \in 1 .. Len(All(u))
        PROVE  /\ TopAhead(u, k)' => All(u)'[k].top \notin Free(markers)
               /\ BottomAhead(u, k)' => All(u)'[k].bottom \notin Free(markers)
    BY <1>1, <1>2 DEF WritesHeld
  <2>2. CASE id \notin DOMAIN submit_infos_
    BY <1>11, <2>2 DEF Structure, WritesHeld
  <2>3. CASE SameElement(u, k) BY <1>12, <2>3 DEF Structure, WritesHeld
  <2>4. CASE id \in DOMAIN submit_infos_ /\ Edited(t, e, u, k)
    BY <1>9, <1>13, <2>4
  <2>5. QED BY <1>1, <2>2, <2>3, <2>4
<1>16. InfosApart'
  <2>1. \A u \in Threads : call'[u].pc = "store" => call'[u] = call[u]
    BY <1>1, <1>2
  <2>2. \A u \in Threads : call'[u].pc \in {"start", "finish"} =>
          call[u].pc \in {"start", "finish"} /\ call'[u].id = call[u].id /\ call'[u].cbs = call[u].cbs
    BY <1>1, <1>2 DEF id
  <2>3. QED BY <1>2, <1>6, <2>1, <2>2 DEF Structure, InfosApart
<1>17. InfosWritten'
  <2>1. SUFFICES ASSUME NEW ie \in DOMAIN submit_infos_', NEW u \in Threads, NEW k \in 1 .. Len(All(u))
        PROVE  /\ TopAhead(u, k)' /\ All(u)'[k].top \in WordsOf(ie) => submit_infos_[ie].cbs = All(u)[k].cbs
               /\ BottomAhead(u, k)' /\ All(u)'[k].bottom \in WordsOf(ie) => submit_infos_[ie].cbs = All(u)[k].cbs
    BY <1>1, <1>2, <1>5, <1>6 DEF InfosWritten
  <2>2. ie \in DOMAIN submit_infos_ BY <1>2
  <2>3. CASE id \notin DOMAIN submit_infos_
    BY <1>11, <2>2, <2>3 DEF Structure, InfosWritten
  <2>4. CASE SameElement(u, k) BY <1>12, <2>2, <2>4 DEF Structure, InfosWritten
  <2>5. CASE id \in DOMAIN submit_infos_ /\ Edited(t, e, u, k)
    <3>1. All(u)[k].cbs = c.cbs BY <2>5 DEF Edited, c, l
    <3>2. CASE ie = id BY <1>7, <2>5, <3>1, <3>2
    <3>3. CASE ie # id
      <4>1. WordsOf(ie) \cap WordsOf(id) = {}
        BY <2>2, <2>5, <3>3 DEF Structure, InfosApart
      <4>2. QED BY <1>9, <1>13, <2>5, <4>1
    <3>4. QED BY <3>2, <3>3
  <2>6. QED BY <1>1, <2>3, <2>4, <2>5
<1>18. InfosRecorded'
  <2>1. SUFFICES ASSUME NEW ie \in DOMAIN submit_infos_', NEW u \in Threads, NEW k \in 1 .. Len(All(u)),
                        submit_infos_[ie].cbs = All(u)[k].cbs
        PROVE  /\ All(u)'[k].top = IF Current(ie, u, k)' /\ call'[u].pc = "start" THEN Null
                                   ELSE submit_infos_[ie].top_marker
               /\ All(u)'[k].bottom = IF Current(ie, u, k)' THEN Null
                                      ELSE submit_infos_[ie].bottom_marker
    BY <1>1, <1>2, <1>5 DEF InfosRecorded
  <2>2. ie \in DOMAIN submit_infos_ BY <1>2
  <2>3. /\ All(u)[k].top = IF Current(ie, u, k) /\ call[u].pc = "start" THEN Null
                           ELSE submit_infos_[ie].top_marker
        /\ All(u)[k].bottom = IF Current(ie, u, k) THEN Null ELSE submit_infos_[ie].bottom_marker
    BY <2>1, <2>2 DEF Structure, InfosRecorded
  <2>4. CASE SameElement(u, k) /\ ~(u = t /\ k = l)
    <3>1. (Current(ie, u, k)' <=> Current(ie, u, k)) /\ (Current(ie, u, k) => call'[u] = call[u])
      BY <1>1, <2>4 DEF Current, l
    <3>2. QED BY <1>12, <2>3, <2>4, <3>1
  <2>5. CASE Edited(t, e, u, k)
    <3>1. u = t /\ k = l /\ All(u)[k] = c /\ All(u)'[k] = e
      BY <2>5 DEF Edited, c, l
    <3>2. CASE id \in DOMAIN submit_infos_
      <4>1. ie = id
        <5>1. submit_infos_[ie].cbs = submit_infos_[id].cbs /\ submit_infos_[ie].cbs # Null
          BY <1>4, <1>7, <2>1, <3>1, <3>2
        <5>2. QED BY <2>2, <3>2, <5>1 DEF Structure, InfosApart
      <4>2. Current(ie, u, k)' <=> call'[t].pc = "finish"
        BY <1>1, <1>2, <3>1, <4>1 DEF Current, l
      <4>3. QED BY <1>2, <1>3, <3>1, <3>2, <4>1, <4>2
    <3>3. CASE id \notin DOMAIN submit_infos_
      <4>1. ~Current(ie, u, k) BY <2>2, <3>1, <3>3 DEF Current, id
      <4>2. ~Current(ie, u, k)' BY <1>2, <2>2, <3>1, <3>3 DEF Current
      <4>3. QED BY <1>3, <2>3, <3>1, <3>3, <4>1, <4>2
    <3>4. QED BY <3>2, <3>3
  <2>6. QED BY <1>1, <2>4, <2>5
<1>19. HelpersApart'
  <2>1. Helpers' = Helpers /\ BindSparse' = BindSparse
    BY <1>2, ConfigFixed DEF Helpers
  <2>2. \A h \in Helpers, u \in Threads : call'[u].cbs # h.cbs
    BY <1>1, <1>2, HelpersTyped DEF Structure, HelpersApart, Basics
  <2>3. \A h \in Helpers, ie \in DOMAIN submit_infos_' : h.marker \notin WordsOf(ie)' /\ h.cbs # submit_infos_'[ie].cbs
    BY <1>2, <1>6 DEF Structure, HelpersApart
  <2>4. ASSUME NEW h \in Helpers, NEW u \in Threads, NEW k \in 1 .. Len(All(u))
        PROVE  /\ TopAhead(u, k)' => All(u)'[k].top # h.marker
               /\ BottomAhead(u, k)' /\ All(u)'[k].bottom = h.marker => All(u)'[k].cbs = h.cbs
               /\ All(u)'[k].cbs = h.cbs => All(u)'[k].top = Null /\ All(u)'[k].bottom = h.marker
    <3>1. CASE SameElement(u, k) BY <1>12, <3>1 DEF Structure, HelpersApart
    <3>2. CASE id \notin DOMAIN submit_infos_
      BY <1>5, <1>11, <3>2 DEF Structure, HelpersApart
    <3>3. CASE id \in DOMAIN submit_infos_ /\ Edited(t, e, u, k)
      <4>1. All(u)'[k].cbs = c.cbs BY <1>4, <3>3 DEF Edited
      <4>2. c.cbs # h.cbs BY <1>4 DEF Structure, HelpersApart
      <4>3. h.marker \notin WordsOf(id) BY <3>3 DEF Structure, HelpersApart
      <4>4. QED BY <1>9, <1>13, <3>3, <4>1, <4>2, <4>3
    <3>4. QED BY <1>1, <3>1, <3>2, <3>3
  <2>5. QED BY <1>1, <1>2, <2>1, <2>2, <2>3, <2>4 DEF Structure, HelpersApart
<1>20. NoneIsLost'
  <2>1. SUFFICES ASSUME Failures = {}, NEW ie \in DOMAIN submit_infos_', submit_infos_[ie].cbs # Null
        PROVE  \E u \in Threads : \E k \in 1 .. Len(All(u)) : submit_infos_[ie].cbs = All(u)[k].cbs
    BY <1>1, <1>2, <1>5, ConfigFixed DEF NoneIsLost
  <2>2. QED BY <1>2, <2>1 DEF Structure, NoneIsLost
<1>21. QED
  BY <1>10, <1>14, <1>15, <1>16, <1>17, <1>18, <1>19, <1>20 DEF Structure

\* EraseListed, of any registry.
Left(qs, S) == [q \in DOMAIN qs |-> Kept(qs[q], ToSet(qs[q]) \ S)]

\* The registry that EraseListed leaves.
Erased(qs, S) == [q \in {r \in DOMAIN Left(qs, S) : Left(qs, S)[r] # <<>>} |-> Left(qs, S)[q]]

\* The erased ids are gone from both registries.
LEMMA ErasedAgrees ==
  ASSUME NEW qs, \A q \in DOMAIN qs : qs[q] \in Seq(Ids), NEW ids, Agree(qs, ids),
         NEW S, NEW new, new = Erased(qs, S)
  PROVE  /\ \A q \in DOMAIN new : new[q] \in Seq(Ids)
         /\ Agree(new, ids \ S)
<1>1. PICK left : left = Left(qs, S) OBVIOUS
<1>2. ASSUME NEW q \in DOMAIN qs
      PROVE  /\ left[q] \in Seq(Ids) /\ ToSet(left[q]) = ToSet(qs[q]) \ S /\ Once(left[q])
  <2>1. left[q] = Kept(qs[q], ToSet(qs[q]) \ S) BY <1>1 DEF Left
  <2>2. Once(qs[q]) BY DEF Agree, Once
  <2>3. PICK s \in Seq(Ids) : s = qs[q] OBVIOUS
  <2>4. /\ Kept(s, ToSet(s) \ S) \in Seq(Ids)
        /\ ToSet(Kept(s, ToSet(s) \ S)) = ToSet(s) \cap (ToSet(s) \ S)
        /\ Once(s) => Once(Kept(s, ToSet(s) \ S))
    BY KeptKeeps
  <2>5. QED BY <2>1, <2>2, <2>3, <2>4
<1>3. DOMAIN left = DOMAIN qs BY <1>1 DEF Left
<1>4. /\ DOMAIN new = {q \in DOMAIN qs : left[q] # <<>>}
      /\ \A q \in DOMAIN new : new[q] = left[q]
  BY <1>1, <1>3 DEF Erased
<1>5. UNION {ToSet(new[q]) : q \in DOMAIN new} = ids \ S
  <2>1. ASSUME NEW x \in ids \ S PROVE \E q \in DOMAIN new : x \in ToSet(new[q])
    <3>1. PICK q \in DOMAIN qs : x \in ToSet(qs[q]) BY DEF Agree
    <3>2. x \in ToSet(left[q]) BY <1>2, <3>1
    <3>3. left[q] # <<>> BY <3>2 DEF ToSet
    <3>4. QED BY <1>4, <3>2, <3>3
  <2>2. ASSUME NEW q \in DOMAIN new, NEW x \in ToSet(new[q]) PROVE x \in ids \ S
    <3>1. q \in DOMAIN qs /\ x \in ToSet(qs[q]) /\ x \notin S BY <1>2, <1>4
    <3>2. QED BY <3>1 DEF Agree
  <2>3. \A x : x \in UNION {ToSet(new[q]) : q \in DOMAIN new}
                <=> \E q \in DOMAIN new : x \in ToSet(new[q])
    OBVIOUS
  <2>4. QED BY <2>1, <2>2, <2>3
<1>6. ASSUME NEW q \in DOMAIN new, NEW r \in DOMAIN new,
             NEW j \in 1 .. Len(new[q]), NEW k \in 1 .. Len(new[r]), new[q][j] = new[r][k]
      PROVE  q = r /\ j = k
  <2>1. PICK x : x = new[q][j] OBVIOUS
  <2>2. x \in ToSet(new[q]) /\ x \in ToSet(new[r]) BY <1>6, <2>1 DEF ToSet
  <2>3. x \in ToSet(qs[q]) /\ x \in ToSet(qs[r]) /\ q \in DOMAIN qs /\ r \in DOMAIN qs
    BY <1>2, <1>4, <2>2
  <2>4. q = r
    <3>1. PICK a \in 1 .. Len(qs[q]) : x = qs[q][a] BY <2>3 DEF ToSet
    <3>2. PICK b \in 1 .. Len(qs[r]) : x = qs[r][b] BY <2>3 DEF ToSet
    <3>3. QED BY <2>3, <3>1, <3>2 DEF Agree
  <2>5. Once(new[q]) BY <1>2, <1>4, <2>3
  <2>6. QED BY <1>6, <2>4, <2>5 DEF Once
<1>7. \A q \in DOMAIN new : new[q] \in Seq(Ids) BY <1>2, <1>4
<1>8. QED BY <1>5, <1>6, <1>7 DEF Agree

\* A call that records a write goes on to its next step.
Moves(t, e, a, p, c) ==
  /\ a = [call[t].batch EXCEPT ![Len(call[t].batch)] = e]
  /\ call' = [call EXCEPT ![t] = [call[t] EXCEPT !.pc = p, !.cbs = c, !.batch = a]]

\* The call of a thread whose current buffers now hold a write.
LEMMA RecordsCall ==
  ASSUME Basics, config' = config, NEW t \in Threads, NEW e \in Elements, NEW a, NEW p, NEW c,
         call[t].pc \in {"start", "finish"}, Moves(t, e, a, p, c), e.cbs = call[t].cbs,
         p \in {"finish", "register"}, c \in {call[t].cbs, Null}
  PROVE  /\ call' \in [Threads -> Calls]
         /\ call'[t].pc = p /\ call'[t].cbs = c /\ call'[t].id = call[t].id
         /\ call'[t].batch = a /\ a # <<>> /\ Last(a).cbs = call[t].cbs
         /\ \A u \in Threads \ {t} : call'[u] = call[u]
<1>1. call[t] \in Calls /\ call[t].cbs \in 0 .. MaxBuffers BY CallIs DEF Basics
<1>2. PICK b : b = call[t].batch OBVIOUS
<1>3. b \in Seq(Elements) /\ b # <<>> /\ Len(b) \in 1 .. Len(b)
  BY <1>2, LastIsCurrent, CallIs DEF Basics
<1>4. a \in Seq(Elements) /\ Len(a) = Len(b) /\ a[Len(b)] = e
  <2>1. a = [b EXCEPT ![Len(b)] = e] BY <1>2 DEF Moves
  <2>2. QED BY ONLY <1>3, <2>1, e \in Elements, ExceptSeq
<1>5. a # <<>> /\ Last(a) = e
  <2>1. Len(b) # 0 BY <1>3
  <2>2. QED BY <1>4, <2>1 DEF Last
<1>6. PICK r : r = [call[t] EXCEPT !.pc = p, !.cbs = c, !.batch = a] OBVIOUS
<1>7. r = [pc |-> p, qid |-> call[t].qid, left |-> call[t].left, id |-> call[t].id,
           cbs |-> c, batch |-> a]
  BY <1>1, <1>6 DEF Calls
<1>8. c \in 0 .. MaxBuffers BY <1>1, BoundAssumption DEF Null
<1>9. r \in Calls
  <2>1. p \in Pcs BY DEF Pcs, InStep
  <2>2. /\ call[t].qid \in Nat /\ call[t].left \in 0 .. MaxCount /\ call[t].id \in 0 .. MaxBuffers
    BY CallIs DEF Basics
  <2>3. QED BY <1>4, <1>7, <1>8, <2>1, <2>2 DEF Calls
<1>10. /\ call' \in [Threads -> Calls] /\ call'[t] = r
       /\ \A u \in Threads \ {t} : call'[u] = call[u]
  <2>1. call' = [call EXCEPT ![t] = r] BY <1>6 DEF Moves
  <2>2. QED BY <1>9, <2>1, ConfigFixed, CallBecomes DEF Basics
<1>11. QED BY <1>5, <1>7, <1>10

\* What such a call looks like afterwards.
Recorded(t) ==
  /\ call[t].pc \in {"start", "finish"}
  /\ \/ call'[t].pc = "finish" /\ call'[t].cbs = call[t].cbs
     \/ call'[t].pc = "register" /\ call'[t].cbs = Null
  /\ call'[t].id = call[t].id /\ call'[t].batch # <<>> /\ Last(call'[t].batch).cbs = call[t].cbs
  /\ \A u \in Threads \ {t} : call'[u] = call[u]
  /\ UNCHANGED <<allocated, submit_info_counter>>

\* The calls stay sound.
LEMMA RecordsSound ==
  ASSUME Basics, config' = config, NEW t \in Threads, Recorded(t)
  PROVE  CallsSound' /\ IdsApart'
<1>1. BindSparse' = BindSparse BY ConfigFixed
<1>2. CallsSound' BY <1>1 DEF Basics, CallsSound, InStep, Recorded
<1>3. IdsApart' BY DEF Basics, IdsApart, InStep, Recorded
<1>4. QED BY <1>2, <1>3

\* The current element and the entry that its call was registered in.
LEMMA CurrentIs ==
  ASSUME Basics, Structure, NEW t \in Threads, call[t].pc \in {"start", "finish"}, Known(t),
         NEW l, l = All(t)[Len(All(t))]
  PROVE  /\ submit_infos_[call[t].id] \in SubmitInfo
         /\ submit_infos_[call[t].id].top_marker \in Words
         /\ submit_infos_[call[t].id].bottom_marker \in Words
         /\ submit_infos_[call[t].id].cbs = call[t].cbs
         /\ l.bottom = Null
         /\ l.top = IF call[t].pc = "start" THEN Null ELSE submit_infos_[call[t].id].top_marker
<1>1. PICK id : id = call[t].id OBVIOUS
<1>2. id \in DOMAIN submit_infos_ BY <1>1 DEF Known
<1>3. submit_infos_[id] \in SubmitInfo BY <1>2 DEF Basics, Typed
<1>4. submit_infos_[id].top_marker \in Words /\ submit_infos_[id].bottom_marker \in Words
  BY <1>3 DEF SubmitInfo
<1>5. submit_infos_[id].cbs = call[t].cbs
  BY <1>1, <1>2 DEF Structure, InfosApart
<1>6. Len(All(t)) \in 1 .. Len(All(t)) /\ All(t)[Len(All(t))].cbs = call[t].cbs
  BY LastIsCurrent
<1>7. Current(id, t, Len(All(t))) BY <1>1 DEF Current
<1>8. /\ l.top = IF call[t].pc = "start" THEN Null ELSE submit_infos_[id].top_marker
      /\ l.bottom = Null
  BY <1>2, <1>5, <1>6, <1>7 DEF Structure, InfosRecorded
<1>9. QED BY <1>1, <1>3, <1>4, <1>5, <1>8

\* RecordSubmitStart: the basics, the recorded write, and the kQueued that the
\* host writes.
LEMMA RecordStartSteps ==
  ASSUME Basics, Structure, config' = config, NEW t \in Threads, RecordSubmitStart(t)
  PROVE  /\ Basics' /\ \E e \in Elements : Records(t, e)
         /\ UNCHANGED <<markers, freed, submit_infos_>>
         /\ call[t].pc = "start"
         /\ word' = IF Known(t) THEN [word EXCEPT ![submit_infos_[call[t].id].top_marker] = kQueued]
                    ELSE word
<1>1. UNCHANGED <<markers, tracker, queue_submit_index_, helper_submit_infos_, allocated, freed, gpu>>
      /\ call[t].pc = "start"
  BY DEF RecordSubmitStart
<1>2. PICK b, l : b = call[t].batch /\ l = b[Len(b)] OBVIOUS
<1>3. b \in Seq(Elements) /\ Len(b) \in 1 .. Len(b) /\ l = All(t)[Len(All(t))] /\ l.cbs = call[t].cbs
  BY <1>1, <1>2, LastIsCurrent, CallIs DEF Basics
<1>4. l \in Elements BY ONLY <1>2, <1>3, ElementOfSeq
<1>5. Known(t) => /\ submit_infos_[call[t].id].top_marker \in Words
                  /\ l.bottom = Null
  BY <1>1, <1>3, CurrentIs
<1>6. PICK e : e = IF Known(t) THEN [l EXCEPT !.top = submit_infos_[call[t].id].top_marker] ELSE l
  OBVIOUS
<1>7. /\ e \in Elements /\ e.cbs = l.cbs /\ e.bottom = l.bottom
      /\ Known(t) => e.top = submit_infos_[call[t].id].top_marker
      /\ ~Known(t) => e.top = l.top
  BY <1>4, <1>5, <1>6 DEF Elements
<1>8. PICK a : a = [b EXCEPT ![Len(b)] = e] OBVIOUS
<1>9. call' = [call EXCEPT ![t] = [call[t] EXCEPT !.pc = "finish", !.cbs = call[t].cbs, !.batch = a]]
  <2>1. call[t] \in Calls BY CallIs DEF Basics
  <2>2. [call[t] EXCEPT !.pc = "finish", !.batch = a]
          = [call[t] EXCEPT !.pc = "finish", !.cbs = call[t].cbs, !.batch = a]
    BY <2>1 DEF Calls
  <2>3. CASE Known(t)
    <3>1. a = WithWrite(t, "top", submit_infos_[call[t].id].top_marker)
      BY <1>2, <1>6, <1>8, <2>3 DEF WithWrite
    <3>2. call' = [call EXCEPT ![t].pc = "finish", ![t].batch = a]
      BY <2>3, <3>1 DEF RecordSubmitStart
    <3>3. QED BY <2>2, <3>2
  <2>4. CASE ~Known(t)
    <3>1. a = b
      <4>1. a = [b EXCEPT ![Len(b)] = b[Len(b)]] BY <1>2, <1>6, <1>8, <2>4
      <4>2. QED BY ONLY <1>3, <4>1
    <3>2. call' = [call EXCEPT ![t].pc = "finish"] BY <2>4 DEF RecordSubmitStart
    <3>3. [call[t] EXCEPT !.pc = "finish"] = [call[t] EXCEPT !.pc = "finish", !.batch = a]
      BY <1>2, <2>1, <3>1 DEF Calls
    <3>4. QED BY <2>2, <3>2, <3>3
  <2>5. QED BY <2>3, <2>4
<1>10. /\ call' \in [Threads -> Calls]
       /\ call'[t].pc = "finish" /\ call'[t].cbs = call[t].cbs /\ call'[t].id = call[t].id
       /\ call'[t].batch = a /\ a # <<>> /\ Last(a).cbs = call[t].cbs
       /\ \A u \in Threads \ {t} : call'[u] = call[u]
  <2>1. PICK p, c : p = "finish" /\ c = call[t].cbs OBVIOUS
  <2>2. Moves(t, e, a, p, c) BY <1>2, <1>8, <1>9, <2>1 DEF Moves
  <2>3. e.cbs = call[t].cbs /\ e \in Elements BY <1>3, <1>7
  <2>4. call[t].pc \in {"start", "finish"} /\ p \in {"finish", "register"} /\ c \in {call[t].cbs, Null}
    BY <1>1, <2>1
  <2>5. /\ call' \in [Threads -> Calls]
        /\ call'[t].pc = p /\ call'[t].cbs = c /\ call'[t].id = call[t].id
        /\ call'[t].batch = a /\ a # <<>> /\ Last(a).cbs = call[t].cbs
        /\ \A u \in Threads \ {t} : call'[u] = call[u]
    BY ONLY Basics, config' = config, t \in Threads, <2>2, <2>3, <2>4,
       RecordsCall
  <2>6. QED BY <2>1, <2>5
<1>11. word' = IF Known(t) THEN [word EXCEPT ![submit_infos_[call[t].id].top_marker] = kQueued] ELSE word
  BY DEF RecordSubmitStart
<1>12. word' \in [Words -> 0 .. CommandBufferValue]
  <2>1. word \in [Words -> 0 .. CommandBufferValue] BY DEF Basics, Typed
  <2>2. kQueued \in 0 .. CommandBufferValue BY DEF kQueued, CommandBufferValue
  <2>3. QED BY <1>11, <2>1, <2>2
<1>13. UNCHANGED <<markers, submit_info_counter, submit_infos_, queue_submits_, queue_submit_index_,
                   helper_submit_infos_, allocated, freed, queue, started, finished>>
  BY <1>1 DEF tracker, gpu
<1>14. Typed'
  <2>1. call' \in [Threads -> Calls] BY <1>10
  <2>2. QED
    BY ONLY Basics, config' = config, <1>12, <1>13, <2>1, ConfigFixed DEF
       Basics, Typed
<1>15. CallsSound' /\ IdsApart'
  <2>1. Recorded(t) BY <1>1, <1>10, <1>13 DEF Recorded
  <2>2. QED BY <2>1, RecordsSound
<1>16. RegistriesAgree' /\ FreeApart(markers)'
  BY <1>13 DEF Basics, RegistriesAgree, FreeApart
<1>17. Edits(t, e)
  <2>1. call'[t].batch = [call[t].batch EXCEPT ![Len(call[t].batch)] = e] /\ e.cbs = call[t].cbs
    BY <1>2, <1>3, <1>7, <1>8, <1>10
  <2>2. call[t].pc \in {"start", "finish"} /\ \A u \in Threads \ {t} : call'[u] = call[u]
    BY <1>1, <1>10
  <2>3. UNCHANGED <<config, queue, started, finished>> BY <1>13
  <2>4. QED BY ONLY Basics, t \in Threads, <1>7, <2>1, <2>2, <2>3, EditsIs
<1>18. Writes(t, e) BY <1>3, <1>5, <1>7, <1>10 DEF Writes
<1>19. Free(markers)' = Free(markers) BY <1>13, ConfigFixed DEF Free
<1>20. Records(t, e) BY <1>1, <1>10, <1>13, <1>17, <1>18, <1>19 DEF Records
<1>21. QED BY <1>1, <1>7, <1>11, <1>13, <1>14, <1>15, <1>16, <1>20 DEF Basics

\* RecordSubmitFinish: the basics, the recorded write, and what the cleanup
\* frees and erases.
LEMMA RecordFinishSteps ==
  ASSUME Basics, Structure, config' = config, NEW t \in Threads, RecordSubmitFinish(t)
  PROVE  /\ Basics' /\ \E e \in Elements : Records(t, e)
         /\ UNCHANGED <<word, markers>> /\ call[t].pc = "finish"
         /\ freed' = freed \cup ({submit_infos_[id].cbs : id \in Finished} \ {Null})
         /\ DOMAIN submit_infos_' = DOMAIN submit_infos_ \ Finished
         /\ \A id \in DOMAIN submit_infos_' : submit_infos_'[id] = submit_infos_[id]
<1>1. UNCHANGED <<word, markers, submit_info_counter, queue_submit_index_, helper_submit_infos_,
                  allocated, queue, started, finished>>
      /\ call[t].pc = "finish"
      /\ freed' = freed \cup ({submit_infos_[id].cbs : id \in Finished} \ {Null})
      /\ submit_infos_' = [id \in DOMAIN submit_infos_ \ Finished |-> submit_infos_[id]]
  BY DEF RecordSubmitFinish, CleanupSubmitInfos, gpu
<1>2. PICK b, l : b = call[t].batch /\ l = b[Len(b)] OBVIOUS
<1>3. b \in Seq(Elements) /\ Len(b) \in 1 .. Len(b) /\ l = All(t)[Len(All(t))] /\ l.cbs = call[t].cbs
  BY <1>1, <1>2, LastIsCurrent, CallIs DEF Basics
<1>4. l \in Elements BY ONLY <1>2, <1>3, ElementOfSeq
<1>5. Known(t) => /\ submit_infos_[call[t].id].bottom_marker \in Words
                  /\ l.top = submit_infos_[call[t].id].top_marker
  BY <1>1, <1>3, CurrentIs
<1>6. PICK e : e = IF Known(t) THEN [l EXCEPT !.bottom = submit_infos_[call[t].id].bottom_marker] ELSE l
  OBVIOUS
<1>7. /\ e \in Elements /\ e.cbs = l.cbs /\ e.top = l.top
      /\ Known(t) => e.bottom = submit_infos_[call[t].id].bottom_marker
      /\ ~Known(t) => e.bottom = l.bottom
  BY <1>4, <1>5, <1>6 DEF Elements
<1>8. PICK a : a = [b EXCEPT ![Len(b)] = e] OBVIOUS
<1>9. call' = [call EXCEPT ![t] = [call[t] EXCEPT !.pc = "register", !.cbs = Null, !.batch = a]]
  <2>1. CASE Known(t)
    <3>1. a = WithWrite(t, "bottom", submit_infos_[call[t].id].bottom_marker)
      BY <1>2, <1>6, <1>8, <2>1 DEF WithWrite
    <3>2. QED BY <2>1, <3>1 DEF RecordSubmitFinish
  <2>2. CASE ~Known(t)
    <3>1. a = b
      <4>1. a = [b EXCEPT ![Len(b)] = b[Len(b)]] BY <1>2, <1>6, <1>8, <2>2
      <4>2. QED BY ONLY <1>3, <4>1
    <3>2. QED BY <1>2, <2>2, <3>1 DEF RecordSubmitFinish
  <2>3. QED BY <2>1, <2>2
<1>10. /\ call' \in [Threads -> Calls]
       /\ call'[t].pc = "register" /\ call'[t].cbs = Null /\ call'[t].id = call[t].id
       /\ call'[t].batch = a /\ a # <<>> /\ Last(a).cbs = call[t].cbs
       /\ \A u \in Threads \ {t} : call'[u] = call[u]
  <2>1. PICK p, c : p = "register" /\ c = Null OBVIOUS
  <2>2. Moves(t, e, a, p, c) BY <1>2, <1>8, <1>9, <2>1 DEF Moves
  <2>3. e.cbs = call[t].cbs /\ e \in Elements BY <1>3, <1>7
  <2>4. call[t].pc \in {"start", "finish"} /\ p \in {"finish", "register"} /\ c \in {call[t].cbs, Null}
    BY <1>1, <2>1
  <2>5. /\ call' \in [Threads -> Calls]
        /\ call'[t].pc = p /\ call'[t].cbs = c /\ call'[t].id = call[t].id
        /\ call'[t].batch = a /\ a # <<>> /\ Last(a).cbs = call[t].cbs
        /\ \A u \in Threads \ {t} : call'[u] = call[u]
    BY ONLY Basics, config' = config, t \in Threads, <2>2, <2>3, <2>4,
       RecordsCall
  <2>6. QED BY <2>1, <2>5
<1>11. /\ \A q \in DOMAIN queue_submits_' : queue_submits_'[q] \in Seq(Ids)
       /\ Agree(queue_submits_', DOMAIN submit_infos_ \ Finished)
  <2>1. PICK S, ids : S = Finished /\ ids = DOMAIN submit_infos_ OBVIOUS
  <2>2. queue_submits_' = Erased(queue_submits_, S)
    BY <2>1 DEF RecordSubmitFinish, CleanupSubmitInfos, EraseListed, Erased,
       Left
  <2>3. /\ \A q \in DOMAIN queue_submits_ : queue_submits_[q] \in Seq(Ids)
        /\ Agree(queue_submits_, ids)
    BY <2>1, AgreeIs DEF Basics, Typed
  <2>4. QED BY <2>1, <2>2, <2>3, ErasedAgrees
<1>12. /\ DOMAIN submit_infos_' = DOMAIN submit_infos_ \ Finished
       /\ \A id \in DOMAIN submit_infos_' : id \in DOMAIN submit_infos_ /\ submit_infos_'[id] = submit_infos_[id]
  BY <1>1
<1>13. RegistriesAgree' BY <1>11, <1>12 DEF RegistriesAgree, Agree
<1>14. freed' \subseteq 1 .. allocated
  <2>1. \A id \in Finished : submit_infos_[id].cbs \in 0 .. MaxBuffers /\ submit_infos_[id].cbs <= allocated
    BY DEF Basics, Typed, SubmitInfo, Structure, InfosApart, Finished
  <2>2. freed \subseteq 1 .. allocated /\ allocated \in 0 .. MaxBuffers
    BY DEF Basics, Typed
  <2>3. \A n \in 0 .. MaxBuffers : n <= allocated /\ n # 0 => n \in 1 .. allocated
    BY <2>2, BoundAssumption
  <2>4. QED BY <1>1, <2>1, <2>2, <2>3 DEF Null
<1>15. Typed'
  <2>1. call' \in [Threads -> Calls] BY <1>10
  <2>2. \A id \in DOMAIN submit_infos_' : submit_infos_'[id] \in SubmitInfo
    BY <1>12 DEF Basics, Typed
  <2>3. DOMAIN submit_infos_' \subseteq 1 .. submit_info_counter
    BY <1>12 DEF Basics, Typed
  <2>4. QED
    BY <1>1, <1>11, <1>14, <2>1, <2>2, <2>3, ConfigFixed DEF Basics, Typed
<1>16. CallsSound' /\ IdsApart'
  <2>1. Recorded(t) BY <1>1, <1>10 DEF Recorded
  <2>2. QED BY <2>1, RecordsSound
<1>17. FreeApart(markers)' BY <1>1 DEF Basics, FreeApart
<1>18. Edits(t, e)
  <2>1. call'[t].batch = [call[t].batch EXCEPT ![Len(call[t].batch)] = e] /\ e.cbs = call[t].cbs
    BY <1>2, <1>3, <1>7, <1>8, <1>10
  <2>2. call[t].pc \in {"start", "finish"} /\ \A u \in Threads \ {t} : call'[u] = call[u]
    BY <1>1, <1>10
  <2>3. UNCHANGED <<config, queue, started, finished>> BY <1>1
  <2>4. QED BY ONLY Basics, t \in Threads, <1>7, <2>1, <2>2, <2>3, EditsIs
<1>19. Writes(t, e) BY <1>3, <1>5, <1>7, <1>10 DEF Writes
<1>20. Free(markers)' = Free(markers) BY <1>1, ConfigFixed DEF Free
<1>21. Records(t, e) BY <1>1, <1>10, <1>12, <1>18, <1>19, <1>20 DEF Records
<1>22. QED BY <1>1, <1>7, <1>12, <1>13, <1>15, <1>16, <1>17, <1>21 DEF Basics

-----------------------------------------------------------------------------
(* What the words of the tracked submits say.                              *)

\* The parts of the invariant that say what the words' values mean.
Values == HelpersTrue /\ FinishedIsWritten /\ WordsTrue

\* What the GPU has finished is an element of the queue.
LEMMA Within ==
  ASSUME NEW S, NEW q \in Seq(S), NEW b \in Seq(S), NEW f \in Nat, NEW s \in Nat, f <= s, s <= Len(q)
  PROVE  \A k \in 1 .. f : k \in 1 .. Len(q \o b)
<1>1. Len(q) \in Nat /\ Len(b) \in Nat /\ Len(q \o b) = Len(q) + Len(b)
  BY ConcatIs
<1>2. \A m, n \in Nat : s <= m => f <= m + n OBVIOUS
<1>3. f <= Len(q) + Len(b) /\ Len(q) + Len(b) \in Nat BY <1>1, <1>2
<1>4. QED BY <1>1, <1>3

\* A finished element is there.
LEMMA FinishedNext ==
  ASSUME Typed', NEW t \in Threads, NEW k \in 1 .. finished'[t]
  PROVE  k \in 1 .. Len(All(t)')
<1>1. PICK q, b, S : q = queue'[t] /\ b = call'[t].batch /\ S = Elements' OBVIOUS
<1>2. q \in Seq(S) /\ b \in Seq(S) BY <1>1 DEF Typed, Calls
<1>3. /\ finished'[t] \in Nat /\ started'[t] \in Nat /\ finished'[t] <= started'[t]
      /\ started'[t] <= Len(q)
  BY <1>1 DEF Typed
<1>4. k \in 1 .. Len(q \o b)
  <2>1. PICK f, s : f = finished'[t] /\ s = started'[t] OBVIOUS
  <2>2. f \in Nat /\ s \in Nat /\ f <= s /\ s <= Len(q) /\ k \in 1 .. f
    BY <1>3, <2>1
  <2>3. QED BY ONLY <1>2, <2>2, Within
<1>5. QED BY <1>1, <1>4 DEF All

\* A step that writes no word and records nothing keeps what the words mean.
LEMMA NarrowsValues ==
  ASSUME Basics, Typed', Structure, Values, Narrows,
         UNCHANGED <<word, freed, started, finished>>,
         \A id \in DOMAIN submit_infos_ :
           id \in DOMAIN submit_infos_' /\ submit_infos_'[id] = submit_infos_[id]
  PROVE  Values'
<1>1. /\ BindSparse' = BindSparse /\ Helpers' = Helpers /\ Free(markers)' \subseteq Free(markers)
      /\ InfosGrow
  BY ConfigFixed DEF Narrows, Helpers
<1>2. \A t \in Threads : \A k \in 1 .. Len(All(t)') :
        /\ k \in 1 .. Len(All(t)) /\ All(t)'[k] = All(t)[k]
        /\ All(t)'[k].cbs # Null
  BY NarrowsAhead, ElementsTyped DEF Basics, Null
<1>3. \A t \in Threads : \A k \in 1 .. finished[t] : k \in 1 .. Len(All(t)')
  BY FinishedNext
<1> DEFINE New(id) == /\ submit_infos_'[id].cbs = Null
                      /\ submit_infos_'[id].top_marker \in Free(markers)
                      /\ submit_infos_'[id].bottom_marker \in Free(markers)
           Old(id) == id \in DOMAIN submit_infos_ /\ submit_infos_'[id] = submit_infos_[id]
<1>4. \A id \in DOMAIN submit_infos_' : Old(id) \/ New(id) BY <1>1 DEF InfosGrow
<1> HIDE DEF New, Old
<1>5. \A t \in Threads : \/ call'[t].cbs = call[t].cbs
                         \/ call'[t].cbs = Null
                         \/ call'[t].cbs = allocated + 1
  BY DEF Narrows
<1>6. HelpersTrue'
  <2>1. SUFFICES ASSUME NEW h \in Helpers, word[h.marker] = kFinished, NEW t \in Threads,
                        NEW k \in 1 .. Len(All(t)'), All(t)'[k].cbs = h.cbs
        PROVE  k <= finished[t]
    BY <1>1 DEF HelpersTrue, HelperFinished
  <2>2. QED BY <1>2, <2>1 DEF Values, HelpersTrue, HelperFinished
<1>7. FinishedIsWritten'
  <2>1. SUFFICES ASSUME NEW id \in DOMAIN submit_infos_', NEW t \in Threads, NEW k \in 1 .. Len(All(t)'),
                        submit_infos_'[id].cbs = All(t)'[k].cbs, k <= finished[t]
        PROVE  word[submit_infos_'[id].bottom_marker] = kFinished
    BY DEF FinishedIsWritten
  <2>2. Old(id) BY <1>2, <1>4, <2>1 DEF New
  <2>3. QED BY <1>2, <2>1, <2>2 DEF Old, Values, FinishedIsWritten
<1>8. ASSUME ~BindSparse
      PROVE  (FreeIsClean /\ FinishedIsTrue /\ TopIsTrue /\ AheadIsTracked /\ AheadIsNotFreed)'
  <2>1. FreeIsClean /\ FinishedIsTrue /\ TopIsTrue /\ AheadIsTracked /\ AheadIsNotFreed
    BY <1>8 DEF Values, WordsTrue
  <2>2. FreeIsClean' BY <1>1, <2>1 DEF FreeIsClean
  <2>3. FinishedIsTrue'
    <3>1. SUFFICES ASSUME NEW id \in DOMAIN submit_infos_',
                          word[submit_infos_'[id].bottom_marker] = kFinished
          PROVE  \E t \in Threads : \E k \in 1 .. finished[t] : submit_infos_'[id].cbs = All(t)'[k].cbs
      BY DEF FinishedIsTrue
    <3>2. Old(id)
      BY <1>4, <2>1, <3>1 DEF New, FreeIsClean, Clean, kFinished, kInvalid,
         CommandBufferValue
    <3>3. PICK t \in Threads : \E k \in 1 .. finished[t] : submit_infos_[id].cbs = All(t)[k].cbs
      BY <2>1, <3>1, <3>2 DEF Old, FinishedIsTrue
    <3>4. QED BY <1>2, <1>3, <3>2, <3>3 DEF Old
  <2>4. TopIsTrue'
    <3>1. SUFFICES ASSUME NEW id \in DOMAIN submit_infos_'
          PROVE  /\ submit_infos_'[id].cbs = Null => word[submit_infos_'[id].top_marker] \in Clean
                 /\ \A t \in Threads : \A k \in 1 .. Len(All(t)') :
                      submit_infos_'[id].cbs = All(t)'[k].cbs =>
                        IF All(t)'[k].top = Null THEN word[submit_infos_'[id].top_marker] \in Clean
                        ELSE word[submit_infos_'[id].top_marker] = IF k <= started[t] THEN kRunning ELSE kQueued
      BY DEF TopIsTrue, Clean
    <3>2. CASE Old(id) BY <1>2, <2>1, <3>2 DEF Old, TopIsTrue
    <3>3. CASE New(id) BY <1>2, <2>1, <3>3 DEF New, FreeIsClean
    <3>4. QED BY <1>4, <3>2, <3>3
  <2>5. AheadIsTracked'
    <3>1. SUFFICES ASSUME NEW t \in Threads, NEW k \in 1 .. Len(All(t)'), k > finished[t],
                          All(t)'[k].top # Null
          PROVE  \E id \in DOMAIN submit_infos_' : submit_infos_'[id].cbs = All(t)'[k].cbs
      BY DEF AheadIsTracked
    <3>2. QED BY <1>2, <2>1, <3>1 DEF AheadIsTracked
  <2>6. AheadIsNotFreed'
    <3>1. freed \subseteq 1 .. allocated /\ allocated \in Nat
      BY BoundAssumption DEF Basics, Typed
    <3>2. Null \notin freed /\ allocated + 1 \notin freed BY <3>1 DEF Null
    <3>3. QED BY <1>2, <1>5, <2>1, <3>2 DEF AheadIsNotFreed
  <2>7. QED BY <2>2, <2>3, <2>4, <2>5, <2>6
<1>9. QED BY <1>1, <1>6, <1>7, <1>8 DEF Values, WordsTrue

\* A step that writes to words that no one owns.
LEMMA ReturnsValues ==
  ASSUME Basics, Structure, Values, config' = config, CommandBufferReturns
  PROVE  Values'
<1>1. /\ \A t \in Threads : All(t)' = All(t)
      /\ Free(markers)' = Free(markers)
      /\ UNCHANGED <<call, freed, started, finished, submit_infos_, helper_submit_infos_>>
  BY ReturnsSteps
<1>2. PICK w \in Free(markers), v \in Clean : word' = [word EXCEPT ![w] = v]
  BY ReturnsSteps
<1>3. BindSparse' = BindSparse /\ Helpers' = Helpers /\ Clean' = Clean
  BY <1>1, ConfigFixed DEF Helpers, Clean
<1>4. w \in Words /\ word \in [Words -> 0 .. CommandBufferValue]
  BY <1>2, FreeIsWords, RoomIsNat DEF Basics, Typed
<1>5. word'[w] \in Clean /\ \A x \in Words : x # w => word'[x] = word[x]
  BY <1>2, <1>4
<1>6. \A id \in DOMAIN submit_infos_ : /\ word'[submit_infos_[id].top_marker] = word[submit_infos_[id].top_marker]
                                       /\ word'[submit_infos_[id].bottom_marker] = word[submit_infos_[id].bottom_marker]
  <2>1. \A id \in DOMAIN submit_infos_ : submit_infos_[id].top_marker \in Words /\ submit_infos_[id].bottom_marker \in Words
    BY DEF Basics, Typed, SubmitInfo
  <2>2. QED BY <1>2, <1>5, <2>1 DEF Structure, InfosApart, WordsOf
<1>7. \A h \in Helpers : word'[h.marker] = word[h.marker]
  BY <1>2, <1>5, HelpersTyped DEF Structure, HelpersApart, Basics
<1>8. HelpersTrue' BY <1>1, <1>3, <1>7 DEF Values, HelpersTrue, HelperFinished
<1>9. FinishedIsWritten' BY <1>1, <1>6 DEF Values, FinishedIsWritten
<1>10. ASSUME ~BindSparse
       PROVE  (FreeIsClean /\ FinishedIsTrue /\ TopIsTrue /\ AheadIsTracked /\ AheadIsNotFreed)'
  <2>1. FreeIsClean /\ FinishedIsTrue /\ TopIsTrue /\ AheadIsTracked /\ AheadIsNotFreed
    BY <1>10 DEF Values, WordsTrue
  <2>2. FreeIsClean'
    <3>1. Free(markers) \subseteq Words
      BY FreeIsWords, RoomIsNat DEF Basics, Typed
    <3>2. QED BY <1>1, <1>3, <1>5, <2>1, <3>1 DEF FreeIsClean
  <2>3. FinishedIsTrue' BY <1>1, <1>6, <2>1 DEF FinishedIsTrue
  <2>4. TopIsTrue' BY <1>1, <1>3, <1>6, <2>1 DEF TopIsTrue
  <2>5. AheadIsTracked' /\ AheadIsNotFreed'
    BY <1>1, <2>1 DEF AheadIsTracked, AheadIsNotFreed
  <2>6. QED BY <2>2, <2>3, <2>4, <2>5
<1>11. QED BY <1>3, <1>8, <1>9, <1>10 DEF Values, WordsTrue

\* The stored buffers have no write yet, and the submit's words are as clean as
\* they were free.
LEMMA StoreValues ==
  ASSUME Basics, Structure, Values, config' = config, NEW t \in Threads, Store(t)
  PROVE  Values'
<1> DEFINE id == call[t].id
           cb == call[t].cbs
           e == Entry(cb, Null, Null)
<1>1. e.cbs = cb /\ e.top = Null /\ e.bottom = Null BY DEF Entry
<1>2. /\ Appends(t, e) /\ Free(markers)' = Free(markers)
      /\ UNCHANGED <<word, helper_submit_infos_, allocated, freed, started, finished>>
      /\ call[t].pc = "store" /\ call'[t].cbs = cb
      /\ DOMAIN submit_infos_' = DOMAIN submit_infos_
      /\ \A ie \in DOMAIN submit_infos_ :
           /\ submit_infos_'[ie].top_marker = submit_infos_[ie].top_marker
           /\ submit_infos_'[ie].bottom_marker = submit_infos_[ie].bottom_marker
           /\ submit_infos_'[ie].cbs = IF ie = id THEN cb ELSE submit_infos_[ie].cbs
  BY StoreSteps DEF Structure
<1> HIDE DEF e, id, cb
<1>3. /\ \A u \in Threads : \A k \in 1 .. Len(All(u)') : OldElement(u, k) \/ NewElement(t, e, u, k)
      /\ \A u \in Threads : \A k \in 1 .. Len(All(u)) : k \in 1 .. Len(All(u)') /\ OldElement(u, k)
      /\ \A u \in Threads \ {t} : call'[u] = call[u]
  BY <1>2 DEF Appends
<1>4. cb # Null
  BY <1>2, BoundAssumption DEF Basics, CallsSound, Typed, InStep, cb, Null
<1>5. \A u \in Threads : \A k \in 1 .. Len(All(u)) : All(u)[k].cbs # cb /\ All(u)[k].cbs # Null
  BY <1>2, ElementsTyped DEF Structure, BuffersApart, Basics, cb, Null
<1>6. \A ie \in DOMAIN submit_infos_ : /\ submit_infos_[ie].cbs # cb
                                       /\ ie = id => submit_infos_[ie].cbs = Null
  BY <1>2 DEF Structure, InfosApart, id, cb
<1>7. \A h \in Helpers : h.cbs # cb BY DEF Structure, HelpersApart, cb
<1>8. \A u \in Threads : \A k \in 1 .. finished[u] : k \in 1 .. Len(All(u))
  <2>1. \A u \in Threads : /\ Len(All(u)) \in Nat /\ finished[u] \in Nat /\ finished[u] <= Len(All(u))
    BY AllTyped, CountsTyped DEF Basics
  <2>2. QED BY <2>1
<1>9. \A u \in Threads : \A k \in 1 .. Len(All(u)') :
        \/ k \in 1 .. Len(All(u)) /\ All(u)'[k] = All(u)[k]
        \/ /\ u = t /\ k = Len(All(t)) + 1 /\ ~(k <= finished[u])
           /\ All(u)'[k].cbs = cb /\ All(u)'[k].top = Null
  <2>1. Len(All(t)) \in Nat /\ finished[t] \in Nat /\ finished[t] <= Len(All(t))
    BY AllTyped, CountsTyped DEF Basics
  <2>2. ~(Len(All(t)) + 1 <= finished[t]) BY <2>1
  <2>3. QED BY <1>1, <1>3, <2>2 DEF OldElement, NewElement
<1>10. BindSparse' = BindSparse /\ Helpers' = Helpers
  BY <1>2, ConfigFixed DEF Helpers
<1>11. HelpersTrue'
  <2>1. SUFFICES ASSUME NEW h \in Helpers, word[h.marker] = kFinished, NEW u \in Threads,
                        NEW k \in 1 .. Len(All(u)'), All(u)'[k].cbs = h.cbs
        PROVE  k <= finished[u]
    BY <1>2, <1>10 DEF HelpersTrue, HelperFinished
  <2>2. QED BY <1>7, <1>9, <2>1 DEF Values, HelpersTrue, HelperFinished
<1>12. FinishedIsWritten'
  <2>1. SUFFICES ASSUME NEW ie \in DOMAIN submit_infos_, NEW u \in Threads, NEW k \in 1 .. Len(All(u)'),
                        submit_infos_'[ie].cbs = All(u)'[k].cbs, k <= finished[u]
        PROVE  word[submit_infos_[ie].bottom_marker] = kFinished
    BY <1>2 DEF FinishedIsWritten
  <2>2. k \in 1 .. Len(All(u)) /\ All(u)'[k] = All(u)[k] BY <1>9, <2>1
  <2>3. submit_infos_[ie].cbs = All(u)[k].cbs BY <1>2, <1>5, <2>1, <2>2
  <2>4. QED BY <2>1, <2>2, <2>3 DEF Values, FinishedIsWritten
<1>13. ASSUME ~BindSparse
       PROVE  (FreeIsClean /\ FinishedIsTrue /\ TopIsTrue /\ AheadIsTracked /\ AheadIsNotFreed)'
  <2>1. FreeIsClean /\ FinishedIsTrue /\ TopIsTrue /\ AheadIsTracked /\ AheadIsNotFreed
    BY <1>13 DEF Values, WordsTrue
  <2>2. FreeIsClean' BY <1>2, <2>1 DEF FreeIsClean
  <2>3. FinishedIsTrue'
    <3>1. SUFFICES ASSUME NEW ie \in DOMAIN submit_infos_,
                          word[submit_infos_[ie].bottom_marker] = kFinished
          PROVE  \E u \in Threads : \E k \in 1 .. finished[u] : submit_infos_'[ie].cbs = All(u)'[k].cbs
      BY <1>2 DEF FinishedIsTrue
    <3>2. PICK u \in Threads : \E k \in 1 .. finished[u] : submit_infos_[ie].cbs = All(u)[k].cbs
      BY <2>1, <3>1 DEF FinishedIsTrue
    <3>3. PICK k \in 1 .. finished[u] : submit_infos_[ie].cbs = All(u)[k].cbs
      BY <3>2
    <3>4. k \in 1 .. Len(All(u)) BY <1>8
    <3>5. submit_infos_[ie].cbs # Null BY <1>5, <3>3, <3>4
    <3>6. submit_infos_'[ie].cbs = submit_infos_[ie].cbs BY <1>2, <1>6, <3>5
    <3>7. All(u)'[k] = All(u)[k] BY <1>3, <3>4 DEF OldElement
    <3>8. QED BY <3>3, <3>6, <3>7
  <2>4. TopIsTrue'
    <3>1. SUFFICES ASSUME NEW ie \in DOMAIN submit_infos_
          PROVE  /\ submit_infos_'[ie].cbs = Null => word[submit_infos_[ie].top_marker] \in Clean
                 /\ \A u \in Threads : \A k \in 1 .. Len(All(u)') :
                      submit_infos_'[ie].cbs = All(u)'[k].cbs =>
                        IF All(u)'[k].top = Null THEN word[submit_infos_[ie].top_marker] \in Clean
                        ELSE word[submit_infos_[ie].top_marker] = IF k <= started[u] THEN kRunning ELSE kQueued
      BY <1>2 DEF TopIsTrue, Clean
    <3>2. CASE ie = id
      <4>1. submit_infos_[ie].cbs = Null /\ submit_infos_'[ie].cbs = cb
        BY <1>2, <1>6, <3>2
      <4>2. word[submit_infos_[ie].top_marker] \in Clean
        BY <2>1, <4>1 DEF TopIsTrue
      <4>3. QED BY <1>4, <1>5, <1>9, <4>1, <4>2
    <3>3. CASE ie # id
      <4>1. submit_infos_'[ie].cbs = submit_infos_[ie].cbs /\ submit_infos_[ie].cbs # cb
        BY <1>2, <1>6, <3>3
      <4>2. QED BY <1>9, <2>1, <4>1 DEF TopIsTrue
    <3>4. QED BY <3>2, <3>3
  <2>5. AheadIsTracked'
    <3>1. SUFFICES ASSUME NEW u \in Threads, NEW k \in 1 .. Len(All(u)'), k > finished[u],
                          All(u)'[k].top # Null
          PROVE  \E ie \in DOMAIN submit_infos_ : submit_infos_'[ie].cbs = All(u)'[k].cbs
      BY <1>2 DEF AheadIsTracked
    <3>2. k \in 1 .. Len(All(u)) /\ All(u)'[k] = All(u)[k] BY <1>9, <3>1
    <3>3. PICK ie \in DOMAIN submit_infos_ : submit_infos_[ie].cbs = All(u)[k].cbs
      BY <2>1, <3>1, <3>2 DEF AheadIsTracked
    <3>4. submit_infos_'[ie].cbs = submit_infos_[ie].cbs
      BY <1>2, <1>5, <1>6, <3>2, <3>3
    <3>5. QED BY <3>2, <3>3, <3>4
  <2>6. AheadIsNotFreed'
    <3>1. \A u \in Threads : call'[u].cbs = call[u].cbs BY <1>2, <1>3 DEF cb
    <3>2. QED BY <1>2, <1>9, <2>1, <3>1 DEF AheadIsNotFreed, cb
  <2>7. QED BY <2>2, <2>3, <2>4, <2>5, <2>6
<1>14. QED BY <1>10, <1>11, <1>12, <1>13 DEF Values, WordsTrue

\* The helper's word says kQueued before it is tracked, so a cleanup cannot
\* take an old kFinished for its own.
LEMMA BindValues ==
  ASSUME Basics, Structure, Values, config' = config, NEW t \in Threads,
         NEW w \in Words \cup {Null}, Binds(t, w)
  PROVE  Values'
<1> DEFINE cb == allocated + 1
           e == Entry(cb, Null, w)
           new == NewHelper(w, cb)
<1>1. e.cbs = cb /\ e.top = Null /\ e.bottom = w /\ new.marker = w /\ new.cbs = cb
  BY DEF Entry, NewHelper
<1>2. /\ Appends(t, e) /\ call[t].pc = "record"
      /\ UNCHANGED <<submit_infos_, finished>>
      /\ \/ w = Null /\ word' = word /\ Helpers' = Helpers \ Done
         \/ /\ w \in Words /\ w \in Free(markers) \cup MarkersOf(Done)
            /\ word' = [word EXCEPT ![w] = kQueued]
            /\ Helpers' = (Helpers \ Done) \cup {new}
  BY DEF Binds
<1> HIDE DEF e, cb, new
<1>3. word \in [Words -> 0 .. CommandBufferValue] /\ Null \notin Words
  BY RoomIsNat DEF Basics, Typed, Words, Null
<1>4. /\ \A x \in Words : x # w => word'[x] = word[x]
      /\ w # Null => word'[w] = kQueued
  <2>1. CASE w = Null /\ word' = word BY <2>1
  <2>2. CASE w \in Words /\ word' = [word EXCEPT ![w] = kQueued] BY <1>3, <2>2
  <2>3. QED BY <1>2, <2>1, <2>2
<1>5. /\ \A u \in Threads : \A k \in 1 .. Len(All(u)') : OldElement(u, k) \/ NewElement(t, e, u, k)
      /\ \A u \in Threads \ {t} : call'[u] = call[u]
  BY <1>2 DEF Appends
<1>6. \A u \in Threads : \A k \in 1 .. Len(All(u)') :
        \/ k \in 1 .. Len(All(u)) /\ All(u)'[k] = All(u)[k]
        \/ ~(k <= finished[u])
  <2>1. Len(All(t)) \in Nat /\ finished[t] \in Nat /\ finished[t] <= Len(All(t))
    BY AllTyped, CountsTyped DEF Basics
  <2>2. ~(Len(All(t)) + 1 <= finished[t]) BY <2>1
  <2>3. QED BY <1>5, <2>2 DEF OldElement, NewElement
<1>7. \A h \in Helpers' : ~(word'[h.marker] = kFinished)
  <2>1. \A h \in Helpers \ Done : word[h.marker] # kFinished /\ h.marker # w
    <3>1. \A h \in Helpers \ Done : word[h.marker] # kFinished
      BY DEF Done, HelperFinished
    <3>2. \A h \in Helpers \ Done : h.marker \in Words /\ h.marker \notin Free(markers) \cup MarkersOf(Done)
      BY HelpersTyped DEF Structure, HelpersApart, MarkersOf, Done, Basics
    <3>3. QED BY <1>2, <1>3, <3>1, <3>2
  <2>2. kQueued # kFinished BY DEF kQueued, kFinished
  <2>3. \A h \in Helpers : h.marker \in Words BY HelpersTyped DEF Basics
  <2>4. QED BY <1>1, <1>2, <1>3, <1>4, <2>1, <2>2, <2>3
<1>8. HelpersTrue' BY <1>7 DEF HelpersTrue, HelperFinished
<1>9. \A id \in DOMAIN submit_infos_ : word'[submit_infos_[id].bottom_marker] = word[submit_infos_[id].bottom_marker]
  <2>1. \A id \in DOMAIN submit_infos_ : submit_infos_[id].bottom_marker \notin Free(markers) \cup MarkersOf(Done)
    BY DEF Structure, InfosApart, HelpersApart, MarkersOf, Done, WordsOf
  <2>2. \A id \in DOMAIN submit_infos_ : submit_infos_[id].bottom_marker \in Words
    BY DEF Basics, Typed, SubmitInfo
  <2>3. QED BY <1>2, <1>4, <2>1, <2>2
<1>10. FinishedIsWritten'
  <2>1. SUFFICES ASSUME NEW id \in DOMAIN submit_infos_, NEW u \in Threads, NEW k \in 1 .. Len(All(u)'),
                        submit_infos_[id].cbs = All(u)'[k].cbs, k <= finished[u]
        PROVE  word[submit_infos_[id].bottom_marker] = kFinished
    BY <1>2, <1>9 DEF FinishedIsWritten
  <2>2. k \in 1 .. Len(All(u)) /\ All(u)'[k] = All(u)[k] BY <1>6, <2>1
  <2>3. QED BY <2>1, <2>2 DEF Values, FinishedIsWritten
<1>11. BindSparse' BY <1>2, ConfigFixed DEF Basics, CallsSound
<1>12. QED BY <1>8, <1>10, <1>11 DEF Values, WordsTrue

\* What the elements keep when one of them gets a write.
LEMMA RecordsElements ==
  ASSUME Basics, NEW t \in Threads, NEW e \in Elements, Records(t, e)
  PROVE  /\ \A u \in Threads : Len(All(u)') = Len(All(u))
         /\ \A u \in Threads : \A k \in 1 .. Len(All(u)) : All(u)'[k].cbs = All(u)[k].cbs
         /\ \A u \in Threads : \A k \in 1 .. Len(All(u)) :
              ~(u = t /\ k = Len(All(t))) => All(u)'[k] = All(u)[k]
         /\ Len(All(t)) \in 1 .. Len(All(t)) /\ All(t)'[Len(All(t))] = e
         /\ All(t)[Len(All(t))].cbs = call[t].cbs
         /\ \A u \in Threads : call'[u].cbs = call[u].cbs \/ call'[u].cbs = Null
BY LastIsCurrent DEF Records, Edits, Edited, SameElement

\* The GPU has not reached the buffers that a call is recording.
LEMMA CurrentIsAhead ==
  ASSUME Basics, NEW t \in Threads, call[t].pc \in {"start", "finish"}
  PROVE  Len(All(t)) > started[t] /\ Len(All(t)) > finished[t]
<1>1. PICK f, s, m, n, l : /\ f = finished[t] /\ s = started[t] /\ m = Len(queue[t])
                           /\ n = Len(call[t].batch) /\ l = Len(All(t))
  OBVIOUS
<1>2. f \in Nat /\ s \in Nat /\ m \in Nat /\ n \in Nat /\ l = m + n /\ f <= s /\ s <= m
  BY <1>1, AllTyped, CountsTyped DEF Basics
<1>3. n \in 1 .. n BY <1>1, LastIsCurrent
<1>4. l > s /\ l > f BY ONLY <1>2, <1>3
<1>5. QED BY <1>1, <1>4

\* The host's kQueued goes to a word that only this submit reads.
LEMMA RecordStartValues ==
  ASSUME Basics, Structure, Values, config' = config, NEW t \in Threads, RecordSubmitStart(t)
  PROVE  Values'
<1>1. PICK e \in Elements : Records(t, e) BY RecordStartSteps
<1> DEFINE id == call[t].id
           l == Len(All(t))
           top == submit_infos_[id].top_marker
<1>2. /\ UNCHANGED <<markers, freed, submit_infos_>>
      /\ word' = IF Known(t) THEN [word EXCEPT ![top] = kQueued] ELSE word
      /\ call[t].pc = "start"
  BY RecordStartSteps
<1>3. /\ UNCHANGED <<helper_submit_infos_, started, finished>> /\ Free(markers)' = Free(markers)
      /\ ~Known(t) => e.top = All(t)[l].top
      /\ Known(t) => e.top = top
  BY <1>1 DEF Records, Writes
<1>4. /\ \A u \in Threads : Len(All(u)') = Len(All(u))
      /\ \A u \in Threads : \A k \in 1 .. Len(All(u)) : All(u)'[k].cbs = All(u)[k].cbs
      /\ \A u \in Threads : \A k \in 1 .. Len(All(u)) :
           ~(u = t /\ k = l) => All(u)'[k] = All(u)[k]
      /\ l \in 1 .. Len(All(t)) /\ All(t)'[l] = e /\ All(t)[l].cbs = call[t].cbs
      /\ \A u \in Threads : call'[u].cbs = call[u].cbs \/ call'[u].cbs = Null
  BY <1>1, RecordsElements
<1>5. BindSparse' = BindSparse /\ Helpers' = Helpers
  BY <1>3, ConfigFixed DEF Helpers
<1>6. Known(t) => /\ id \in DOMAIN submit_infos_ /\ top \in Words /\ top # Null
                  /\ submit_infos_[id].cbs = call[t].cbs
                  /\ top \in WordsOf(id)
  <2>1. Null \notin Words BY RoomIsNat DEF Basics, Words, Null
  <2>2. QED BY <1>2, <2>1, CurrentIs DEF Known, WordsOf
<1>7. call[t].cbs # Null
  BY <1>2, BoundAssumption DEF Basics, CallsSound, Typed, InStep, Null
<1> HIDE DEF id, l, top
<1>8. word \in [Words -> 0 .. CommandBufferValue] BY DEF Basics, Typed
<1>9. /\ \A x \in Words : word'[x] = word[x] \/ (Known(t) /\ x = top /\ word'[x] = kQueued)
      /\ Known(t) => word'[top] = kQueued
  BY <1>2, <1>6, <1>8
<1>10. \A ie \in DOMAIN submit_infos_ :
         /\ submit_infos_[ie].top_marker \in Words /\ submit_infos_[ie].bottom_marker \in Words
         /\ submit_infos_[ie].bottom_marker = top => ~Known(t)
         /\ submit_infos_[ie].top_marker = top /\ Known(t) => ie = id
  <2>1. \A ie \in DOMAIN submit_infos_ : submit_infos_[ie].top_marker \in Words /\ submit_infos_[ie].bottom_marker \in Words
    BY DEF Basics, Typed, SubmitInfo
  <2>2. \A ie \in DOMAIN submit_infos_ : Known(t) /\ ie # id => WordsOf(ie) \cap WordsOf(id) = {}
    BY <1>6 DEF Structure, InfosApart
  <2>3. Known(t) => submit_infos_[id].bottom_marker # top
    BY <1>6 DEF Structure, InfosApart, top
  <2>4. QED BY <1>6, <2>1, <2>2, <2>3 DEF WordsOf
<1>11. \A ie \in DOMAIN submit_infos_ : word'[submit_infos_[ie].bottom_marker] = word[submit_infos_[ie].bottom_marker]
  BY <1>9, <1>10
<1>12. \A h \in Helpers : word'[h.marker] = word[h.marker]
  <2>1. \A h \in Helpers : h.marker \in Words BY HelpersTyped DEF Basics
  <2>2. \A h \in Helpers : Known(t) => h.marker # top
    BY <1>6 DEF Structure, HelpersApart
  <2>3. QED BY <1>9, <2>1, <2>2
<1>13. HelpersTrue'
  BY <1>3, <1>4, <1>5, <1>12 DEF Values, HelpersTrue, HelperFinished
<1>14. FinishedIsWritten'
  BY <1>2, <1>3, <1>4, <1>11 DEF Values, FinishedIsWritten
<1>15. ASSUME ~BindSparse
       PROVE  (FreeIsClean /\ FinishedIsTrue /\ TopIsTrue /\ AheadIsTracked /\ AheadIsNotFreed)'
  <2>1. FreeIsClean /\ FinishedIsTrue /\ TopIsTrue /\ AheadIsTracked /\ AheadIsNotFreed
    BY <1>15 DEF Values, WordsTrue
  <2>2. FreeIsClean'
    <3>1. Free(markers) \subseteq Words
      BY FreeIsWords, RoomIsNat DEF Basics, Typed
    <3>2. Known(t) => top \notin Free(markers) BY <1>6 DEF Structure, InfosApart
    <3>3. QED BY <1>3, <1>9, <2>1, <3>1, <3>2 DEF FreeIsClean, Clean
  <2>3. FinishedIsTrue'
    <3>1. \A u \in Threads : \A k \in 1 .. finished[u] : k \in 1 .. Len(All(u))
      <4>1. \A u \in Threads : /\ Len(All(u)) \in Nat /\ finished[u] \in Nat /\ finished[u] <= Len(All(u))
        BY AllTyped, CountsTyped DEF Basics
      <4>2. QED BY <4>1
    <3>2. QED BY <1>2, <1>3, <1>4, <1>11, <2>1, <3>1 DEF FinishedIsTrue
  <2>4. TopIsTrue'
    <3>1. SUFFICES ASSUME NEW ie \in DOMAIN submit_infos_
          PROVE  /\ submit_infos_[ie].cbs = Null => word'[submit_infos_[ie].top_marker] \in Clean
                 /\ \A u \in Threads : \A k \in 1 .. Len(All(u)) :
                      submit_infos_[ie].cbs = All(u)'[k].cbs =>
                        IF All(u)'[k].top = Null THEN word'[submit_infos_[ie].top_marker] \in Clean
                        ELSE word'[submit_infos_[ie].top_marker] = IF k <= started[u] THEN kRunning ELSE kQueued
      BY <1>2, <1>3, <1>4 DEF TopIsTrue, Clean
    <3>2. CASE Known(t) /\ ie = id
      <4>1. submit_infos_[ie].cbs = call[t].cbs /\ submit_infos_[ie].cbs # Null
        BY <1>6, <1>7, <3>2
      <4>2. ASSUME NEW u \in Threads, NEW k \in 1 .. Len(All(u)), submit_infos_[ie].cbs = All(u)'[k].cbs
            PROVE  /\ All(u)'[k].top # Null
                   /\ word'[submit_infos_[ie].top_marker] = IF k <= started[u] THEN kRunning ELSE kQueued
        <5>1. u = t /\ k = l
          BY <1>4, <4>1, <4>2 DEF Structure, BuffersApart
        <5>2. ~(l <= started[t])
          <6>1. l > started[t] /\ l \in Nat /\ started[t] \in Nat
            BY <1>2, CurrentIsAhead, AllTyped, CountsTyped DEF Basics, l
          <6>2. QED BY <6>1
        <5>3. QED BY <1>3, <1>4, <1>6, <1>9, <3>2, <5>1, <5>2 DEF top
      <4>3. QED BY <4>1, <4>2
    <3>3. CASE ~(Known(t) /\ ie = id)
      <4>1. word'[submit_infos_[ie].top_marker] = word[submit_infos_[ie].top_marker]
        BY <1>9, <1>10, <3>3
      <4>2. ASSUME NEW u \in Threads, NEW k \in 1 .. Len(All(u)), submit_infos_[ie].cbs = All(u)'[k].cbs
            PROVE  All(u)'[k].top = All(u)[k].top /\ submit_infos_[ie].cbs = All(u)[k].cbs
        <5>1. CASE ~(u = t /\ k = l) BY <1>4, <4>2, <5>1
        <5>2. CASE u = t /\ k = l
          <6>1. submit_infos_[ie].cbs = call[t].cbs BY <1>4, <4>2, <5>2
          <6>2. ~Known(t)
            BY <1>6, <1>7, <3>3, <6>1 DEF Structure, InfosApart
          <6>3. QED BY <1>3, <1>4, <4>2, <5>2, <6>2
        <5>3. QED BY <5>1, <5>2
      <4>3. QED BY <2>1, <4>1, <4>2 DEF TopIsTrue
    <3>4. QED BY <3>2, <3>3
  <2>5. AheadIsTracked'
    <3>1. SUFFICES ASSUME NEW u \in Threads, NEW k \in 1 .. Len(All(u)), k > finished[u],
                          All(u)'[k].top # Null
          PROVE  \E ie \in DOMAIN submit_infos_ : submit_infos_[ie].cbs = All(u)[k].cbs
      BY <1>2, <1>3, <1>4 DEF AheadIsTracked
    <3>2. CASE All(u)'[k].top = All(u)[k].top
      BY <2>1, <3>1, <3>2 DEF AheadIsTracked
    <3>3. CASE u = t /\ k = l /\ Known(t) BY <1>4, <1>6, <3>3
    <3>4. QED BY <1>3, <1>4, <3>2, <3>3
  <2>6. AheadIsNotFreed'
    <3>1. freed \subseteq 1 .. allocated /\ allocated \in Nat
      BY BoundAssumption DEF Basics, Typed
    <3>2. Null \notin freed BY <3>1 DEF Null
    <3>3. QED BY <1>2, <1>3, <1>4, <2>1, <3>2 DEF AheadIsNotFreed
  <2>7. QED BY <2>2, <2>3, <2>4, <2>5, <2>6
<1>16. QED BY <1>5, <1>13, <1>14, <1>15 DEF Values, WordsTrue

\* The buffers that a cleanup frees are no longer in the GPU's hands.
LEMMA FinishedIsBehind ==
  ASSUME Basics, Structure, FinishedIsTrue, NEW id \in Finished
  PROVE  /\ \A u \in Threads : \A k \in 1 .. Len(All(u)) : k > finished[u] => submit_infos_[id].cbs # All(u)[k].cbs
         /\ \A u \in Threads : submit_infos_[id].cbs # call[u].cbs
<1>1. PICK v \in Threads : \E j \in 1 .. finished[v] : submit_infos_[id].cbs = All(v)[j].cbs
  BY DEF Finished, FinishedIsTrue
<1>2. PICK j \in 1 .. finished[v] : submit_infos_[id].cbs = All(v)[j].cbs
  BY <1>1
<1>3. finished[v] \in Nat /\ Len(All(v)) \in Nat /\ finished[v] <= Len(All(v))
      /\ finished[v] <= Len(queue[v])
  <2>1. Len(queue[v]) \in Nat BY AllTyped DEF Basics
  <2>2. QED BY <2>1, AllTyped, CountsTyped DEF Basics
<1>4. j \in 1 .. Len(All(v)) /\ ~(j > finished[v]) BY <1>3
<1>5. ASSUME NEW u \in Threads, NEW k \in 1 .. Len(All(u)), k > finished[u]
      PROVE  submit_infos_[id].cbs # All(u)[k].cbs
  BY <1>2, <1>4, <1>5 DEF Structure, BuffersApart
<1>6. ASSUME NEW u \in Threads PROVE submit_infos_[id].cbs # call[u].cbs
  <2>1. CASE call[u].pc \notin InStep
    <3>1. All(v)[j].cbs # Null BY <1>4, ElementsTyped DEF Basics, Null
    <3>2. QED BY <1>2, <2>1, <3>1 DEF Basics, CallsSound
  <2>2. CASE call[u].pc = "store"
    BY <1>2, <1>4, <2>2 DEF Structure, BuffersApart
  <2>3. CASE call[u].pc \in {"start", "finish"}
    <3>1. Len(All(u)) \in 1 .. Len(All(u)) /\ All(u)[Len(All(u))].cbs = call[u].cbs
      BY <2>3, LastIsCurrent
    <3>2. Len(All(u)) > finished[u] BY <2>3, CurrentIsAhead
    <3>3. QED BY <1>5, <3>1, <3>2
  <2>4. QED BY <2>1, <2>2, <2>3, CallIs DEF InStep, Basics
<1>7. QED BY <1>5, <1>6

\* The cleanup takes away only what the GPU has finished.
LEMMA RecordFinishValues ==
  ASSUME Basics, Basics', Structure, Values, config' = config, NEW t \in Threads, RecordSubmitFinish(t)
  PROVE  Values'
<1>1. PICK e \in Elements : Records(t, e) BY RecordFinishSteps
<1> DEFINE id == call[t].id
           l == Len(All(t))
<1>2. /\ UNCHANGED <<word, markers>> /\ call[t].pc = "finish"
      /\ freed' = freed \cup ({submit_infos_[ie].cbs : ie \in Finished} \ {Null})
      /\ DOMAIN submit_infos_' = DOMAIN submit_infos_ \ Finished
      /\ \A ie \in DOMAIN submit_infos_' : submit_infos_'[ie] = submit_infos_[ie]
  BY RecordFinishSteps
<1>3. /\ UNCHANGED <<helper_submit_infos_, started, finished>> /\ Free(markers)' = Free(markers)
      /\ ~Known(t) => e.top = All(t)[l].top
      /\ Known(t) => e.top = submit_infos_[id].top_marker
  BY <1>1 DEF Records, Writes
<1>4. /\ \A u \in Threads : Len(All(u)') = Len(All(u))
      /\ \A u \in Threads : \A k \in 1 .. Len(All(u)) : All(u)'[k].cbs = All(u)[k].cbs
      /\ \A u \in Threads : \A k \in 1 .. Len(All(u)) :
           ~(u = t /\ k = l) => All(u)'[k] = All(u)[k]
      /\ l \in 1 .. Len(All(t)) /\ All(t)'[l] = e /\ All(t)[l].cbs = call[t].cbs
      /\ \A u \in Threads : call'[u].cbs = call[u].cbs \/ call'[u].cbs = Null
  BY <1>1, RecordsElements
<1>5. BindSparse' = BindSparse /\ Helpers' = Helpers
  BY <1>3, ConfigFixed DEF Helpers
<1>6. Known(t) => All(t)[l].top = submit_infos_[id].top_marker
  BY <1>2, CurrentIs
<1> HIDE DEF id, l
<1>7. \A u \in Threads : \A k \in 1 .. Len(All(u)) : All(u)'[k].top = All(u)[k].top
  BY <1>3, <1>4, <1>6
<1>8. HelpersTrue'
  BY <1>2, <1>3, <1>4, <1>5 DEF Values, HelpersTrue, HelperFinished
<1>9. FinishedIsWritten' BY <1>2, <1>3, <1>4 DEF Values, FinishedIsWritten
<1>10. ASSUME ~BindSparse
       PROVE  (FreeIsClean /\ FinishedIsTrue /\ TopIsTrue /\ AheadIsTracked /\ AheadIsNotFreed)'
  <2>1. FreeIsClean /\ FinishedIsTrue /\ TopIsTrue /\ AheadIsTracked /\ AheadIsNotFreed
    BY <1>10 DEF Values, WordsTrue
  <2>2. FreeIsClean' BY <1>2, <1>3, <2>1 DEF FreeIsClean, Clean
  <2>3. FinishedIsTrue' BY <1>2 DEF FinishedIsTrue, Finished
  <2>4. TopIsTrue'
    <3>1. SUFFICES ASSUME NEW ie \in DOMAIN submit_infos_
          PROVE  /\ submit_infos_[ie].cbs = Null => word[submit_infos_[ie].top_marker] \in Clean
                 /\ \A u \in Threads : \A k \in 1 .. Len(All(u)) :
                      submit_infos_[ie].cbs = All(u)'[k].cbs =>
                        IF All(u)'[k].top = Null THEN word[submit_infos_[ie].top_marker] \in Clean
                        ELSE word[submit_infos_[ie].top_marker] = IF k <= started[u] THEN kRunning ELSE kQueued
      BY <1>2, <1>3, <1>4 DEF TopIsTrue, Clean
    <3>2. QED BY <1>4, <1>7, <2>1 DEF TopIsTrue
  <2>5. AheadIsTracked'
    <3>1. SUFFICES ASSUME NEW u \in Threads, NEW k \in 1 .. Len(All(u)), k > finished[u],
                          All(u)[k].top # Null
          PROVE  \E ie \in DOMAIN submit_infos_' : submit_infos_[ie].cbs = All(u)[k].cbs
      BY <1>2, <1>3, <1>4, <1>7 DEF AheadIsTracked
    <3>2. PICK ie \in DOMAIN submit_infos_ : submit_infos_[ie].cbs = All(u)[k].cbs
      BY <2>1, <3>1 DEF AheadIsTracked
    <3>3. ie \notin Finished BY <2>1, <3>1, <3>2, FinishedIsBehind
    <3>4. QED BY <1>2, <3>2, <3>3
  <2>6. AheadIsNotFreed'
    <3>1. freed' \subseteq 1 .. allocated' /\ allocated' \in Nat
      BY BoundAssumption DEF Basics, Typed
    <3>2. Null \notin freed' BY <3>1 DEF Null
    <3>3. \A u \in Threads : call[u].cbs \notin freed'
      BY <1>2, <2>1, FinishedIsBehind DEF AheadIsNotFreed
    <3>4. \A u \in Threads : \A k \in 1 .. Len(All(u)) : k > finished[u] => All(u)[k].cbs \notin freed'
      BY <1>2, <2>1, FinishedIsBehind DEF AheadIsNotFreed
    <3>5. QED BY <1>3, <1>4, <3>2, <3>3, <3>4 DEF AheadIsNotFreed
  <2>7. QED BY <2>2, <2>3, <2>4, <2>5, <2>6
<1>11. QED BY <1>5, <1>8, <1>9, <1>10 DEF Values, WordsTrue

\* The element that the GPU starts, and the words it touches.
LEMMA GPUStartIs ==
  ASSUME Basics, Structure, config' = config, NEW t \in Threads, GPUStart(t),
         NEW n, n = started[t] + 1, NEW c, c = queue[t][n]
  PROVE  /\ n \in 1 .. Len(All(t)) /\ All(t)[n] = c /\ n > started[t] /\ n > finished[t]
         /\ started' = [started EXCEPT ![t] = n]
         /\ c.top \in Words \cup {Null} /\ c.cbs # Null /\ Null \notin Words
         /\ \A x \in Words : word'[x] = IF x = c.top THEN kRunning ELSE word[x]
         /\ \A id \in DOMAIN submit_infos_ :
              /\ submit_infos_[id].top_marker \in Words /\ submit_infos_[id].bottom_marker \in Words
              /\ submit_infos_[id].top_marker = c.top => submit_infos_[id].cbs = c.cbs
              /\ submit_infos_[id].bottom_marker # c.top
              /\ submit_infos_[id].cbs = c.cbs => c.top \in {Null, submit_infos_[id].top_marker}
<1>4. /\ n \in 1 .. Len(All(t)) /\ All(t)[n] = c /\ n > started[t]
      /\ started' = [started EXCEPT ![t] = n]
  <2>1. started[t] \in Nat /\ Len(queue[t]) \in Nat /\ Len(call[t].batch) \in Nat
        /\ Len(All(t)) = Len(queue[t]) + Len(call[t].batch)
        /\ \A k \in 1 .. Len(queue[t]) : All(t)[k] = queue[t][k]
    BY AllTyped, CountsTyped DEF Basics
  <2>2. started[t] < Len(queue[t]) BY DEF GPUStart
  <2>3. n \in 1 .. Len(queue[t]) /\ n > started[t] /\ n \in 1 .. Len(All(t))
    <3>1. PICK s, m, b : s = started[t] /\ m = Len(queue[t]) /\ b = Len(call[t].batch) OBVIOUS
    <3>2. s \in Nat /\ m \in Nat /\ b \in Nat /\ s < m /\ n = s + 1
      BY <2>1, <2>2, <3>1
    <3>3. n \in 1 .. m /\ n > s /\ n \in 1 .. m + b BY ONLY <3>2
    <3>4. QED BY <2>1, <3>1, <3>3
  <2>4. QED BY <2>1, <2>3 DEF GPUStart
<1>5. c.top \in Words \cup {Null} /\ c.cbs # Null
  BY <1>4, ElementsTyped DEF Basics, Null
<1>6. word' = Written(c.top, kRunning) BY DEF GPUStart
<1>7. \A x \in Words : word'[x] = IF x = c.top THEN kRunning ELSE word[x]
  BY <1>5, <1>6, WrittenTyped DEF kRunning, CommandBufferValue
<1>8. c.top # Null => TopAhead(t, n) BY <1>4 DEF TopAhead
<1>10. Null \notin Words BY RoomIsNat DEF Basics, Words, Null
<1>11. ASSUME NEW id \in DOMAIN submit_infos_
       PROVE  /\ submit_infos_[id].top_marker \in Words /\ submit_infos_[id].bottom_marker \in Words
              /\ submit_infos_[id].top_marker = c.top => submit_infos_[id].cbs = c.cbs
              /\ submit_infos_[id].bottom_marker # c.top
              /\ submit_infos_[id].cbs = c.cbs => c.top \in {Null, submit_infos_[id].top_marker}
  <2>1. submit_infos_[id].top_marker \in Words /\ submit_infos_[id].bottom_marker \in Words
    BY DEF Basics, Typed, SubmitInfo
  <2>2. c.top \in WordsOf(id) => submit_infos_[id].cbs = c.cbs
    <3>1. c.top \in WordsOf(id) => c.top # Null BY <1>10, <2>1 DEF WordsOf
    <3>2. QED BY <1>4, <1>8, <3>1 DEF Structure, InfosWritten
  <2>3. submit_infos_[id].cbs = c.cbs => c.top \in {Null, submit_infos_[id].top_marker}
    BY <1>4 DEF Structure, InfosRecorded
  <2>4. submit_infos_[id].top_marker # submit_infos_[id].bottom_marker
    BY DEF Structure, InfosApart
  <2>5. QED BY <1>10, <2>1, <2>2, <2>3, <2>4 DEF WordsOf
<1>12. n > finished[t] BY <1>4, CountsTyped, ElementsTyped DEF Basics
<1>13. QED BY <1>4, <1>5, <1>7, <1>10, <1>11, <1>12

\* The kRunning that the GPU writes is of the submit that it starts.
LEMMA GPUStartValues ==
  ASSUME Basics, Structure, Values, config' = config, NEW t \in Threads, GPUStart(t)
  PROVE  Values'
<1>1. /\ UNCHANGED <<markers, call, freed, submit_infos_, helper_submit_infos_>>
      /\ \A u \in Threads : All(u)' = All(u)
  BY GPUSteps
<1>2. finished' = finished /\ started \in [Threads -> Nat]
  BY DEF GPUStart, Basics, Typed
<1>3. PICK n, c : n = started[t] + 1 /\ c = queue[t][n] OBVIOUS
<1>4. /\ n \in 1 .. Len(All(t)) /\ All(t)[n] = c /\ n > started[t]
      /\ started' = [started EXCEPT ![t] = n]
  BY <1>3, GPUStartIs
<1>5. c.top \in Words \cup {Null} /\ c.cbs # Null /\ Null \notin Words
  BY <1>3, GPUStartIs
<1>7. \A x \in Words : word'[x] = IF x = c.top THEN kRunning ELSE word[x]
  BY <1>3, GPUStartIs
<1>8. c.top # Null => TopAhead(t, n) BY <1>4 DEF TopAhead
<1>9. BindSparse' = BindSparse /\ Helpers' = Helpers /\ Free(markers)' = Free(markers) /\ Clean' = Clean
  <2>1. config' = config /\ markers' = markers /\ helper_submit_infos_' = helper_submit_infos_
    BY <1>1
  <2>2. QED BY <2>1, ConfigFixed DEF Helpers, Free, Clean
<1>10. Null \notin Words BY <1>5
<1>11. ASSUME NEW id \in DOMAIN submit_infos_
       PROVE  /\ submit_infos_[id].top_marker \in Words /\ submit_infos_[id].bottom_marker \in Words
              /\ submit_infos_[id].top_marker = c.top => submit_infos_[id].cbs = c.cbs
              /\ submit_infos_[id].bottom_marker # c.top
              /\ submit_infos_[id].cbs = c.cbs => c.top \in {Null, submit_infos_[id].top_marker}
  BY <1>3, GPUStartIs
<1>12. \A id \in DOMAIN submit_infos_ : word'[submit_infos_[id].bottom_marker] = word[submit_infos_[id].bottom_marker]
  BY <1>7, <1>11
<1>13. \A h \in Helpers : word'[h.marker] = word[h.marker]
  <2>1. \A h \in Helpers : h.marker \in Words BY HelpersTyped DEF Basics
  <2>2. \A h \in Helpers : c.top # Null => h.marker # c.top
    BY <1>4, <1>8 DEF Structure, HelpersApart
  <2>3. QED BY <1>7, <1>10, <2>1, <2>2
<1>14. \A u \in Threads : \A k \in 1 .. Len(All(u)) : All(u)[k].cbs = c.cbs => u = t /\ k = n
  BY <1>4 DEF Structure, BuffersApart
<1>15. HelpersTrue'
  BY <1>1, <1>2, <1>9, <1>13 DEF Values, HelpersTrue, HelperFinished
<1>16. FinishedIsWritten' BY <1>1, <1>2, <1>12 DEF Values, FinishedIsWritten
<1>17. ASSUME ~BindSparse
       PROVE  (FreeIsClean /\ FinishedIsTrue /\ TopIsTrue /\ AheadIsTracked /\ AheadIsNotFreed)'
  <2>1. FreeIsClean /\ FinishedIsTrue /\ TopIsTrue /\ AheadIsTracked /\ AheadIsNotFreed
    BY <1>17 DEF Values, WordsTrue
  <2>2. FreeIsClean'
    <3>1. Free(markers) \subseteq Words
      BY FreeIsWords, RoomIsNat DEF Basics, Typed
    <3>2. c.top \notin Free(markers)
      BY <1>4, <1>5, <1>8, <1>10, <3>1 DEF Structure, WritesHeld
    <3>3. QED BY <1>7, <1>9, <2>1, <3>1, <3>2 DEF FreeIsClean
  <2>3. FinishedIsTrue' BY <1>1, <1>2, <1>12, <2>1 DEF FinishedIsTrue
  <2>4. TopIsTrue'
    <3>1. SUFFICES ASSUME NEW id \in DOMAIN submit_infos_
          PROVE  /\ submit_infos_[id].cbs = Null => word'[submit_infos_[id].top_marker] \in Clean
                 /\ \A u \in Threads : \A k \in 1 .. Len(All(u)) :
                      submit_infos_[id].cbs = All(u)[k].cbs =>
                        IF All(u)[k].top = Null THEN word'[submit_infos_[id].top_marker] \in Clean
                        ELSE word'[submit_infos_[id].top_marker] = IF k <= started'[u] THEN kRunning ELSE kQueued
      BY <1>1, <1>9 DEF TopIsTrue
    <3>2. CASE submit_infos_[id].top_marker = c.top
      <4>1. submit_infos_[id].cbs = c.cbs /\ submit_infos_[id].cbs # Null
        BY <1>5, <1>11, <3>2
      <4>2. ASSUME NEW u \in Threads, NEW k \in 1 .. Len(All(u)), submit_infos_[id].cbs = All(u)[k].cbs
            PROVE  u = t /\ k = n
        BY <1>14, <4>1, <4>2
      <4>3. n <= started'[t] BY <1>2, <1>4
      <4>4. word'[submit_infos_[id].top_marker] = kRunning /\ c.top # Null
        BY <1>7, <1>10, <1>11, <3>2
      <4>5. QED BY <1>4, <4>1, <4>2, <4>3, <4>4
    <3>3. CASE submit_infos_[id].top_marker # c.top
      <4>1. word'[submit_infos_[id].top_marker] = word[submit_infos_[id].top_marker]
        BY <1>7, <1>11, <3>3
      <4>2. ASSUME NEW u \in Threads, NEW k \in 1 .. Len(All(u)), submit_infos_[id].cbs = All(u)[k].cbs,
                   All(u)[k].top # Null
            PROVE  k <= started'[u] <=> k <= started[u]
        <5>1. ~(u = t /\ k = n) BY <1>4, <1>11, <3>3, <4>2
        <5>2. started[u] \in Nat /\ k \in Nat
          BY CountsTyped, ElementsTyped DEF Basics
        <5>3. CASE u = t
          <6>1. started'[u] = n /\ n = started[u] + 1 BY <1>2, <1>3, <1>4, <5>3
          <6>2. QED BY <5>1, <5>2, <5>3, <6>1
        <5>4. CASE u # t BY <1>2, <1>4, <5>4
        <5>5. QED BY <5>3, <5>4
      <4>3. QED BY <2>1, <4>1, <4>2 DEF TopIsTrue
    <3>4. QED BY <3>2, <3>3
  <2>5. AheadIsTracked' /\ AheadIsNotFreed'
    BY <1>1, <1>2, <2>1 DEF AheadIsTracked, AheadIsNotFreed
  <2>6. QED BY <2>2, <2>3, <2>4, <2>5
<1>18. QED BY <1>9, <1>15, <1>16, <1>17 DEF Values, WordsTrue

\* The element that the GPU finishes, and the words it touches.
LEMMA GPUFinishIs ==
  ASSUME Basics, Structure, config' = config, NEW t \in Threads, GPUFinish(t),
         NEW n, n = finished[t] + 1, NEW c, c = queue[t][n]
  PROVE  /\ n \in 1 .. Len(All(t)) /\ All(t)[n] = c /\ n > finished[t] /\ n \in 1 .. n
         /\ finished' = [finished EXCEPT ![t] = n]
         /\ n \in 1 .. Len(queue[t]) /\ n <= started[t]
         /\ c.bottom \in Words \cup {Null} /\ c.cbs # Null /\ Null \notin Words
         /\ \A x \in Words : word'[x] = IF x = c.bottom THEN kFinished ELSE word[x]
         /\ \A id \in DOMAIN submit_infos_ :
              /\ submit_infos_[id].top_marker \in Words /\ submit_infos_[id].bottom_marker \in Words
              /\ submit_infos_[id].bottom_marker = c.bottom => submit_infos_[id].cbs = c.cbs
              /\ submit_infos_[id].top_marker # c.bottom
              /\ submit_infos_[id].cbs = c.cbs => /\ c.bottom = submit_infos_[id].bottom_marker
                                                  /\ c.top = submit_infos_[id].top_marker
<1>4. /\ n \in 1 .. Len(All(t)) /\ All(t)[n] = c /\ n > finished[t] /\ n \in 1 .. n
      /\ finished' = [finished EXCEPT ![t] = n]
      /\ n \in 1 .. Len(queue[t])
  <2>1. started[t] \in Nat /\ finished[t] \in Nat /\ Len(queue[t]) \in Nat /\ Len(call[t].batch) \in Nat
        /\ Len(All(t)) = Len(queue[t]) + Len(call[t].batch) /\ started[t] <= Len(queue[t])
        /\ \A k \in 1 .. Len(queue[t]) : All(t)[k] = queue[t][k]
    BY AllTyped, CountsTyped DEF Basics
  <2>2. finished[t] < started[t] BY DEF GPUFinish
  <2>3. n \in 1 .. Len(queue[t]) /\ n > finished[t] /\ n \in 1 .. Len(All(t)) /\ n \in 1 .. n
    <3>1. PICK f, s, m, b : f = finished[t] /\ s = started[t] /\ m = Len(queue[t]) /\ b = Len(call[t].batch)
      OBVIOUS
    <3>2. f \in Nat /\ s \in Nat /\ m \in Nat /\ b \in Nat /\ f < s /\ s <= m /\ n = f + 1
      BY <2>1, <2>2, <3>1
    <3>3. n \in 1 .. m /\ n > f /\ n \in 1 .. m + b /\ n \in 1 .. n BY ONLY <3>2
    <3>4. QED BY <2>1, <3>1, <3>3
  <2>4. QED BY <2>1, <2>3 DEF GPUFinish
<1>5. c.bottom \in Words \cup {Null} /\ c.cbs # Null
  BY <1>4, ElementsTyped DEF Basics, Null
<1>6. word' = Written(c.bottom, kFinished) BY DEF GPUFinish
<1>7. \A x \in Words : word'[x] = IF x = c.bottom THEN kFinished ELSE word[x]
  BY <1>5, <1>6, WrittenTyped DEF kFinished, CommandBufferValue
<1>8. c.bottom # Null => BottomAhead(t, n) BY <1>4 DEF BottomAhead
<1>10. Null \notin Words BY RoomIsNat DEF Basics, Words, Null
<1>13. ASSUME NEW id \in DOMAIN submit_infos_
       PROVE  /\ submit_infos_[id].top_marker \in Words /\ submit_infos_[id].bottom_marker \in Words
              /\ submit_infos_[id].bottom_marker = c.bottom => submit_infos_[id].cbs = c.cbs
              /\ submit_infos_[id].top_marker # c.bottom
              /\ submit_infos_[id].cbs = c.cbs => /\ c.bottom = submit_infos_[id].bottom_marker
                                                  /\ c.top = submit_infos_[id].top_marker
  <2>1. submit_infos_[id].top_marker \in Words /\ submit_infos_[id].bottom_marker \in Words
    BY DEF Basics, Typed, SubmitInfo
  <2>2. c.bottom \in WordsOf(id) => submit_infos_[id].cbs = c.cbs
    <3>1. c.bottom \in WordsOf(id) => c.bottom # Null BY <1>10, <2>1 DEF WordsOf
    <3>2. QED BY <1>4, <1>8, <3>1 DEF Structure, InfosWritten
  <2>3. submit_infos_[id].cbs = c.cbs => /\ c.bottom = submit_infos_[id].bottom_marker
                                         /\ c.top = submit_infos_[id].top_marker
    <3>1. ~Current(id, t, n)
      <4>1. SUFFICES ASSUME n = Len(All(t)), call[t].pc \in {"start", "finish"} PROVE FALSE
        BY DEF Current
      <4>2. Len(call[t].batch) \in 1 .. Len(call[t].batch)
        BY <4>1, LastIsCurrent
      <4>3. Len(queue[t]) \in Nat /\ Len(call[t].batch) \in Nat
            /\ Len(All(t)) = Len(queue[t]) + Len(call[t].batch)
        BY AllTyped DEF Basics
      <4>4. PICK m, b : m = Len(queue[t]) /\ b = Len(call[t].batch) OBVIOUS
      <4>5. m \in Nat /\ b \in 1 .. b /\ b \in Nat /\ n \in 1 .. m /\ n = m + b
        BY <1>4, <4>1, <4>2, <4>3, <4>4
      <4>6. QED BY ONLY <4>5
    <3>2. QED BY <1>4, <3>1 DEF Structure, InfosRecorded
  <2>4. submit_infos_[id].top_marker # submit_infos_[id].bottom_marker
    BY DEF Structure, InfosApart
  <2>5. QED BY <1>10, <2>1, <2>2, <2>3, <2>4 DEF WordsOf
<1>14. n <= started[t]
  <2>1. finished[t] < started[t] /\ finished[t] \in Nat /\ started[t] \in Nat
    BY CountsTyped DEF GPUFinish, Basics
  <2>2. QED BY <2>1
<1>15. QED BY <1>4, <1>5, <1>7, <1>10, <1>13, <1>14

\* The kFinished that the GPU writes is of the submit, or of the helper, that
\* it finishes.
LEMMA GPUFinishValues ==
  ASSUME Basics, Structure, Values, config' = config, NEW t \in Threads, GPUFinish(t)
  PROVE  Values'
<1>1. /\ UNCHANGED <<markers, call, freed, submit_infos_, helper_submit_infos_>>
      /\ \A u \in Threads : All(u)' = All(u)
  BY GPUSteps
<1>2. started' = started /\ finished \in [Threads -> Nat]
  BY DEF GPUFinish, Basics, Typed
<1>3. PICK n, c : n = finished[t] + 1 /\ c = queue[t][n] OBVIOUS
<1>4. /\ n \in 1 .. Len(All(t)) /\ All(t)[n] = c /\ n > finished[t] /\ n \in 1 .. n
      /\ finished' = [finished EXCEPT ![t] = n]
      /\ n \in 1 .. Len(queue[t])
  BY <1>3, GPUFinishIs
<1>5. c.bottom \in Words \cup {Null} /\ c.cbs # Null /\ Null \notin Words
  BY <1>3, GPUFinishIs
<1>7. \A x \in Words : word'[x] = IF x = c.bottom THEN kFinished ELSE word[x]
  BY <1>3, GPUFinishIs
<1>8. c.bottom # Null => BottomAhead(t, n) BY <1>4 DEF BottomAhead
<1>9. BindSparse' = BindSparse /\ Helpers' = Helpers /\ Free(markers)' = Free(markers) /\ Clean' = Clean
  <2>1. config' = config /\ markers' = markers /\ helper_submit_infos_' = helper_submit_infos_
    BY <1>1
  <2>2. QED BY <2>1, ConfigFixed DEF Helpers, Free, Clean
<1>10. Null \notin Words BY <1>5
<1>11. /\ \A u \in Threads : /\ finished[u] \in Nat /\ finished'[u] \in Nat
                             /\ \A k \in 1 .. finished[u] : k \in 1 .. finished'[u] /\ k \in 1 .. Len(All(u))
                             /\ \A k \in Nat : k > finished'[u] => k > finished[u]
                             /\ \A k \in Nat : k <= finished[u] => k <= finished'[u]
                             /\ \A k \in Nat : k <= finished'[u] => k <= finished[u] \/ (u = t /\ k = n)
       /\ n \in 1 .. finished'[t] /\ n <= finished'[t]
  <2>1. finished'[t] = n /\ \A u \in Threads \ {t} : finished'[u] = finished[u]
    BY <1>2, <1>4
  <2>2. \A u \in Threads : finished[u] \in Nat /\ Len(All(u)) \in Nat /\ finished[u] <= Len(All(u))
    BY AllTyped, CountsTyped DEF Basics
  <2>3. QED BY <1>3, <2>1, <2>2
<1>12. \A u \in Threads : \A k \in 1 .. Len(All(u)) : k \in Nat
  BY ElementsTyped DEF Basics
<1>13. ASSUME NEW id \in DOMAIN submit_infos_
       PROVE  /\ submit_infos_[id].top_marker \in Words /\ submit_infos_[id].bottom_marker \in Words
              /\ submit_infos_[id].bottom_marker = c.bottom => submit_infos_[id].cbs = c.cbs
              /\ submit_infos_[id].top_marker # c.bottom
              /\ submit_infos_[id].cbs = c.cbs => c.bottom = submit_infos_[id].bottom_marker
  BY <1>3, GPUFinishIs
<1>14. \A id \in DOMAIN submit_infos_ : word'[submit_infos_[id].top_marker] = word[submit_infos_[id].top_marker]
  BY <1>7, <1>13
<1>15. \A u \in Threads : \A k \in 1 .. Len(All(u)) : All(u)[k].cbs = c.cbs => u = t /\ k = n
  BY <1>4 DEF Structure, BuffersApart
<1>16. HelpersTrue'
  <2>1. SUFFICES ASSUME NEW h \in Helpers, word'[h.marker] = kFinished, NEW u \in Threads,
                        NEW k \in 1 .. Len(All(u)), All(u)[k].cbs = h.cbs
        PROVE  k <= finished'[u]
    BY <1>1, <1>9 DEF HelpersTrue, HelperFinished
  <2>2. h.marker \in Words BY HelpersTyped DEF Basics
  <2>3. CASE h.marker = c.bottom
    <3>1. c.cbs = h.cbs
      BY <1>4, <1>8, <1>10, <2>2, <2>3 DEF Structure, HelpersApart
    <3>2. QED BY <1>11, <1>15, <2>1, <3>1
  <2>4. CASE h.marker # c.bottom
    <3>1. word[h.marker] = kFinished BY <1>7, <2>1, <2>2, <2>4
    <3>2. k <= finished[u] BY <2>1, <3>1 DEF Values, HelpersTrue, HelperFinished
    <3>3. QED BY <1>11, <1>12, <3>2
  <2>5. QED BY <2>3, <2>4
<1>17. FinishedIsWritten'
  <2>1. SUFFICES ASSUME NEW id \in DOMAIN submit_infos_, NEW u \in Threads, NEW k \in 1 .. Len(All(u)),
                        submit_infos_[id].cbs = All(u)[k].cbs, k <= finished'[u]
        PROVE  word'[submit_infos_[id].bottom_marker] = kFinished
    BY <1>1 DEF FinishedIsWritten
  <2>2. CASE k <= finished[u]
    <3>1. word[submit_infos_[id].bottom_marker] = kFinished
      BY <2>1, <2>2 DEF Values, FinishedIsWritten
    <3>2. QED BY <1>7, <1>13, <3>1
  <2>3. CASE u = t /\ k = n
    <3>1. submit_infos_[id].cbs = c.cbs BY <1>4, <2>1, <2>3
    <3>2. QED BY <1>7, <1>13, <3>1
  <2>4. QED BY <1>11, <1>12, <2>1, <2>2, <2>3
<1>18. ASSUME ~BindSparse
       PROVE  (FreeIsClean /\ FinishedIsTrue /\ TopIsTrue /\ AheadIsTracked /\ AheadIsNotFreed)'
  <2>1. FreeIsClean /\ FinishedIsTrue /\ TopIsTrue /\ AheadIsTracked /\ AheadIsNotFreed
    BY <1>18 DEF Values, WordsTrue
  <2>2. FreeIsClean'
    <3>1. Free(markers) \subseteq Words
      BY FreeIsWords, RoomIsNat DEF Basics, Typed
    <3>2. c.bottom \notin Free(markers)
      BY <1>4, <1>5, <1>8, <1>10, <3>1 DEF Structure, WritesHeld
    <3>3. QED BY <1>7, <1>9, <2>1, <3>1, <3>2 DEF FreeIsClean
  <2>3. FinishedIsTrue'
    <3>1. SUFFICES ASSUME NEW id \in DOMAIN submit_infos_, word'[submit_infos_[id].bottom_marker] = kFinished
          PROVE  \E u \in Threads : \E k \in 1 .. finished'[u] : submit_infos_[id].cbs = All(u)[k].cbs
      BY <1>1 DEF FinishedIsTrue
    <3>2. CASE submit_infos_[id].bottom_marker = c.bottom
      <4>1. submit_infos_[id].cbs = All(t)[n].cbs BY <1>4, <1>13, <3>2
      <4>2. QED BY <1>11, <4>1
    <3>3. CASE submit_infos_[id].bottom_marker # c.bottom
      <4>1. word[submit_infos_[id].bottom_marker] = kFinished
        BY <1>7, <1>13, <3>1, <3>3
      <4>2. PICK u \in Threads : \E k \in 1 .. finished[u] : submit_infos_[id].cbs = All(u)[k].cbs
        BY <2>1, <4>1 DEF FinishedIsTrue
      <4>3. QED BY <1>11, <4>2
    <3>4. QED BY <3>2, <3>3
  <2>4. TopIsTrue' BY <1>1, <1>2, <1>9, <1>14, <2>1 DEF TopIsTrue
  <2>5. AheadIsTracked' BY <1>1, <1>11, <1>12, <2>1 DEF AheadIsTracked
  <2>6. AheadIsNotFreed' BY <1>1, <1>11, <1>12, <2>1 DEF AheadIsNotFreed
  <2>7. QED BY <2>2, <2>3, <2>4, <2>5, <2>6
<1>19. QED BY <1>9, <1>16, <1>17, <1>18 DEF Values, WordsTrue

-----------------------------------------------------------------------------
(* The inductive invariant.                                                *)

\* The three parts of the invariant.
LEMMA Parts == IInv <=> Basics /\ Structure /\ Values
BY DEF IInv, Basics, Structure, Values

\* The invariant holds of the initial states.
LEMMA InitInv == Init => IInv
<1> SUFFICES ASSUME Init PROVE IInv OBVIOUS
<1>1. /\ config \in Configs /\ word = [w \in Words |-> kInvalid]
      /\ markers = [recycled |-> <<>>, next |-> 1]
      /\ submit_info_counter = 0 /\ queue_submit_index_ = 0 /\ allocated = 0
      /\ submit_infos_ = <<>> /\ queue_submits_ = <<>> /\ helper_submit_infos_ = <<>>
      /\ call = [t \in Threads |-> Idle] /\ freed = {}
      /\ queue = [t \in Threads |-> <<>>]
      /\ started = [t \in Threads |-> 0] /\ finished = [t \in Threads |-> 0]
  BY DEF Init
<1>2. MaxWords \in Nat BY <1>1, ConfigAssumption DEF MaxWords
<1>3. DOMAIN submit_infos_ = {} /\ DOMAIN queue_submits_ = {} BY <1>1
<1>4. \A t \in Threads : call[t] = Idle /\ queue[t] = <<>> /\ All(t) = <<>> /\ Len(All(t)) = 0
  BY <1>1 DEF All, Idle
<1>5. Helpers = {} BY <1>1 DEF Helpers, ToSet
<1>6. /\ Idle.pc = "idle" /\ Idle.cbs = Null /\ Idle.id = Invalid
      /\ Idle \in Calls
  BY BoundAssumption DEF Idle, Calls, Pcs, Invalid, Null
<1>7. Typed
  <2>1. markers \in MarkerStates BY <1>1, <1>2 DEF MarkerStates
  <2>2. word \in [Words -> 0 .. CommandBufferValue]
    BY <1>1 DEF kInvalid, CommandBufferValue
  <2>3. call \in [Threads -> Calls] BY <1>1, <1>6
  <2>4. helper_submit_infos_ \in Seq([marker : Words, cbs : Ids]) BY <1>1
  <2>5. queue \in [Threads -> Seq(Elements)] BY <1>1
  <2>6. allocated \in 0 .. MaxBuffers /\ submit_info_counter \in 0 .. allocated /\ freed \subseteq 1 .. allocated
    BY <1>1, BoundAssumption
  <2>7. \A t \in Threads : finished[t] <= started[t] /\ started[t] <= Len(queue[t])
    BY <1>1
  <2>8. started \in [Threads -> Nat] /\ finished \in [Threads -> Nat] BY <1>1
  <2>9. QED
    BY <1>1, <1>3, <2>1, <2>2, <2>3, <2>4, <2>5, <2>6, <2>7, <2>8 DEF Typed
<1>8. FreeApart(markers) BY <1>1 DEF FreeApart
<1>9. CallsSound /\ IdsApart BY <1>4, <1>6 DEF CallsSound, IdsApart, InStep
<1>10. RegistriesAgree BY <1>3 DEF RegistriesAgree
<1>11. BuffersApart BY <1>4, <1>6 DEF BuffersApart
<1>12. WritesApart /\ WritesHeld BY <1>4 DEF WritesApart, WritesHeld
<1>13. InfosApart /\ InfosWritten /\ InfosRecorded /\ NoneIsLost
  BY <1>3 DEF InfosApart, InfosWritten, InfosRecorded, NoneIsLost
<1>14. HelpersApart BY <1>1, <1>5 DEF HelpersApart, Once
<1>15. HelpersTrue /\ FinishedIsWritten
  BY <1>3, <1>5 DEF HelpersTrue, FinishedIsWritten
<1>16. WordsTrue
  <2>1. FreeIsClean
    <3>1. Free(markers) \subseteq Words BY <1>2, <1>7, FreeIsWords DEF Typed
    <3>2. QED BY <1>1, <3>1 DEF FreeIsClean, Clean
  <2>2. FinishedIsTrue /\ TopIsTrue BY <1>3 DEF FinishedIsTrue, TopIsTrue
  <2>3. AheadIsTracked /\ AheadIsNotFreed
    BY <1>1, <1>4 DEF AheadIsTracked, AheadIsNotFreed
  <2>4. QED BY <2>1, <2>2, <2>3 DEF WordsTrue
<1>17. QED
  BY <1>7, <1>8, <1>9, <1>10, <1>11, <1>12, <1>13, <1>14, <1>15, <1>16 DEF IInv

\* Every step keeps the invariant: one case for each kind of action.
LEMMA StepInv == IInv /\ [Next]_vars => IInv'
<1> SUFFICES ASSUME Basics, Structure, Values, [Next]_vars PROVE Basics' /\ Structure' /\ Values'
  BY Parts, PTL
<1>1. ASSUME Narrows PROVE Structure'
  BY <1>1, NarrowsStructure DEF Basics
<1>2. CASE UNCHANGED vars
  <2>1. /\ config' = config /\ word' = word /\ markers' = markers
        /\ submit_info_counter' = submit_info_counter /\ submit_infos_' = submit_infos_
        /\ queue_submits_' = queue_submits_ /\ queue_submit_index_' = queue_submit_index_
        /\ helper_submit_infos_' = helper_submit_infos_ /\ call' = call /\ allocated' = allocated
        /\ freed' = freed /\ queue' = queue /\ started' = started /\ finished' = finished
    BY <1>2 DEF vars, tracker, gpu
  <2>2. Basics'
    BY <2>1, ConfigFixed DEF Basics, Typed, FreeApart, CallsSound, IdsApart,
       RegistriesAgree
  <2>3. \A t \in Threads : /\ started[t] \in Nat /\ finished[t] \in Nat
                           /\ started[t] <= started[t] /\ finished[t] <= finished[t]
    BY CountsTyped DEF Basics
  <2>4. Free(markers)' = Free(markers) BY <2>1, ConfigFixed DEF Free
  <2>5. Narrows BY <2>1, <2>2, <2>3, <2>4, NarrowsQuietly DEF Basics
  <2>6. Values' BY <2>1, <2>2, <2>5, NarrowsValues DEF Basics
  <2>7. QED BY <1>1, <2>2, <2>5, <2>6
<1>3. CASE config' = config /\ CommandBufferReturns
  BY <1>1, <1>3, ReturnsSteps, ReturnsValues
<1>4. ASSUME NEW t \in Threads, config' = config,
             \/ \E count \in 1 .. MaxCount : SubmitBegins(t, count) \/ BindBegins(t, count)
             \/ AllocateFails(t) \/ QueueSubmit(t) \/ SendHelper(t) \/ RegisterFails(t)
      PROVE  Basics' /\ Structure' /\ Values'
  <2>1. Basics' /\ Narrows /\ UNCHANGED <<word, freed, started, finished, submit_infos_>>
    BY <1>4, BeginSteps, SendSteps, RegisterFailsSteps
  <2>2. Values' BY <2>1, NarrowsValues DEF Basics
  <2>3. QED BY <1>1, <2>1, <2>2
<1>5. ASSUME NEW t \in Threads, config' = config, Register(t) PROVE Basics' /\ Structure' /\ Values'
  <2>1. /\ Basics' /\ Narrows /\ UNCHANGED <<word, freed, started, finished>>
        /\ \A id \in DOMAIN submit_infos_ :
             id \in DOMAIN submit_infos_' /\ submit_infos_'[id] = submit_infos_[id]
    BY <1>5, RegisterSteps
  <2>2. Values' BY <2>1, NarrowsValues DEF Basics
  <2>3. QED BY <1>1, <2>1, <2>2
<1>6. ASSUME NEW t \in Threads, config' = config, Store(t) PROVE Basics' /\ Structure' /\ Values'
  BY <1>6, StoreSteps, StoreStructure, StoreValues DEF Structure
<1>7. ASSUME NEW t \in Threads, config' = config, RecordSubmitStart(t) PROVE Basics' /\ Structure' /\ Values'
  BY <1>7, RecordStartSteps, RecordsStructure, RecordStartValues
<1>8. ASSUME NEW t \in Threads, config' = config, RecordSubmitFinish(t) PROVE Basics' /\ Structure' /\ Values'
  BY <1>8, RecordFinishSteps, RecordsStructure, RecordFinishValues
<1>9. ASSUME NEW t \in Threads, config' = config, RecordBindSparseHelperSubmit(t)
      PROVE  Basics' /\ Structure' /\ Values'
  <2>1. Basics' BY <1>9, BindSteps DEF Structure
  <2>2. PICK w \in Words \cup {Null} : Binds(t, w)
    BY <1>9, BindSteps DEF Structure
  <2>3. Structure' BY <1>9, <2>1, <2>2, BindStructure DEF Values, Basics
  <2>4. Values' BY <1>9, <2>2, BindValues
  <2>5. QED BY <2>1, <2>3, <2>4
<1>10. ASSUME NEW t \in Threads, config' = config, GPUStart(t) \/ GPUFinish(t)
       PROVE  Basics' /\ Structure' /\ Values'
  BY <1>1, <1>10, GPUSteps, GPUStartValues, GPUFinishValues
<1>11. QED BY <1>2, <1>3, <1>4, <1>5, <1>6, <1>7, <1>8, <1>9, <1>10 DEF Next

\* The invariant holds throughout: of the helper buffers, the marker words, the
\* registries and the calls of SubmitTracker.
THEOREM Invariant == Spec => []IInv
BY InitInv, StepInv, PTL DEF Spec

-----------------------------------------------------------------------------
(* What the invariant shows.                                               *)

\* The type invariant follows from the one that is proved.
LEMMA TypedIsTypeOK == Typed => TypeOK
<1> SUFFICES ASSUME Typed PROVE TypeOK OBVIOUS
<1>1. /\ config \in Configs /\ word \in [Words -> 0 .. CommandBufferValue]
      /\ queue_submit_index_ \in Nat
      /\ \A id \in DOMAIN submit_infos_ : submit_infos_[id] \in SubmitInfo
      /\ \A q \in DOMAIN queue_submits_ : queue_submits_[q] \in Seq(Ids)
      /\ helper_submit_infos_ \in Seq([marker : Words, cbs : Ids])
      /\ allocated \in 0 .. MaxBuffers /\ freed \subseteq 1 .. allocated
      /\ \A t \in Threads : finished[t] <= started[t] /\ started[t] <= Len(queue[t])
  BY DEF Typed
<1>2. markers \in [recycled : Seq(Words), next : 1 .. MaxWords + 1]
  BY DEF Typed, MarkerStates
<1>3. \A t \in Threads : call[t].left \in 0 .. MaxCount BY CallIs
<1>4. submit_info_counter \in 0 .. MaxBuffers /\ DOMAIN submit_infos_ \subseteq Ids
  BY BoundAssumption DEF Typed, Ids
<1>5. QED BY <1>1, <1>2, <1>3, <1>4 DEF TypeOK

\* A buffer in use is ahead of the GPU, or in the hands of a call.
LEMMA InUseIs ==
  ASSUME Typed, NEW x
  PROVE  x \in InUse <=> \E t \in Threads :
           \/ call[t].cbs = x
           \/ \E k \in 1 .. Len(All(t)) : k > finished[t] /\ All(t)[k].cbs = x
<1>1. x \in InUse <=> \E t \in Threads :
        call[t].cbs = x \/ \E e \in InFlight(t) \cup ToSet(call[t].batch) : e.cbs = x
  BY DEF InUse
<1>2. ASSUME NEW t \in Threads
      PROVE  (\E e \in InFlight(t) \cup ToSet(call[t].batch) : e.cbs = x)
               <=> \E k \in 1 .. Len(All(t)) : k > finished[t] /\ All(t)[k].cbs = x
  <2>1. PICK f, m, n, l : f = finished[t] /\ m = Len(queue[t]) /\ n = Len(call[t].batch) /\ l = Len(All(t))
    OBVIOUS
  <2>2. f \in Nat /\ m \in Nat /\ n \in Nat /\ l = m + n /\ f <= m
    <3>1. f \in Nat /\ f <= started[t] /\ started[t] <= m /\ started[t] \in Nat
      BY <2>1, CountsTyped
    <3>2. m \in Nat /\ n \in Nat /\ l = m + n BY <2>1, AllTyped
    <3>3. QED BY <3>1, <3>2
  <2>3. /\ \A k \in 1 .. m : All(t)[k] = queue[t][k]
        /\ \A k \in 1 .. n : All(t)[m + k] = call[t].batch[k]
    BY <2>1, AllTyped
  <2>4. /\ InFlight(t) = {queue[t][k] : k \in f + 1 .. m}
        /\ ToSet(call[t].batch) = {call[t].batch[k] : k \in 1 .. n}
    BY <2>1, AllTyped DEF InFlight, ToSet
  <2>5. ASSUME NEW e \in InFlight(t) \cup ToSet(call[t].batch)
        PROVE  \E k \in 1 .. l : k > f /\ All(t)[k] = e
    <3>1. CASE e \in InFlight(t)
      <4>1. PICK k \in f + 1 .. m : e = queue[t][k] BY <2>4, <3>1
      <4>2. k \in 1 .. m /\ k \in 1 .. l /\ k > f BY ONLY <2>2, k \in f + 1 .. m
      <4>3. QED BY <2>3, <4>1, <4>2
    <3>2. CASE e \in ToSet(call[t].batch)
      <4>1. PICK k \in 1 .. n : e = call[t].batch[k] BY <2>4, <3>2
      <4>2. m + k \in 1 .. l /\ m + k > f BY ONLY <2>2, k \in 1 .. n
      <4>3. QED BY <2>3, <4>1, <4>2
    <3>3. QED BY <3>1, <3>2
  <2>6. ASSUME NEW k \in 1 .. l, k > f PROVE All(t)[k] \in InFlight(t) \cup ToSet(call[t].batch)
    <3>1. CASE k <= m
      <4>1. k \in 1 .. m /\ k \in f + 1 .. m
        BY ONLY <2>2, k \in 1 .. l, k > f, <3>1
      <4>2. QED BY <2>3, <2>4, <4>1
    <3>2. CASE ~(k <= m)
      <4>1. PICK j : j = k - m OBVIOUS
      <4>2. j \in 1 .. n /\ m + j = k BY ONLY <2>2, k \in 1 .. l, <3>2, <4>1
      <4>3. QED BY <2>3, <2>4, <4>2
    <3>3. QED BY <3>1, <3>2
  <2>7. QED BY <2>1, <2>5, <2>6
<1>3. QED BY <1>1, <1>2

\* Every buffer that is in use has not been freed.
LEMMA InvariantKeepsBuffers == IInv => BuffersOutliveSubmit
<1> SUFFICES ASSUME IInv PROVE BuffersOutliveSubmit OBVIOUS
<1>1. Typed BY DEF IInv
<1>2. ASSUME ~BindSparse, NEW x \in InUse PROVE x \notin freed
  <2>1. AheadIsNotFreed BY <1>2 DEF IInv, WordsTrue
  <2>2. QED BY <1>1, <1>2, <2>1, InUseIs DEF AheadIsNotFreed
<1>3. ASSUME NEW h \in Helpers, HelperFinished(h) PROVE h.cbs \notin InUse
  <2>1. \A t \in Threads : \A k \in 1 .. Len(All(t)) : All(t)[k].cbs = h.cbs => k <= finished[t]
    BY <1>3 DEF IInv, HelpersTrue
  <2>2. \A t \in Threads : call[t].cbs # h.cbs BY DEF IInv, HelpersApart
  <2>3. \A t \in Threads : \A k \in 1 .. Len(All(t)) :
          k \in Nat /\ finished[t] \in Nat
    BY <1>1, CountsTyped, ElementsTyped
  <2>4. QED BY <1>1, <2>1, <2>2, <2>3, InUseIs
<1>4. QED
  BY <1>2, <1>3 DEF BuffersOutliveSubmit, BuffersOutliveUnsharedSubmit,
     HelperBuffersOutliveSubmit,
                    BindSparseBuffersOutliveSubmit, Helpers

\* What the dump lists and prints of an entry.
LEMMA ListedIs ==
  ASSUME RegistriesAgree, NEW id
  PROVE  id \in Listed <=> /\ id \in DOMAIN submit_infos_
                           /\ word[submit_infos_[id].bottom_marker] # kFinished
                           /\ word[submit_infos_[id].top_marker] # kFinished
BY DEF Listed, RegistriesAgree

\* The dump lists what is in flight, with its state, and nothing else.
LEMMA InvariantListsExactly == IInv => WaitingListIsExact
<1> SUFFICES ASSUME IInv PROVE WaitingListIsExact OBVIOUS
<1>1. Typed /\ RegistriesAgree /\ Basics /\ Structure /\ Values
  BY Parts DEF Basics
<1>2. InFlightIsListed
  <2>1. SUFFICES ASSUME ~BindSparse, NEW t \in Threads, NEW k \in finished[t] + 1 .. Len(queue[t]),
                        queue[t][k].top # Null
        PROVE  \E id \in Listed :
                 /\ submit_infos_[id].cbs = queue[t][k].cbs
                 /\ StateReport(id) = IF k <= started[t] THEN "STARTED,INCOMPLETE" ELSE "QUEUED"
    BY DEF InFlightIsListed
  <2>2. FinishedIsTrue /\ TopIsTrue /\ AheadIsTracked
    BY <1>1, <2>1 DEF Values, WordsTrue
  <2>3. k \in 1 .. Len(All(t)) /\ k > finished[t] /\ All(t)[k] = queue[t][k]
    <3>1. PICK f, m, n, l : f = finished[t] /\ m = Len(queue[t]) /\ n = Len(call[t].batch) /\ l = Len(All(t))
      OBVIOUS
    <3>2. f \in Nat /\ m \in Nat /\ n \in Nat /\ l = m + n /\ k \in f + 1 .. m
      BY <1>1, <3>1, AllTyped, CountsTyped
    <3>3. k \in 1 .. m /\ k \in 1 .. l /\ k > f BY ONLY <3>2
    <3>4. QED BY <1>1, <3>1, <3>3, AllTyped
  <2>4. PICK id \in DOMAIN submit_infos_ : submit_infos_[id].cbs = All(t)[k].cbs
    BY <2>1, <2>2, <2>3 DEF AheadIsTracked
  <2>5. word[submit_infos_[id].bottom_marker] # kFinished
    <3>1. id \notin Finished BY <1>1, <2>2, <2>3, <2>4, FinishedIsBehind
    <3>2. QED BY <3>1 DEF Finished
  <2>6. word[submit_infos_[id].top_marker] = IF k <= started[t] THEN kRunning ELSE kQueued
    BY <2>1, <2>2, <2>3, <2>4 DEF TopIsTrue
  <2>7. id \in Listed
    BY <1>1, <2>5, <2>6, ListedIs DEF kRunning, kQueued, kFinished
  <2>8. StateReport(id) = IF k <= started[t] THEN "STARTED,INCOMPLETE" ELSE "QUEUED"
    <3>1. CASE k <= started[t]
      <4>1. word[submit_infos_[id].top_marker] = kRunning BY <2>6, <3>1
      <4>2. QED BY <3>1, <4>1 DEF StateReport, kRunning, kQueued
    <3>2. CASE ~(k <= started[t])
      <4>1. word[submit_infos_[id].top_marker] = kQueued /\ kQueued # kRunning
        BY <2>6, <3>2 DEF kQueued, kRunning
      <4>2. QED BY <3>2, <4>1 DEF StateReport, kRunning, kQueued
    <3>3. QED BY <3>1, <3>2
  <2>9. QED BY <2>3, <2>4, <2>7, <2>8
<1>3. ListedIsInFlight
  <2>1. SUFFICES ASSUME Failures = {}, NEW id \in Listed, submit_infos_[id].cbs # Null
        PROVE  submit_infos_[id].cbs \in InUse
    BY DEF ListedIsInFlight
  <2>2. id \in DOMAIN submit_infos_ /\ word[submit_infos_[id].bottom_marker] # kFinished
    BY <1>1, <2>1, ListedIs
  <2>3. PICK t \in Threads : \E k \in 1 .. Len(All(t)) : submit_infos_[id].cbs = All(t)[k].cbs
    BY <2>1, <2>2 DEF IInv, NoneIsLost
  <2>4. PICK k \in 1 .. Len(All(t)) : submit_infos_[id].cbs = All(t)[k].cbs
    BY <2>3
  <2>5. ~(k <= finished[t]) BY <1>1, <2>2, <2>4 DEF Values, FinishedIsWritten
  <2>6. k > finished[t] BY <1>1, <2>5, CountsTyped, ElementsTyped
  <2>7. QED BY <1>1, <2>4, <2>6, InUseIs
<1>4. QED BY <1>2, <1>3 DEF WaitingListIsExact

\* The state of SubmitTracker stays within its types: no marker word, submit id
\* or helper buffer is ever outside the range that the code allocates from.
THEOREM TypeCorrect == Spec => []TypeOK
<1>1. IInv => TypeOK BY TypedIsTypeOK DEF IInv
<1>2. QED BY Invariant, <1>1, PTL

\* queue_submits_ names exactly the submits of submit_infos_, each once, after
\* every registration and every cleanup of any thread, so DumpWaitingSubmits
\* never indexes a submit that is gone.
THEOREM RegistriesCorrect == Spec => []RegistriesAgree
<1>1. IInv => RegistriesAgree BY DEF IInv
<1>2. QED BY Invariant, <1>1, PTL

\* A cleanup frees no helper buffer that the GPU may still execute or a call
\* will submit: for vkQueueBindSparse always, for vkQueueSubmit where no sparse
\* bind recycles its words, although the word that it reads had other owners.
THEOREM BuffersOutlive == Spec => []BuffersOutliveSubmit
BY Invariant, InvariantKeepsBuffers, PTL

\* DumpWaitingSubmits lists every tracked submit that the GPU has not finished,
\* as started exactly when it is, and without driver failures nothing else.
THEOREM WaitingListExact == Spec => []WaitingListIsExact
BY Invariant, InvariantListsExactly, PTL

-----------------------------------------------------------------------------
(* The refinement of SubmissionReport.                                     *)

\* ReportedStage, read off the words.
StageOf(id) ==
  IF BindSparse \/ id \notin DOMAIN submit_infos_ THEN "unsubmitted"
  ELSE IF word[submit_infos_[id].bottom_marker] = kFinished
    THEN IF word[submit_infos_[id].top_marker] = kRunning THEN "completed" ELSE "unsubmitted"
  ELSE IF word[submit_infos_[id].top_marker] = kQueued THEN "notStarted"
  ELSE IF word[submit_infos_[id].top_marker] = kRunning THEN "incomplete"
  ELSE "unsubmitted"

\* ReportedStage is StageOf of every id.
StagesAreReported == ReportedStage = [id \in Ids |-> StageOf(id)]

\* The dump's lists and texts, in terms of the words.
LEMMA StageIsReported == Basics => StagesAreReported
<1> SUFFICES ASSUME Basics PROVE StagesAreReported OBVIOUS
<1>1. ASSUME NEW id \in Ids PROVE ReportedStage[id] = StageOf(id)
  <2> DEFINE listed == id \in Listed
             finish == id \in Finished
             state == StateReport(id)
             top == word[submit_infos_[id].top_marker]
             bottom == word[submit_infos_[id].bottom_marker]
             known == id \in DOMAIN submit_infos_
  <2>1. listed <=> known /\ bottom # kFinished /\ top # kFinished
    BY ListedIs DEF Basics
  <2>2. finish <=> known /\ bottom = kFinished BY DEF Finished
  <2>3. /\ state = "QUEUED" <=> top = kQueued
        /\ state = "STARTED,INCOMPLETE" <=> top = kRunning
    <3> HIDE DEF top
    <3>1. CASE top = kRunning
      <4>1. state = "STARTED,INCOMPLETE"
        BY <3>1 DEF StateReport, top, kRunning, kQueued
      <4>2. top # kQueued BY <3>1 DEF kRunning, kQueued
      <4>3. QED BY <3>1, <4>1, <4>2
    <3>2. CASE top = kQueued
      <4>1. state = "QUEUED" BY <3>2 DEF StateReport, top, kRunning, kQueued
      <4>2. top # kRunning BY <3>2 DEF kRunning, kQueued
      <4>3. QED BY <3>2, <4>1, <4>2
    <3>3. CASE top # kRunning /\ top # kQueued
      <4>1. state = "" BY <3>3 DEF StateReport, top
      <4>2. QED BY <3>3, <4>1
    <3>4. QED BY <3>1, <3>2, <3>3
  <2>4. ReportedStage[id] =
          IF BindSparse THEN "unsubmitted"
          ELSE CASE listed /\ state = "QUEUED"             -> "notStarted"
                 [] listed /\ state = "STARTED,INCOMPLETE" -> "incomplete"
                 [] finish /\ top = kRunning               -> "completed"
                 [] OTHER                                  -> "unsubmitted"
    BY DEF ReportedStage
  <2>5. StageOf(id) =
          IF BindSparse \/ ~known THEN "unsubmitted"
          ELSE IF bottom = kFinished THEN IF top = kRunning THEN "completed" ELSE "unsubmitted"
          ELSE IF top = kQueued THEN "notStarted" ELSE IF top = kRunning THEN "incomplete" ELSE "unsubmitted"
    BY DEF StageOf
  <2> HIDE DEF listed, finish, state, top, bottom, known
  <2>6. CASE BindSparse BY <2>4, <2>5, <2>6
  <2>7. CASE ~BindSparse /\ ~known
    <3>1. ~listed /\ ~finish BY <2>1, <2>2, <2>7
    <3>2. QED BY <2>4, <2>5, <2>7, <3>1
  <2>8. CASE ~BindSparse /\ known /\ bottom = kFinished
    <3>1. ~listed /\ finish BY <2>1, <2>2, <2>8
    <3>2. QED BY <2>4, <2>5, <2>8, <3>1
  <2>9. CASE ~BindSparse /\ known /\ bottom # kFinished
    <3>1. ~finish /\ (top # kFinished => listed) BY <2>1, <2>2, <2>9
    <3>2. CASE top = kQueued
      <4>1. listed /\ state = "QUEUED" /\ state # "STARTED,INCOMPLETE"
        <5>1. top # kFinished BY <3>2 DEF kQueued, kFinished
        <5>2. state = "QUEUED" BY <2>3, <3>2
        <5>3. QED BY <3>1, <5>1, <5>2
      <4>2. StageOf(id) = "notStarted" BY <2>5, <2>9, <3>2
      <4>3. ReportedStage[id] = "notStarted" BY <2>4, <2>9, <3>1, <4>1
      <4>4. QED BY <4>2, <4>3
    <3>3. CASE top = kRunning
      <4>1. listed /\ state = "STARTED,INCOMPLETE" /\ state # "QUEUED"
        <5>1. top # kFinished /\ top # kQueued
          BY <3>3 DEF kRunning, kFinished, kQueued
        <5>2. state = "STARTED,INCOMPLETE" BY <2>3, <3>3
        <5>3. QED BY <3>1, <5>1, <5>2
      <4>2. top # kQueued BY <3>3 DEF kRunning, kQueued
      <4>3. StageOf(id) = "incomplete" BY <2>5, <2>9, <3>3, <4>2
      <4>4. ReportedStage[id] = "incomplete" BY <2>4, <2>9, <3>1, <4>1
      <4>5. QED BY <4>3, <4>4
    <3>4. CASE top # kQueued /\ top # kRunning
      <4>1. state # "QUEUED" /\ state # "STARTED,INCOMPLETE" BY <2>3, <3>4
      <4>2. QED BY <2>4, <2>5, <2>9, <3>1, <3>4, <4>1
    <3>5. QED BY <3>2, <3>3, <3>4
  <2>10. QED BY <2>6, <2>7, <2>8, <2>9
<1>2. ReportedStage = [id \in Ids |-> ReportedStage[id]] BY DEF ReportedStage
<1>3. QED BY <1>1, <1>2 DEF StagesAreReported

\* What Forget allows for one submit: its stage stays or is forgotten.
Quiet(id) ==
  \/ StageOf(id)' = StageOf(id)
  \/ StageOf(id) \in {"unsubmitted", "completed"} /\ StageOf(id)' = "unsubmitted"

\* A step in which every submit is quiet is a Forget, of none or of those
\* erased.
LEMMA QuietIsForget ==
  ASSUME Basics, Basics', \A id \in Ids : Quiet(id)
  PROVE  Report!Next
<1>1. ReportedStage = [id \in Ids |-> StageOf(id)]
  BY StageIsReported DEF StagesAreReported
<1>2. ReportedStage' = [id \in Ids |-> StageOf(id)']
  <2>1. Basics' => StagesAreReported' BY StageIsReported, PTL
  <2>2. QED BY <2>1 DEF StagesAreReported
<1> DEFINE B == {id \in Ids : /\ StageOf(id) \in {"unsubmitted", "completed"}
                              /\ StageOf(id)' = "unsubmitted"}
<1>3. ReportedStage' = [id \in Ids |-> IF id \in B THEN "unsubmitted" ELSE ReportedStage[id]]
  BY <1>1, <1>2 DEF Quiet
<1>4. \A id \in B : ReportedStage[id] \in {"unsubmitted", "completed"} BY <1>1
<1>5. Report!Forget BY <1>3, <1>4 DEF Report!Forget
<1>6. QED BY <1>5 DEF Report!Next

\* A submit that moves, while the others stay.
MovesOn(id) ==
  /\ \A ie \in Ids \ {id} : StageOf(ie)' = StageOf(ie)
  /\ \/ StageOf(id) = "unsubmitted" /\ StageOf(id)' = "notStarted"
     \/ StageOf(id) = "notStarted" /\ StageOf(id)' = "incomplete"
     \/ StageOf(id) = "incomplete" /\ StageOf(id)' = "completed"

\* A step in which one submit moves is one of the abstract ones.
LEMMA MoveIsStep ==
  ASSUME Basics, Basics', NEW id \in Ids, MovesOn(id)
  PROVE  Report!Next
<1>1. ReportedStage = [ie \in Ids |-> StageOf(ie)]
  BY StageIsReported DEF StagesAreReported
<1>2. ReportedStage' = [ie \in Ids |-> StageOf(ie)']
  <2>1. Basics' => StagesAreReported' BY StageIsReported, PTL
  <2>2. QED BY <2>1 DEF StagesAreReported
<1>3. ReportedStage[id] = StageOf(id) BY <1>1
<1>4. ReportedStage' = [ReportedStage EXCEPT ![id] = StageOf(id)']
  BY <1>1, <1>2 DEF MovesOn
<1>5. Report!Submit(id) \/ Report!Start(id) \/ Report!Finish(id)
  BY <1>3, <1>4 DEF Report!Submit, Report!Start, Report!Finish, Report!Move,
     MovesOn
<1>6. QED BY <1>5 DEF Report!Next

\* The entry of a submit and its words stay as they are.
Untouched(id) ==
  /\ id \in DOMAIN submit_infos_' <=> id \in DOMAIN submit_infos_
  /\ id \in DOMAIN submit_infos_ =>
       /\ submit_infos_'[id].top_marker = submit_infos_[id].top_marker
       /\ submit_infos_'[id].bottom_marker = submit_infos_[id].bottom_marker
       /\ word'[submit_infos_[id].top_marker] = word[submit_infos_[id].top_marker]
       /\ word'[submit_infos_[id].bottom_marker] = word[submit_infos_[id].bottom_marker]

\* A submit that is untouched keeps its stage.
LEMMA UntouchedStays ==
  ASSUME config' = config, NEW id, Untouched(id)
  PROVE  StageOf(id)' = StageOf(id)
<1>1. BindSparse' = BindSparse BY ConfigFixed
<1>2. QED BY <1>1 DEF StageOf, Untouched, kFinished, kRunning, kQueued

\* A step that changes neither the words nor the registry touches no submit.
LEMMA SameWordsUntouched ==
  ASSUME word' = word, submit_infos_' = submit_infos_, NEW id
  PROVE  Untouched(id)
BY DEF Untouched

\* The words of an entry that a write misses.
LEMMA MissedUntouched ==
  ASSUME Basics, submit_infos_' = submit_infos_, NEW w, NEW id,
         \A x \in Words : x # w => word'[x] = word[x],
         id \in DOMAIN submit_infos_ => w \notin WordsOf(id)
  PROVE  Untouched(id)
<1>1. id \in DOMAIN submit_infos_ => submit_infos_[id].top_marker \in Words /\ submit_infos_[id].bottom_marker \in Words
  BY DEF Basics, Typed, SubmitInfo
<1>2. QED BY <1>1 DEF Untouched, WordsOf

\* What an entry of a submit whose start is being recorded reports.
LEMMA RecordStartMoves ==
  ASSUME Basics, Structure, Values, config' = config, ~BindSparse,
         NEW t \in Threads, RecordSubmitStart(t)
  PROVE  (\A id \in Ids : Quiet(id)) \/ \E id \in Ids : MovesOn(id)
<1>1. /\ submit_infos_' = submit_infos_ /\ call[t].pc = "start"
      /\ word' = IF Known(t) THEN [word EXCEPT ![submit_infos_[call[t].id].top_marker] = kQueued] ELSE word
  BY RecordStartSteps
<1>2. CASE ~Known(t)
  <2>1. word' = word BY <1>1, <1>2
  <2>2. QED BY <1>1, <2>1, SameWordsUntouched, UntouchedStays DEF Quiet
<1>3. CASE Known(t)
  <2>1. PICK id, top, l : id = call[t].id /\ top = submit_infos_[id].top_marker /\ l = Len(All(t)) OBVIOUS
  <2>2. id \in DOMAIN submit_infos_ /\ id \in Ids
    BY <1>3, <2>1, TypedIsTypeOK DEF Known, Basics, TypeOK
  <2>3. /\ top \in Words /\ submit_infos_[id].bottom_marker \in Words
        /\ submit_infos_[id].cbs = call[t].cbs /\ All(t)[l].top = Null
    BY <1>1, <1>3, <2>1, CurrentIs
  <2>4. l \in 1 .. Len(All(t)) /\ All(t)[l].cbs = call[t].cbs
    BY <1>1, <2>1, LastIsCurrent
  <2>5. word \in [Words -> 0 .. CommandBufferValue] /\ word' = [word EXCEPT ![top] = kQueued]
    BY <1>1, <1>3, <2>1 DEF Basics, Typed
  <2>6. word'[top] = kQueued /\ \A x \in Words : x # top => word'[x] = word[x]
    BY <2>3, <2>5
  <2>7. FinishedIsTrue /\ TopIsTrue BY DEF Values, WordsTrue
  <2>8. word[top] \in Clean BY <2>1, <2>2, <2>3, <2>4, <2>7 DEF TopIsTrue
  <2>9. word[submit_infos_[id].bottom_marker] # kFinished
    <3>1. id \notin Finished BY <2>3, <2>7, FinishedIsBehind
    <3>2. QED BY <2>2, <3>1 DEF Finished
  <2>10. StageOf(id) = "unsubmitted"
    <3>1. word[top] # kQueued /\ word[top] # kRunning
      BY <2>8 DEF Clean, kInvalid, CommandBufferValue, kQueued, kRunning
    <3>2. QED BY <2>1, <2>2, <2>9, <3>1 DEF StageOf
  <2>11. StageOf(id)' = "notStarted"
    <3>1. submit_infos_[id].bottom_marker # top
      BY <2>1, <2>2 DEF Structure, InfosApart
    <3>2. word'[submit_infos_[id].bottom_marker] # kFinished
      BY <2>3, <2>6, <2>9, <3>1
    <3>3. ~BindSparse' BY ConfigFixed
    <3>4. QED
      BY <1>1, <2>1, <2>2, <2>6, <3>2, <3>3 DEF StageOf, kFinished, kQueued
  <2>12. ASSUME NEW ie \in Ids \ {id} PROVE StageOf(ie)' = StageOf(ie)
    <3>1. ie \in DOMAIN submit_infos_ => top \notin WordsOf(ie)
      BY <2>1, <2>2 DEF Structure, InfosApart, WordsOf
    <3>2. QED BY <1>1, <2>6, <3>1, MissedUntouched, UntouchedStays
  <2>13. QED BY <2>2, <2>10, <2>11, <2>12 DEF MovesOn
<1>4. QED BY <1>2, <1>3

\* The cleanup forgets submits that are completed.
LEMMA RecordFinishQuiet ==
  ASSUME Basics, Structure, config' = config, NEW t \in Threads, RecordSubmitFinish(t), NEW id
  PROVE  Quiet(id)
<1>1. /\ word' = word /\ DOMAIN submit_infos_' = DOMAIN submit_infos_ \ Finished
      /\ \A ie \in DOMAIN submit_infos_' : submit_infos_'[ie] = submit_infos_[ie]
  BY RecordFinishSteps
<1>2. CASE id \in Finished
  <2>1. StageOf(id) \in {"unsubmitted", "completed"}
    BY <1>2 DEF Finished, StageOf
  <2>2. StageOf(id)' = "unsubmitted" BY <1>1, <1>2 DEF StageOf
  <2>3. QED BY <2>1, <2>2 DEF Quiet
<1>3. CASE id \notin Finished
  <2>1. Untouched(id) BY <1>1, <1>3 DEF Untouched
  <2>2. QED BY <2>1, UntouchedStays DEF Quiet
<1>4. QED BY <1>2, <1>3

\* The GPU's start of a tracked submit takes it from not started to incomplete.
LEMMA GPUStartMoves ==
  ASSUME Basics, Structure, Values, config' = config, ~BindSparse,
         NEW t \in Threads, GPUStart(t)
  PROVE  (\A id \in Ids : Quiet(id)) \/ \E id \in Ids : MovesOn(id)
<1>1. submit_infos_' = submit_infos_ BY GPUSteps
<1>2. PICK n, c : n = started[t] + 1 /\ c = queue[t][n] OBVIOUS
<1>3. /\ n \in 1 .. Len(All(t)) /\ All(t)[n] = c /\ n > started[t] /\ n > finished[t]
      /\ c.top \in Words \cup {Null} /\ c.cbs # Null /\ Null \notin Words
      /\ \A x \in Words : word'[x] = IF x = c.top THEN kRunning ELSE word[x]
      /\ \A id \in DOMAIN submit_infos_ :
           /\ submit_infos_[id].top_marker \in Words /\ submit_infos_[id].bottom_marker \in Words
           /\ submit_infos_[id].bottom_marker # c.top
           /\ submit_infos_[id].cbs = c.cbs => c.top \in {Null, submit_infos_[id].top_marker}
  BY <1>2, GPUStartIs
<1>4. FinishedIsTrue /\ TopIsTrue /\ AheadIsTracked BY DEF Values, WordsTrue
<1>5. CASE c.top = Null
  <2>1. \A x \in Words : x # c.top => word'[x] = word[x] BY <1>3
  <2>2. \A id \in DOMAIN submit_infos_ : c.top \notin WordsOf(id)
    BY <1>3, <1>5 DEF WordsOf
  <2>3. QED BY <1>1, <2>1, <2>2, MissedUntouched, UntouchedStays DEF Quiet
<1>6. CASE c.top # Null
  <2>1. PICK id \in DOMAIN submit_infos_ : submit_infos_[id].cbs = c.cbs
    BY <1>3, <1>4, <1>6 DEF AheadIsTracked
  <2>2. id \in Ids BY TypedIsTypeOK DEF Basics, TypeOK
  <2>3. submit_infos_[id].top_marker = c.top BY <1>3, <1>6, <2>1
  <2>4. word[c.top] = kQueued
    <3>1. ~(n <= started[t]) BY <1>3, CountsTyped DEF Basics
    <3>2. QED BY <1>3, <1>4, <1>6, <2>1, <2>3, <3>1 DEF TopIsTrue
  <2>5. word[submit_infos_[id].bottom_marker] # kFinished
    <3>1. id \notin Finished BY <1>3, <1>4, <2>1, FinishedIsBehind
    <3>2. QED BY <3>1 DEF Finished
  <2>6. StageOf(id) = "notStarted" BY <2>3, <2>4, <2>5 DEF StageOf
  <2>7. StageOf(id)' = "incomplete"
    <3>1. word'[c.top] = kRunning /\ word'[submit_infos_[id].bottom_marker] # kFinished
      BY <1>3, <1>6, <2>5
    <3>2. ~BindSparse' BY ConfigFixed
    <3>3. QED
      BY <1>1, <2>3, <3>1, <3>2 DEF StageOf, kRunning, kFinished, kQueued
  <2>8. ASSUME NEW ie \in Ids \ {id} PROVE StageOf(ie)' = StageOf(ie)
    <3>1. ie \in DOMAIN submit_infos_ => c.top \notin WordsOf(ie)
      BY <2>3 DEF Structure, InfosApart, WordsOf
    <3>2. \A x \in Words : x # c.top => word'[x] = word[x] BY <1>3
    <3>3. QED BY <1>1, <3>1, <3>2, MissedUntouched, UntouchedStays
  <2>9. QED BY <2>2, <2>6, <2>7, <2>8 DEF MovesOn
<1>7. QED BY <1>5, <1>6

\* Its finish takes it from incomplete to completed.
LEMMA GPUFinishMoves ==
  ASSUME Basics, Structure, Values, config' = config, ~BindSparse,
         NEW t \in Threads, GPUFinish(t)
  PROVE  (\A id \in Ids : Quiet(id)) \/ \E id \in Ids : MovesOn(id)
<1>1. submit_infos_' = submit_infos_ BY GPUSteps
<1>2. PICK n, c : n = finished[t] + 1 /\ c = queue[t][n] OBVIOUS
<1>3. /\ n \in 1 .. Len(All(t)) /\ All(t)[n] = c /\ n > finished[t] /\ n <= started[t]
      /\ c.bottom \in Words \cup {Null} /\ c.cbs # Null /\ Null \notin Words
      /\ \A x \in Words : word'[x] = IF x = c.bottom THEN kFinished ELSE word[x]
      /\ \A id \in DOMAIN submit_infos_ :
           /\ submit_infos_[id].top_marker \in Words /\ submit_infos_[id].bottom_marker \in Words
           /\ submit_infos_[id].bottom_marker = c.bottom => submit_infos_[id].cbs = c.cbs
           /\ submit_infos_[id].top_marker # c.bottom
           /\ submit_infos_[id].cbs = c.cbs => /\ c.bottom = submit_infos_[id].bottom_marker
                                               /\ c.top = submit_infos_[id].top_marker
  BY <1>2, GPUFinishIs
<1>4. FinishedIsTrue /\ TopIsTrue BY DEF Values, WordsTrue
<1>5. \A x \in Words : x # c.bottom => word'[x] = word[x] BY <1>3
<1>6. CASE \A id \in DOMAIN submit_infos_ : submit_infos_[id].bottom_marker # c.bottom
  <2>1. \A id \in DOMAIN submit_infos_ : c.bottom \notin WordsOf(id)
    BY <1>3, <1>6 DEF WordsOf
  <2>2. QED BY <1>1, <1>5, <2>1, MissedUntouched, UntouchedStays DEF Quiet
<1>7. ASSUME NEW id \in DOMAIN submit_infos_, submit_infos_[id].bottom_marker = c.bottom
      PROVE  \E ie \in Ids : MovesOn(ie)
  <2>1. submit_infos_[id].cbs = c.cbs /\ c.top = submit_infos_[id].top_marker /\ c.top # Null
    BY <1>3, <1>7
  <2>2. id \in Ids BY TypedIsTypeOK DEF Basics, TypeOK
  <2>3. word[c.top] = kRunning BY <1>3, <1>4, <2>1 DEF TopIsTrue
  <2>4. word[c.bottom] # kFinished
    <3>1. id \notin Finished BY <1>3, <1>4, <2>1, FinishedIsBehind
    <3>2. QED BY <1>7, <3>1 DEF Finished
  <2>5. StageOf(id) = "incomplete"
    BY <1>7, <2>1, <2>3, <2>4 DEF StageOf, kQueued, kRunning, kFinished
  <2>6. StageOf(id)' = "completed"
    <3>1. word'[c.bottom] = kFinished /\ word'[c.top] = kRunning
      BY <1>3, <1>7, <2>1, <2>3
    <3>2. ~BindSparse' BY ConfigFixed
    <3>3. QED BY <1>1, <1>7, <2>1, <3>1, <3>2 DEF StageOf, kRunning, kFinished
  <2>7. ASSUME NEW ie \in Ids \ {id} PROVE StageOf(ie)' = StageOf(ie)
    <3>1. ie \in DOMAIN submit_infos_ => c.bottom \notin WordsOf(ie)
      BY <1>7 DEF Structure, InfosApart, WordsOf
    <3>2. QED BY <1>1, <1>5, <3>1, MissedUntouched, UntouchedStays
  <2>8. QED BY <2>2, <2>5, <2>6, <2>7 DEF MovesOn
<1>8. QED BY <1>6, <1>7

\* The words that a registered submit takes are clean.
LEMMA RegisterQuiet ==
  ASSUME Basics, Structure, Values, config' = config, ~BindSparse,
         NEW t \in Threads, Register(t), NEW id
  PROVE  Quiet(id)
<1>1. word' = word /\ \A ie \in DOMAIN submit_infos_ :
                        ie \in DOMAIN submit_infos_' /\ submit_infos_'[ie] = submit_infos_[ie]
  BY RegisterSteps
<1>2. CASE id \in DOMAIN submit_infos_
  <2>1. Untouched(id) BY <1>1, <1>2 DEF Untouched
  <2>2. QED BY <2>1, UntouchedStays DEF Quiet
<1>3. CASE id \notin DOMAIN submit_infos_
  <2>1. StageOf(id) = "unsubmitted" BY <1>3 DEF StageOf
  <2>2. StageOf(id)' = "unsubmitted"
    <3>1. CASE id \notin DOMAIN submit_infos_' BY <3>1 DEF StageOf
    <3>2. CASE id \in DOMAIN submit_infos_'
      <4>1. PICK a, b : a = Allocated(markers) /\ b = Allocated(Without(markers)) OBVIOUS
      <4>2. submit_infos_'[id].top_marker = a /\ submit_infos_'[id].bottom_marker = b
        BY <1>3, <3>2, <4>1 DEF Register
      <4>3. a \in Free(markers) /\ b \in Free(markers)
        <5>1. markers \in MarkerStates /\ FreeApart(markers) /\ HasRoom(markers) /\ HasRoom(Without(markers))
          BY DEF Basics, Typed, Register
        <5>2. /\ a \in Free(markers) /\ Without(markers) \in MarkerStates /\ FreeApart(Without(markers))
              /\ Free(Without(markers)) = Free(markers) \ {a}
          BY <4>1, <5>1, RoomIsNat, Takes DEF Basics
        <5>3. b \in Free(Without(markers))
          BY <4>1, <5>1, <5>2, RoomIsNat, Takes DEF Basics
        <5>4. QED BY <5>2, <5>3
      <4>4. word[a] \in Clean /\ word[b] \in Clean
        BY <4>3 DEF Values, WordsTrue, FreeIsClean
      <4>5. /\ word'[a] # kQueued /\ word'[a] # kRunning /\ word'[b] # kFinished
        BY <1>1, <4>4 DEF Clean, kInvalid, CommandBufferValue, kQueued,
           kRunning, kFinished
      <4>6. QED BY <4>2, <4>5 DEF StageOf, kQueued, kRunning, kFinished
    <3>3. QED BY <3>1, <3>2
  <2>3. QED BY <2>1, <2>2 DEF Quiet
<1>4. QED BY <1>2, <1>3

\* Every step is one of SubmissionReport or leaves all reports as they are.
LEMMA StepRefines ==
  ASSUME IInv, IInv', [Next]_vars
  PROVE  [Report!Next]_ReportedStage
<1>1. Basics /\ Structure /\ Values /\ Basics' BY Parts, PTL
<1> SUFFICES Report!Next OBVIOUS
<1>2. (\A id \in Ids : Quiet(id)) \/ (\E id \in Ids : MovesOn(id)) => Report!Next
  BY <1>1, QuietIsForget, MoveIsStep
<1> SUFFICES (\A id \in Ids : Quiet(id)) \/ \E id \in Ids : MovesOn(id)
  BY <1>2
<1>3. config' = config BY DEF Next, vars
<1>4. CASE BindSparse
  <2>1. BindSparse' BY <1>3, <1>4, ConfigFixed
  <2>2. QED BY <1>4, <2>1 DEF Quiet, StageOf
<1>5. CASE ~BindSparse
  <2>1. (word' = word /\ submit_infos_' = submit_infos_) => \A id \in Ids : Quiet(id)
    BY <1>3, SameWordsUntouched, UntouchedStays DEF Quiet
  <2>2. CASE UNCHANGED vars BY <2>1, <2>2 DEF vars, tracker
  <2>3. CASE CommandBufferReturns
    <3>1. PICK w \in Free(markers), v \in Clean : word' = [word EXCEPT ![w] = v]
      BY <1>1, <1>3, <2>3, ReturnsSteps
    <3>2. submit_infos_' = submit_infos_ BY <1>1, <1>3, <2>3, ReturnsSteps
    <3>3. \A x \in Words : x # w => word'[x] = word[x]
      BY <1>1, <3>1 DEF Basics, Typed
    <3>4. \A id \in DOMAIN submit_infos_ : w \notin WordsOf(id)
      BY <1>1, <3>1 DEF Structure, InfosApart
    <3>5. QED
      BY <1>1, <1>3, <3>2, <3>3, <3>4, MissedUntouched, UntouchedStays DEF
         Quiet
  <2>4. ASSUME NEW t \in Threads,
               \/ \E count \in 1 .. MaxCount : SubmitBegins(t, count) \/ BindBegins(t, count)
               \/ AllocateFails(t) \/ QueueSubmit(t) \/ SendHelper(t) \/ RegisterFails(t)
        PROVE  \A id \in Ids : Quiet(id)
    BY <1>1, <1>3, <2>1, <2>4, BeginSteps, SendSteps, RegisterFailsSteps
  <2>5. ASSUME NEW t \in Threads, Store(t) PROVE \A id \in Ids : Quiet(id)
    <3>1. \A id : Untouched(id)
      BY <1>1, <1>3, <2>5, StoreSteps DEF Structure, Untouched
    <3>2. QED BY <1>3, <3>1, UntouchedStays DEF Quiet
  <2>6. ASSUME NEW t \in Threads, RecordBindSparseHelperSubmit(t) PROVE FALSE
    BY <1>1, <1>5, <2>6 DEF RecordBindSparseHelperSubmit, Basics, CallsSound
  <2>7. ASSUME NEW t \in Threads,
               \/ Register(t) \/ RecordSubmitStart(t) \/ RecordSubmitFinish(t)
               \/ GPUStart(t) \/ GPUFinish(t)
        PROVE  (\A id \in Ids : Quiet(id)) \/ \E id \in Ids : MovesOn(id)
    BY <1>1, <1>3, <1>5, <2>7, RegisterQuiet, RecordStartMoves,
       RecordFinishQuiet,
       GPUStartMoves, GPUFinishMoves
  <2>8. QED BY <2>2, <2>3, <2>4, <2>5, <2>6, <2>7 DEF Next
<1>6. QED BY <1>4, <1>5

\* The reports of SubmitTracker implement SubmissionReport: what a dump shows
\* of a submit moves from queued to started to gone, and no other submit's
\* registration, cleanup or execution moves it.
THEOREM ReportsRefine == Spec => ReportsMoveForward
<1>1. Init => Report!Init
  <2> SUFFICES ASSUME Init PROVE Report!Init
    OBVIOUS
  <2>1. Basics BY InitInv, Parts
  <2>2. ReportedStage = [id \in Ids |-> StageOf(id)]
    BY <2>1, StageIsReported DEF StagesAreReported
  <2>3. DOMAIN submit_infos_ = {} BY DEF Init
  <2>4. \A id \in Ids : StageOf(id) = "unsubmitted" BY <2>3 DEF StageOf
  <2>5. QED BY <2>2, <2>4 DEF Report!Init
<1>2. IInv /\ IInv' /\ [Next]_vars => [Report!Next]_ReportedStage
  BY StepRefines
<1>3. QED
  BY Invariant, <1>1, <1>2, PTL DEF Spec, ReportsMoveForward, Report!Spec
===============================================================================
