--------------------- MODULE CommandBufferTrackerProofs ---------------------
(***************************************************************************)
(* CommandBufferTracker, for every set of threads, handles and pools,      *)
(* whichever threads use a handle and whenever the driver hands out a      *)
(* value again: the types, what a hook finds when it looks up a handle,    *)
(* and how the registries agree with each other and with the driver.       *)
(***************************************************************************)
EXTENDS CommandBufferTracker, SequenceTheorems, FiniteSetTheorems,
        WellFoundedInduction, TLAPS

-----------------------------------------------------------------------------
(* Lists of handles without duplicates.                                    *)

NoDuplicates(s) == \A i, j \in 1 .. Len(s) : s[i] = s[j] => i = j

Lists(s, h) == \E i \in 1 .. Len(s) : s[i] = h

\* A handle is in a list once, or not at all.
Once(s, h) == \A i, j \in 1 .. Len(s) : s[i] = h /\ s[j] = h => i = j

LEMMA ToSetLists ==
  ASSUME NEW s \in Seq(Handles)
  PROVE  \A h : h \in ToSet(s) <=> Lists(s, h)
BY DEF ToSet, Lists

LEMMA AppendLists ==
  ASSUME NEW s \in Seq(Handles), NEW h \in Handles,
         NoDuplicates(s), ~Lists(s, h)
  PROVE  /\ Append(s, h) \in Seq(Handles)
         /\ NoDuplicates(Append(s, h))
         /\ \A g : Lists(Append(s, h), g) <=> Lists(s, g) \/ g = h
<1> DEFINE a == Append(s, h)
<1>1. /\ a \in Seq(Handles) /\ Len(a) = Len(s) + 1
      /\ a[Len(s) + 1] = h
      /\ \A i \in 1 .. Len(s) : a[i] = s[i]
  BY AppendProperties
<1>2. NoDuplicates(a)
  BY <1>1 DEF NoDuplicates, Lists
<1>3. ASSUME NEW g PROVE Lists(a, g) <=> Lists(s, g) \/ g = h
  BY <1>1 DEF Lists
<1>4. QED BY <1>1, <1>2, <1>3

LEMMA EraseIsRemoveAt ==
  ASSUME NEW s \in Seq(Handles), NEW h, NEW k \in 1 .. Len(s), s[k] = h,
         NoDuplicates(s)
  PROVE  EraseFirst(s, h) = RemoveAt(s, k)
<1>1. {i \in DOMAIN s : s[i] = h} = {k}
  BY DEF NoDuplicates
<1>2. Min({k}) = k
  BY DEF Min
<1>3. QED BY <1>1, <1>2 DEF EraseFirst

LEMMA RemoveAtKeeps ==
  ASSUME NEW s \in Seq(Handles), NEW k \in 1 .. Len(s)
  PROVE  /\ RemoveAt(s, k) \in Seq(Handles)
         /\ Len(RemoveAt(s, k)) = Len(s) - 1
         /\ \A i \in 1 .. k - 1 : RemoveAt(s, k)[i] = s[i]
         /\ \A i \in k .. Len(s) - 1 : RemoveAt(s, k)[i] = s[i + 1]
<1> DEFINE front == SubSeq(s, 1, k - 1)
           back == SubSeq(s, k + 1, Len(s))
<1>1. /\ front \in Seq(Handles) /\ Len(front) = k - 1
      /\ \A i \in 1 .. k - 1 : front[i] = s[i]
  OBVIOUS
<1>2. /\ back \in Seq(Handles) /\ Len(back) = Len(s) - k
      /\ \A i \in 1 .. Len(s) - k : back[i] = s[k + i]
  OBVIOUS
<1>3. RemoveAt(s, k) = front \o back
  BY DEF RemoveAt
<1> HIDE DEF front, back
<1>4. /\ front \o back \in Seq(Handles)
      /\ Len(front \o back) = Len(front) + Len(back)
      /\ \A i \in 1 .. Len(front) + Len(back) :
           (front \o back)[i] = IF i <= Len(front) THEN front[i] ELSE back[i - Len(front)]
  BY <1>1, <1>2, ConcatProperties
<1> DEFINE r == front \o back
<1> HIDE DEF r
<1>5. r \in Seq(Handles) /\ Len(r) = Len(s) - 1
  BY <1>1, <1>2, <1>4 DEF r
<1>6. ASSUME NEW i \in 1 .. k - 1 PROVE r[i] = s[i]
  BY <1>1, <1>2, <1>4 DEF r
<1>7. ASSUME NEW i \in k .. Len(s) - 1 PROVE r[i] = s[i + 1]
  <2>1. i \in 1 .. Len(front) + Len(back) /\ ~(i <= Len(front))
    BY <1>1, <1>2
  <2>2. i - Len(front) \in 1 .. Len(s) - k /\ k + (i - Len(front)) = i + 1
    BY <1>1, <1>2
  <2>3. r[i] = back[i - Len(front)] BY <1>4, <2>1 DEF r
  <2>4. QED BY <1>2, <2>2, <2>3
<1>8. QED BY <1>3, <1>5, <1>6, <1>7 DEF r

LEMMA EraseLists ==
  ASSUME NEW s \in Seq(Handles), NEW h, NoDuplicates(s)
  PROVE  /\ EraseFirst(s, h) \in Seq(Handles)
         /\ NoDuplicates(EraseFirst(s, h))
         /\ \A g : Lists(EraseFirst(s, h), g) <=> Lists(s, g) /\ g # h
<1>1. CASE ~Lists(s, h)
  <2>1. {i \in DOMAIN s : s[i] = h} = {} BY <1>1 DEF Lists
  <2>2. EraseFirst(s, h) = s BY <2>1 DEF EraseFirst
  <2>3. QED BY <1>1, <2>2 DEF Lists
<1>2. CASE Lists(s, h)
  <2>1. PICK k \in 1 .. Len(s) : s[k] = h BY <1>2 DEF Lists
  <2>2. EraseFirst(s, h) = RemoveAt(s, k) BY <2>1, EraseIsRemoveAt
  <2> DEFINE r == RemoveAt(s, k)
  <2>4. /\ r \in Seq(Handles) /\ Len(r) = Len(s) - 1
        /\ \A i \in 1 .. k - 1 : r[i] = s[i]
        /\ \A i \in k .. Len(s) - 1 : r[i] = s[i + 1]
    BY RemoveAtKeeps
  <2> HIDE DEF r
  <2>5. NoDuplicates(r)
    <3> SUFFICES ASSUME NEW i \in 1 .. Len(r), NEW j \in 1 .. Len(r), r[i] = r[j]
                 PROVE  i = j
      BY DEF NoDuplicates
    <3> DEFINE at(x) == IF x < k THEN x ELSE x + 1
    <3>1. at(i) \in 1 .. Len(s) /\ at(j) \in 1 .. Len(s) BY <2>4
    <3>2. s[at(i)] = r[i] /\ s[at(j)] = r[j] BY <2>4
    <3>3. at(i) = at(j) BY <3>1, <3>2 DEF NoDuplicates
    <3>4. QED BY <3>3
  <2>6. ASSUME NEW g PROVE Lists(r, g) <=> Lists(s, g) /\ g # h
    <3>1. ASSUME NEW i \in 1 .. Len(r) PROVE Lists(s, r[i]) /\ r[i] # h
      <4>1. PICK m \in 1 .. Len(s) : m # k /\ s[m] = r[i]
        <5>1. CASE i < k BY <2>4, <5>1
        <5>2. CASE i >= k BY <2>4, <5>2
        <5>3. QED BY <2>4, <5>1, <5>2
      <4>2. QED BY <2>1, <4>1 DEF Lists, NoDuplicates
    <3>2. ASSUME NEW i \in 1 .. Len(s), s[i] # h PROVE Lists(r, s[i])
      <4>1. CASE i < k BY <2>4, <4>1 DEF Lists
      <4>2. CASE i > k
        <5>1. i - 1 \in k .. Len(s) - 1 /\ i - 1 \in 1 .. Len(r) BY <2>4, <4>2
        <5>2. r[i - 1] = s[i] BY <2>4, <5>1
        <5>3. QED BY <5>1, <5>2 DEF Lists
      <4>3. QED BY <2>1, <3>2, <4>1, <4>2
    <3>3. QED BY <3>1, <3>2 DEF Lists
  <2>7. QED BY <2>2, <2>4, <2>5, <2>6 DEF r
<1>3. QED BY <1>1, <1>2

-----------------------------------------------------------------------------
(* Induction over the length of a sequence, from the well-foundedness of < *)
(* on Nat, and Kept.                                                       *)

\* Induction over the natural numbers that a set holds.
LEMMA SetInduction ==
  ASSUME NEW D, 0 \in D, \A n \in Nat : n \in D => n + 1 \in D
  PROVE  Nat \subseteq D
<1> DEFINE Out == {n \in Nat : n \notin D}
<1> SUFFICES ASSUME Out # {} PROVE FALSE OBVIOUS
<1>1. Out \subseteq Nat OBVIOUS
<1> HIDE DEF Out
<1>2. PICK n \in Out : \A m \in Out : ~(<<m, n>> \in OpToRel(<, Nat))
  BY <1>1, NatLessThanWellFounded, WFMin
<1>3. \A m \in Out : ~(m < n) BY <1>1, <1>2 DEF OpToRel
<1>4. n \in Nat /\ n \notin D BY <1>2 DEF Out
<1>5. n - 1 \in Nat BY <1>4
<1>6. n - 1 \in D BY <1>3, <1>5 DEF Out
<1>7. n - 1 + 1 \in D BY <1>5, <1>6
<1>8. QED BY <1>4, <1>7

\* What the recursive function of Kept is at n, given its values before.
KeptUpTo(s, S, n, f) ==
  f = [k \in 0 .. n |->
         IF k = 0 THEN <<>>
         ELSE IF s[k] \in S THEN Append(f[k - 1], s[k]) ELSE f[k - 1]]

\* The recursive function of Kept exists: it is built one element at a time.
LEMMA KeptExists ==
  ASSUME NEW s, NEW S
  PROVE  \A n \in Nat : \E f : KeptUpTo(s, S, n, f)
<1> DEFINE D == {n \in Nat : \E f : KeptUpTo(s, S, n, f)}
<1>1. 0 \in D
  <2>1. KeptUpTo(s, S, 0, [k \in 0 .. 0 |-> <<>>]) BY DEF KeptUpTo
  <2>2. QED BY <2>1
<1>2. ASSUME NEW n \in Nat, n \in D PROVE n + 1 \in D
  <2>1. PICK f : KeptUpTo(s, S, n, f) BY <1>2
  <2> DEFINE g == [k \in 0 .. n + 1 |->
                     IF k <= n THEN f[k]
                     ELSE IF s[n + 1] \in S THEN Append(f[n], s[n + 1]) ELSE f[n]]
  <2>2. \A k \in 0 .. n :
          f[k] = IF k = 0 THEN <<>>
                 ELSE IF s[k] \in S THEN Append(f[k - 1], s[k]) ELSE f[k - 1]
    BY <2>1 DEF KeptUpTo
  <2>3. /\ g = [k \in 0 .. n + 1 |-> g[k]]
        /\ \A k \in 0 .. n : g[k] = f[k]
        /\ g[n + 1] = IF s[n + 1] \in S THEN Append(f[n], s[n + 1]) ELSE f[n]
    BY <1>2
  <2> HIDE DEF g
  <2>4. ASSUME NEW k \in 0 .. n + 1
        PROVE  g[k] = IF k = 0 THEN <<>>
                      ELSE IF s[k] \in S THEN Append(g[k - 1], s[k]) ELSE g[k - 1]
    <3>1. CASE k = 0
      <4>1. 0 \in 0 .. n OBVIOUS
      <4>2. g[0] = f[0] /\ f[0] = <<>> BY <2>2, <2>3, <4>1
      <4>3. QED BY <3>1, <4>2
    <3>2. CASE k \in 1 .. n
      <4>1. k \in 0 .. n /\ k - 1 \in 0 .. n /\ k # 0 BY <3>2
      <4>2. g[k] = f[k] /\ g[k - 1] = f[k - 1] BY <2>3, <4>1
      <4>3. QED BY <2>2, <4>1, <4>2
    <3>3. CASE k = n + 1
      <4>1. n \in 0 .. n /\ k - 1 = n /\ k # 0 BY <3>3
      <4>2. QED BY <2>3, <3>3, <4>1
    <3>4. QED BY <3>1, <3>2, <3>3
  <2>5. KeptUpTo(s, S, n + 1, g) BY <2>3, <2>4 DEF KeptUpTo
  <2>6. QED BY <2>5
<1> HIDE DEF D
<1>3. Nat \subseteq D BY <1>1, <1>2, SetInduction
<1>4. QED BY <1>3 DEF D

\* A vector keeps the elements of a set, once each that was there once.
LEMMA KeptKeeps ==
  ASSUME NEW T, NEW s \in Seq(T), NEW S
  PROVE  /\ Kept(s, S) \in Seq(T)
         /\ ToSet(Kept(s, S)) = ToSet(s) \cap S
         /\ \A x : Once(s, x) => Once(Kept(s, S), x)
<1> DEFINE f == CHOOSE f : KeptUpTo(s, S, Len(s), f)
<1>1. Len(s) \in Nat OBVIOUS
<1>2. KeptUpTo(s, S, Len(s), f) BY <1>1, KeptExists
<1>3. Kept(s, S) = f[Len(s)] BY DEF Kept, KeptUpTo
<1> HIDE DEF f
<1>4. \A k \in 0 .. Len(s) :
        f[k] = IF k = 0 THEN <<>>
               ELSE IF s[k] \in S THEN Append(f[k - 1], s[k]) ELSE f[k - 1]
  BY <1>2 DEF KeptUpTo
<1> DEFINE Good(n) ==
             /\ f[n] \in Seq(T)
             /\ \A x : x \in ToSet(f[n]) <=> \E i \in 1 .. n : s[i] = x /\ x \in S
             /\ \A x : Once(s, x) => Once(f[n], x)
           D == {n \in Nat : n <= Len(s) => Good(n)}
<1>5. 0 \in D
  <2>1. f[0] = <<>> BY <1>1, <1>4
  <2>2. f[0] \in Seq(T) /\ Len(f[0]) = 0 BY <2>1
  <2>3. \A x : x \notin ToSet(f[0]) BY <2>2 DEF ToSet
  <2>4. \A x : Once(f[0], x) BY <2>2 DEF Once
  <2>5. QED BY <2>2, <2>3, <2>4
<1>6. ASSUME NEW n \in Nat, n \in D PROVE n + 1 \in D
  <2> SUFFICES ASSUME n + 1 <= Len(s) PROVE Good(n + 1)
    OBVIOUS
  <2>1. Good(n) BY <1>1, <1>6
  <2>2. n + 1 \in 0 .. Len(s) /\ n + 1 \in 1 .. Len(s) /\ n + 1 # 0 /\ n + 1 - 1 = n
    BY <1>1
  <2>3. f[n + 1] = IF s[n + 1] \in S THEN Append(f[n], s[n + 1]) ELSE f[n]
    BY <1>4, <2>2
  <2>4. s[n + 1] \in T BY <2>2, ElementOfSeq
  <2>5. CASE s[n + 1] \in S
    <3> DEFINE r == f[n]
               q == Append(r, s[n + 1])
    <3>1. f[n + 1] = q /\ r \in Seq(T) BY <2>1, <2>3, <2>5
    <3>2. /\ q \in Seq(T) /\ Len(q) = Len(r) + 1 /\ q[Len(r) + 1] = s[n + 1]
          /\ \A i \in 1 .. Len(r) : q[i] = r[i]
          /\ Len(r) \in Nat
      BY <2>1, <2>4
    <3> HIDE DEF q, r
    <3>3. \A x : x \in ToSet(q) <=> x \in ToSet(r) \/ x = s[n + 1]
      BY <3>2 DEF ToSet
    <3>4. \A x : x \in ToSet(r) <=> \E i \in 1 .. n : s[i] = x /\ x \in S
      BY <2>1 DEF r
    <3>5. \A x : x \in ToSet(q) <=> \E i \in 1 .. n + 1 : s[i] = x /\ x \in S
      <4>1. ASSUME NEW x, x \in ToSet(q) PROVE \E i \in 1 .. n + 1 : s[i] = x /\ x \in S
        <5>1. CASE x = s[n + 1] BY <2>5, <5>1
        <5>2. CASE x \in ToSet(r) BY <3>4, <5>2
        <5>3. QED BY <3>3, <4>1, <5>1, <5>2
      <4>2. ASSUME NEW x, NEW i \in 1 .. n + 1, s[i] = x, x \in S PROVE x \in ToSet(q)
        <5>1. CASE i = n + 1 BY <3>3, <4>2, <5>1
        <5>2. CASE i \in 1 .. n BY <3>3, <3>4, <4>2, <5>2
        <5>3. QED BY <5>1, <5>2
      <4>3. QED BY <4>1, <4>2
    <3>6. ASSUME NEW x, Once(s, x) PROVE Once(q, x)
      <4>1. Once(r, x) BY <2>1, <3>6 DEF r
      <4>2. x = s[n + 1] => x \notin ToSet(r)
        <5>1. \A i \in 1 .. n : x = s[n + 1] => s[i] # x BY <1>1, <2>2, <3>6 DEF Once
        <5>2. QED BY <3>4, <5>1
      <4>3. QED BY <3>2, <4>1, <4>2 DEF ToSet, Once
    <3>7. QED BY <3>1, <3>2, <3>5, <3>6
  <2>6. CASE s[n + 1] \notin S
    <3>1. f[n + 1] = f[n] BY <2>3, <2>6
    <3>2. \A x : (\E i \in 1 .. n + 1 : s[i] = x /\ x \in S) <=> \E i \in 1 .. n : s[i] = x /\ x \in S
      <4>1. \A i \in 1 .. n + 1 : i = n + 1 \/ i \in 1 .. n OBVIOUS
      <4>2. QED BY <2>6, <4>1
    <3>3. QED BY <2>1, <3>1, <3>2
  <2>7. QED BY <2>5, <2>6
<1> HIDE DEF D
<1>7. Len(s) \in D BY <1>1, <1>5, <1>6, SetInduction
<1>8. Good(Len(s)) BY <1>7 DEF D
<1>9. ToSet(f[Len(s)]) = ToSet(s) \cap S
  <2>1. \A x : x \in ToSet(f[Len(s)]) <=> \E j \in 1 .. Len(s) : s[j] = x /\ x \in S
    BY <1>8
  <2>2. \A x : x \in ToSet(s) <=> \E j \in 1 .. Len(s) : s[j] = x BY DEF ToSet
  <2>3. QED BY <2>1, <2>2
<1>10. QED BY <1>3, <1>8, <1>9

HandleLists == {s \in Seq(Handles) : NoDuplicates(s)}

LEMMA EmptyList == <<>> \in HandleLists /\ ToSet(<<>>) = {}
BY DEF HandleLists, NoDuplicates, ToSet

LEMMA ListWith ==
  ASSUME NEW s \in HandleLists, NEW h \in Handles, h \notin ToSet(s)
  PROVE  /\ Append(s, h) \in HandleLists
         /\ ToSet(Append(s, h)) = ToSet(s) \cup {h}
<1>1. s \in Seq(Handles) /\ NoDuplicates(s) /\ ~Lists(s, h)
  BY DEF HandleLists, ToSet, Lists
<1>2. /\ Append(s, h) \in Seq(Handles) /\ NoDuplicates(Append(s, h))
      /\ \A g : Lists(Append(s, h), g) <=> Lists(s, g) \/ g = h
  BY <1>1, AppendLists
<1> DEFINE a == Append(s, h)
<1> HIDE DEF a
<1>3. ToSet(a) = ToSet(s) \cup {h}
  BY <1>1, <1>2 DEF ToSet, Lists, a
<1>4. QED BY <1>2, <1>3 DEF HandleLists, a

LEMMA ListWithout ==
  ASSUME NEW s \in HandleLists, NEW h
  PROVE  /\ EraseFirst(s, h) \in HandleLists
         /\ ToSet(EraseFirst(s, h)) = ToSet(s) \ {h}
<1>1. s \in Seq(Handles) /\ NoDuplicates(s)
  BY DEF HandleLists
<1> DEFINE e == EraseFirst(s, h)
<1> HIDE DEF e
<1>2. /\ e \in Seq(Handles) /\ NoDuplicates(e)
      /\ \A g : Lists(e, g) <=> Lists(s, g) /\ g # h
  BY <1>1, EraseLists DEF e
<1>3. \A g : g \in ToSet(e) <=> g \in ToSet(s) /\ g # h
  BY <1>1, <1>2, ToSetLists
<1>4. ToSet(e) = ToSet(s) \ {h} BY <1>3
<1>5. QED BY <1>2, <1>4 DEF HandleLists, e

\* How often a list has a handle that it has once at most.
LEMMA ListedOnce ==
  ASSUME NEW s, NEW h, Once(s, h)
  PROVE  Occurrences(s, h) = One(h \in ToSet(s))
<1> DEFINE places == {i \in 1 .. Len(s) : s[i] = h}
<1>1. CASE h \in ToSet(s)
  <2>1. PICK k \in 1 .. Len(s) : s[k] = h BY <1>1 DEF ToSet
  <2>2. places = {k} BY <2>1 DEF Once
  <2>3. Cardinality(places) = 1 BY <2>2, FS_Singleton
  <2>4. QED BY <1>1, <2>3 DEF Occurrences, One
<1>2. CASE h \notin ToSet(s)
  <2>1. places = {} BY <1>2 DEF ToSet
  <2>2. Cardinality(places) = 0 BY <2>1, FS_EmptySet
  <2>3. QED BY <1>2, <2>2 DEF Occurrences, One
<1>3. QED BY <1>1, <1>2

\* A handle is added to a list that may have any of the others several times.
LEMMA ListedLonger ==
  ASSUME NEW s \in Seq(Handles), NEW h \in Handles
  PROVE  /\ ToSet(Append(s, h)) = ToSet(s) \cup {h}
         /\ \A g : Once(s, g) /\ (g = h => g \notin ToSet(s)) => Once(Append(s, h), g)
<1> DEFINE a == Append(s, h)
<1>1. /\ a \in Seq(Handles) /\ Len(a) = Len(s) + 1 /\ Len(s) \in Nat
      /\ a[Len(s) + 1] = h
      /\ \A i \in 1 .. Len(s) : a[i] = s[i]
  BY AppendProperties
<1> HIDE DEF a
<1>2. ToSet(a) = ToSet(s) \cup {h}
  <2>1. \A x : x \in ToSet(a) <=> x \in ToSet(s) \/ x = h BY <1>1 DEF ToSet
  <2>2. QED BY <2>1
<1>3. ASSUME NEW g, Once(s, g), g = h => g \notin ToSet(s) PROVE Once(a, g)
  BY <1>1, <1>3 DEF Once, ToSet
<1>4. QED BY <1>2, <1>3 DEF a

-----------------------------------------------------------------------------
(* The caches, and the types.                                              *)

\* A nonempty set of positions has a least one.
LEMMA LeastPosition ==
  ASSUME NEW n \in Nat, NEW places \in SUBSET (1 .. n), places # {}
  PROVE  Min(places) \in places
<1>1. places \subseteq Nat OBVIOUS
<1>2. PICK k \in places : \A i \in places : ~(<<i, k>> \in OpToRel(<, Nat))
  BY <1>1, NatLessThanWellFounded, WFMin
<1>3. \A i \in places : ~(i < k) BY <1>1, <1>2 DEF OpToRel
<1>4. \A i \in places : k =< i BY <1>1, <1>3
<1>5. QED BY <1>4 DEF Min

LEMMA EraseTyped ==
  ASSUME NEW s \in Seq(Handles), NEW h
  PROVE  EraseFirst(s, h) \in Seq(Handles)
<1> DEFINE places == {i \in DOMAIN s : s[i] = h}
<1>1. places \in SUBSET (1 .. Len(s)) OBVIOUS
<1>2. CASE places = {} BY <1>2 DEF EraseFirst
<1>3. CASE places # {}
  <2>1. Min(places) \in places
    <3> HIDE DEF places
    <3>1. Len(s) \in Nat OBVIOUS
    <3>2. QED BY <1>1, <1>3, <3>1, LeastPosition
  <2>2. EraseFirst(s, h) = RemoveAt(s, Min(places)) BY <1>3 DEF EraseFirst
  <2>3. Min(places) \in 1 .. Len(s) BY <1>1, <2>1
  <2>4. QED BY <2>2, <2>3, RemoveAtKeeps
<1>4. QED BY <1>2, <1>3

\* What a thread's cache can be.
CacheType == [vkcb : Handles \cup {NoHandle}, gfrcb : Objects]

\* The recursive function of Caches, up to n.
CachesUpTo(c, s, n, f) ==
  f = [k \in 0 .. n |-> IF k = 0 THEN c ELSE CacheAfterLookup(f[k - 1], s[k])]

\* It exists, as each cache is made from the one before.
LEMMA CachesExist ==
  ASSUME NEW c, NEW s
  PROVE  \A n \in Nat : \E f : CachesUpTo(c, s, n, f)
<1> DEFINE D == {n \in Nat : \E f : CachesUpTo(c, s, n, f)}
           next(x, k) == CacheAfterLookup(x, s[k])
<1>1. 0 \in D
  <2>1. CachesUpTo(c, s, 0, [k \in 0 .. 0 |-> c]) BY DEF CachesUpTo
  <2>2. QED BY <2>1
<1>2. ASSUME NEW n \in Nat, n \in D PROVE n + 1 \in D
  <2>1. PICK f : CachesUpTo(c, s, n, f) BY <1>2
  <2> DEFINE g == [k \in 0 .. n + 1 |-> IF k <= n THEN f[k] ELSE next(f[n], n + 1)]
  <2>2. \A k \in 0 .. n : f[k] = IF k = 0 THEN c ELSE next(f[k - 1], k)
    BY <2>1 DEF CachesUpTo
  <2>3. /\ g = [k \in 0 .. n + 1 |-> g[k]]
        /\ \A k \in 0 .. n : g[k] = f[k]
        /\ g[n + 1] = next(f[n], n + 1)
    BY <1>2
  <2> HIDE DEF g, next
  <2>4. ASSUME NEW k \in 0 .. n + 1
        PROVE  g[k] = IF k = 0 THEN c ELSE next(g[k - 1], k)
    <3>1. CASE k = 0
      <4>1. 0 \in 0 .. n OBVIOUS
      <4>2. g[0] = f[0] /\ f[0] = c BY <2>2, <2>3, <4>1
      <4>3. QED BY <3>1, <4>2
    <3>2. CASE k \in 1 .. n
      <4>1. k \in 0 .. n /\ k - 1 \in 0 .. n /\ k # 0 BY <3>2
      <4>2. g[k] = f[k] /\ g[k - 1] = f[k - 1] BY <2>3, <4>1
      <4>3. QED BY <2>2, <4>1, <4>2
    <3>3. CASE k = n + 1
      <4>1. n \in 0 .. n /\ k - 1 = n /\ k # 0 BY <3>3
      <4>2. QED BY <2>3, <3>3, <4>1
    <3>4. QED BY <3>1, <3>2, <3>3
  <2>5. CachesUpTo(c, s, n + 1, g) BY <2>3, <2>4 DEF CachesUpTo, next
  <2>6. QED BY <2>5
<1> HIDE DEF D
<1>3. Nat \subseteq D BY <1>1, <1>2, SetInduction
<1>4. QED BY <1>3 DEF D

\* After the lookups of a list, a cache is what it was or has an object that
\* the map has.
LEMMA AfterLookups ==
  ASSUME NEW c, NEW s \in Seq(Handles)
  PROVE  \/ CacheAfterLookups(c, s) = c
         \/ \E h \in Handles :
              /\ global_commandbuffer_map_[h] # 0
              /\ CacheAfterLookups(c, s) =
                   [vkcb |-> h, gfrcb |-> global_commandbuffer_map_[h]]
<1> DEFINE n == Len(s)
           f == CHOOSE f : CachesUpTo(c, s, n, f)
           Filled(x) == \E h \in Handles :
                          /\ global_commandbuffer_map_[h] # 0
                          /\ x = [vkcb |-> h, gfrcb |-> global_commandbuffer_map_[h]]
<1>1. n \in Nat OBVIOUS
<1>2. CachesUpTo(c, s, n, f) BY <1>1, CachesExist
<1>3. CacheAfterLookups(c, s) = f[n] BY DEF CacheAfterLookups, Caches, CachesUpTo
<1> HIDE DEF f
<1>4. \A k \in 0 .. n : f[k] = IF k = 0 THEN c ELSE CacheAfterLookup(f[k - 1], s[k])
  BY <1>2 DEF CachesUpTo
<1> DEFINE D == {k \in Nat : k <= n => f[k] = c \/ Filled(f[k])}
<1> HIDE DEF Filled
<1>5. 0 \in D BY <1>1, <1>4
<1>6. ASSUME NEW k \in Nat, k \in D PROVE k + 1 \in D
  <2> SUFFICES ASSUME k + 1 <= n PROVE f[k + 1] = c \/ Filled(f[k + 1])
    OBVIOUS
  <2>1. f[k] = c \/ Filled(f[k]) BY <1>1, <1>6
  <2>2. k + 1 \in 0 .. n /\ k + 1 \in 1 .. n /\ k + 1 # 0 /\ k + 1 - 1 = k BY <1>1
  <2>3. f[k + 1] = CacheAfterLookup(f[k], s[k + 1]) BY <1>4, <2>2
  <2>4. s[k + 1] \in Handles BY <2>2, ElementOfSeq
  <2>5. f[k + 1] = f[k] \/ Filled(f[k + 1]) BY <2>3, <2>4 DEF CacheAfterLookup, Filled
  <2>6. QED BY <2>1, <2>5
<1> HIDE DEF D
<1>7. n \in D BY <1>1, <1>5, <1>6, SetInduction
<1>8. f[n] = c \/ Filled(f[n]) BY <1>1, <1>7 DEF D
<1>9. QED BY <1>3, <1>8 DEF Filled

LEMMA LookupTyped ==
  ASSUME global_commandbuffer_map_ \in [Handles -> Objects],
         NEW c \in CacheType, NEW h \in Handles
  PROVE  CacheAfterLookup(c, h) \in CacheType
BY DEF CacheAfterLookup, CacheType

LEMMA LookupsTyped ==
  ASSUME global_commandbuffer_map_ \in [Handles -> Objects],
         NEW c \in CacheType, NEW s \in Seq(Handles)
  PROVE  CacheAfterLookups(c, s) \in CacheType
BY AfterLookups DEF CacheType

Allocating == {t \in Threads : call[t].op = "allocate"}

\* There is an object left for each allocation under way.
Room ==
  /\ IsFiniteSet(Allocating)
  /\ created + Cardinality(Allocating) <= MaxObjects

LEMMA InitTyped == Init => TypeOK /\ Room
<1> SUFFICES ASSUME Init PROVE TypeOK /\ Room OBVIOUS
<1>1. TypeOK
  BY MaxObjectsAssumption DEF Init, TypeOK, Idle, EmptyCache, Objects, Agents
<1>2. Allocating = {} BY DEF Init, Allocating, Idle
<1>3. QED BY <1>1, <1>2, FS_EmptySet, MaxObjectsAssumption DEF Init, Room

\* A call that begins with a pool and handles.
LEMMA EnterTyped ==
  ASSUME TypeOK, Room, NEW t \in Threads, NEW op \in {"free", "destroy"},
         NEW p \in Pools \cup {None}, NEW H \in SUBSET Handles, Enter(t, op, p, H),
         driver_pool' \in [Handles -> Pools \cup {None}],
         thread_cb_cache_' \in [Agents -> CacheType],
         UNCHANGED <<global_commandbuffer_map_, command_buffers_, pool_buffers,
                     created, history>>
  PROVE  (TypeOK /\ Room)'
<1>1. /\ call[t] = Idle
      /\ call' = [call EXCEPT ![t] = [op |-> op, pool |-> p, handles |-> H]]
  BY DEF Enter
<1>2. TypeOK' BY <1>1 DEF TypeOK, CacheType, history
<1>3. Allocating' = Allocating BY <1>1 DEF TypeOK, Allocating, Idle
<1>4. QED BY <1>1, <1>2, <1>3 DEF Room

LEMMA AllocateTyped ==
  ASSUME TypeOK, Room, NEW t \in Threads, NEW p \in Pools, NEW h \in Handles,
         DriverAllocate(t, p, h)
  PROVE  (TypeOK /\ Room)'
<1>1. /\ call[t] = Idle
      /\ driver_pool' = [driver_pool EXCEPT ![h] = p]
      /\ call' = [call EXCEPT ![t] = [op |-> "allocate", pool |-> p, handles |-> {h}]]
      /\ UNCHANGED <<registries, deleted_by>>
      /\ reused_early' = reused_early \cup {g \in {h} : InCall(g)}
      /\ created + Cardinality(Allocating) < MaxObjects
  BY DEF DriverAllocate, Enter, Allocating
<1>2. TypeOK' BY <1>1 DEF TypeOK, registries
<1>3. Allocating' = Allocating \cup {t} BY <1>1 DEF TypeOK, Allocating
<1>4. t \notin Allocating BY <1>1 DEF Allocating, Idle
<1>5. /\ IsFiniteSet(Allocating') /\ Cardinality(Allocating') = Cardinality(Allocating) + 1
      /\ Cardinality(Allocating) \in Nat
  BY <1>3, <1>4, FS_AddElement, FS_CardinalityType DEF Room
<1>6. created' = created /\ created \in Nat BY <1>1 DEF registries, TypeOK, Objects
<1>7. Room' BY <1>1, <1>5, <1>6, MaxObjectsAssumption DEF Room
<1>8. QED BY <1>2, <1>7

LEMMA PostAllocateTyped ==
  ASSUME TypeOK, Room, NEW t \in Threads, PostAllocate(t)
  PROVE  (TypeOK /\ Room)'
<1>1. PICK h \in call[t].handles :
        /\ pool_buffers' = [pool_buffers EXCEPT ![call[t].pool] = Append(@, h)]
        /\ global_commandbuffer_map_' =
             [global_commandbuffer_map_ EXCEPT ![h] = created + 1]
        /\ command_buffers_' = Append(command_buffers_, h)
  BY DEF PostAllocate
<1>2. /\ call[t].op = "allocate" /\ created' = created + 1
      /\ call' = [call EXCEPT ![t] = Idle]
      /\ UNCHANGED <<driver_pool, thread_cb_cache_, history>>
  BY DEF PostAllocate
<1>3. h \in Handles BY <1>1 DEF TypeOK
<1>4. Allocating' = Allocating \ {t} /\ t \in Allocating
  BY <1>2 DEF TypeOK, Allocating, Idle
<1>5. /\ IsFiniteSet(Allocating')
      /\ Cardinality(Allocating') = Cardinality(Allocating) - 1
      /\ Cardinality(Allocating) \in Nat /\ Cardinality(Allocating') \in Nat
  BY <1>4, FS_RemoveElement, FS_CardinalityType DEF Room
<1>6. created \in Nat BY DEF TypeOK, Objects
<1>7. Room' /\ created + 1 \in Objects
  BY <1>2, <1>5, <1>6, MaxObjectsAssumption DEF Room, Objects
<1>8. /\ global_commandbuffer_map_' \in [Handles -> Objects]
      /\ command_buffers_' \in Seq(Handles)
  BY <1>1, <1>3, <1>7 DEF TypeOK
<1>9. pool_buffers' \in [Pools -> Seq(Handles)]
  <2>1. \A p \in Pools : Append(pool_buffers[p], h) \in Seq(Handles)
    <3>1. \A p \in Pools : pool_buffers[p] \in Seq(Handles) BY DEF TypeOK
    <3>2. QED BY <1>3, <3>1, AppendProperties
  <2>2. QED BY <1>1, <2>1 DEF TypeOK
<1>10. call' \in [Threads -> [op : {"idle", "allocate", "free", "destroy"},
                              pool : Pools \cup {None}, handles : SUBSET Handles]]
  BY <1>2 DEF TypeOK, Idle
<1>11. QED BY <1>2, <1>7, <1>8, <1>9, <1>10 DEF TypeOK, history

LEMMA PostFreeTyped ==
  ASSUME TypeOK, Room, NEW t \in Threads, PostFree(t)
  PROVE  (TypeOK /\ Room)'
<1>1. PICK h \in call[t].handles :
        /\ pool_buffers' =
             [pool_buffers EXCEPT ![call[t].pool] = EraseFirst(@, h)]
        /\ command_buffers_' = Kept(command_buffers_, Handles \ {h})
        /\ global_commandbuffer_map_' = [global_commandbuffer_map_ EXCEPT ![h] = 0]
        /\ thread_cb_cache_' =
             [thread_cb_cache_ EXCEPT
                ![t] = CacheAfterDelete(CacheAfterLookup(@, h), h)]
        /\ deleted_by' = [deleted_by EXCEPT ![h] = t]
  BY DEF PostFree, RemoveHandle
<1>2. /\ call[t].op = "free"
      /\ call' = [call EXCEPT ![t] = Idle]
      /\ UNCHANGED <<driver_pool, created, reused_early>>
  BY DEF PostFree
<1>3. h \in Handles /\ t \in Agents BY <1>1 DEF TypeOK, Agents
<1>4. Allocating' = Allocating BY <1>2 DEF TypeOK, Allocating, Idle
<1>5. Room' BY <1>2, <1>4 DEF Room
<1>6. global_commandbuffer_map_' \in [Handles -> Objects]
  BY <1>1, MaxObjectsAssumption DEF TypeOK, Objects
<1>7. command_buffers_' \in Seq(Handles) BY <1>1, KeptKeeps DEF TypeOK
<1>8. pool_buffers' \in [Pools -> Seq(Handles)]
  <2>1. \A p \in Pools : EraseFirst(pool_buffers[p], h) \in Seq(Handles)
    BY EraseTyped DEF TypeOK
  <2>2. QED BY <1>1, <2>1 DEF TypeOK
<1>9. thread_cb_cache_' \in [Agents -> CacheType]
  <2> DEFINE c == CacheAfterLookup(thread_cb_cache_[t], h)
  <2>1. c \in CacheType BY <1>3, LookupTyped DEF TypeOK, CacheType
  <2> HIDE DEF c
  <2>2. CacheAfterDelete(c, h) \in CacheType BY <2>1 DEF CacheAfterDelete, CacheType
  <2>3. thread_cb_cache_' = [thread_cb_cache_ EXCEPT ![t] = CacheAfterDelete(c, h)]
    BY <1>1 DEF c
  <2>4. QED BY <2>2, <2>3 DEF TypeOK, CacheType
<1>10. call' \in [Threads -> [op : {"idle", "allocate", "free", "destroy"},
                              pool : Pools \cup {None}, handles : SUBSET Handles]]
  BY <1>2 DEF TypeOK, Idle
<1>11. deleted_by' \in [Handles -> Threads \cup {None}] BY <1>1 DEF TypeOK
<1>12. QED BY <1>2, <1>5, <1>6, <1>7, <1>8, <1>9, <1>10, <1>11 DEF TypeOK, CacheType

LEMMA PostDestroyTyped ==
  ASSUME TypeOK, Room, NEW t \in Threads, PostDestroyPool(t)
  PROVE  (TypeOK /\ Room)'
<1>1. PICK found :
        /\ command_buffers_' = Kept(command_buffers_, Handles \ found)
        /\ global_commandbuffer_map_' =
             [h \in Handles |-> IF h \in found THEN 0 ELSE global_commandbuffer_map_[h]]
        /\ thread_cb_cache_' =
             [thread_cb_cache_ EXCEPT ![t].vkcb = IF found = {} THEN @ ELSE NoHandle]
        /\ deleted_by' = [h \in Handles |-> IF h \in found THEN t ELSE deleted_by[h]]
        /\ pool_buffers' = [pool_buffers EXCEPT ![call[t].pool] = <<>>]
  BY DEF PostDestroyPool
<1>2. /\ call[t].op = "destroy"
      /\ call' = [call EXCEPT ![t] = Idle]
      /\ UNCHANGED <<driver_pool, created, reused_early>>
  BY DEF PostDestroyPool
<1>3. Allocating' = Allocating BY <1>2 DEF TypeOK, Allocating, Idle
<1>4. Room' BY <1>2, <1>3 DEF Room
<1>5. global_commandbuffer_map_' \in [Handles -> Objects]
  BY <1>1, MaxObjectsAssumption DEF TypeOK, Objects
<1>6. command_buffers_' \in Seq(Handles) BY <1>1, KeptKeeps DEF TypeOK
<1>7. pool_buffers' \in [Pools -> Seq(Handles)]
  <2>1. <<>> \in Seq(Handles) OBVIOUS
  <2>2. QED BY <1>1, <2>1 DEF TypeOK
<1>8. thread_cb_cache_' \in [Agents -> CacheType]
  BY <1>1 DEF TypeOK, CacheType
<1>9. call' \in [Threads -> [op : {"idle", "allocate", "free", "destroy"},
                             pool : Pools \cup {None}, handles : SUBSET Handles]]
  BY <1>2 DEF TypeOK, Idle
<1>10. deleted_by' \in [Handles -> Threads \cup {None}] BY <1>1 DEF TypeOK
<1>11. QED BY <1>2, <1>4, <1>5, <1>6, <1>7, <1>8, <1>9, <1>10 DEF TypeOK, CacheType

LEMMA StepTyped == TypeOK /\ Room /\ [Next]_vars => (TypeOK /\ Room)'
<1> SUFFICES ASSUME TypeOK, Room, [Next]_vars PROVE (TypeOK /\ Room)'
  OBVIOUS
<1>1. CASE UNCHANGED vars
  BY <1>1 DEF vars, registries, history, TypeOK, Room, Allocating
<1>2. ASSUME NEW t \in Threads, NEW h \in Handles, DriverFree(t, h)
      PROVE  (TypeOK /\ Room)'
  <2>1. driver_pool[h] \in Pools \cup {None} /\ {h} \in SUBSET Handles BY DEF TypeOK
  <2>2. /\ driver_pool' = [driver_pool EXCEPT ![h] = None]
        /\ Enter(t, "free", driver_pool[h], {h})
        /\ UNCHANGED <<registries, history>>
    BY <1>2 DEF DriverFree
  <2>3. driver_pool' \in [Handles -> Pools \cup {None}] BY <2>2 DEF TypeOK
  <2>4. thread_cb_cache_' \in [Agents -> CacheType]
    BY <2>2 DEF TypeOK, CacheType, registries
  <2>5. UNCHANGED <<global_commandbuffer_map_, command_buffers_, pool_buffers, created, history>>
    BY <2>2 DEF registries
  <2>6. QED BY <2>1, <2>2, <2>3, <2>4, <2>5, EnterTyped
<1>3. ASSUME NEW t \in Threads, NEW p \in Pools, DriverDestroyPool(t, p)
      PROVE  (TypeOK /\ Room)'
  <2>1. DriverHandles(p) \in SUBSET Handles BY DEF DriverHandles
  <2>2. /\ driver_pool' =
             [h \in Handles |-> IF driver_pool[h] = p THEN None ELSE driver_pool[h]]
        /\ Enter(t, "destroy", p, DriverHandles(p))
        /\ thread_cb_cache_' =
             [thread_cb_cache_ EXCEPT ![t] = CacheAfterLookups(@, pool_buffers[p])]
        /\ UNCHANGED <<global_commandbuffer_map_, command_buffers_, pool_buffers,
                       created, history>>
    BY <1>3 DEF DriverDestroyPool
  <2>3. driver_pool' \in [Handles -> Pools \cup {None}] BY <2>2 DEF TypeOK
  <2>4. CacheAfterLookups(thread_cb_cache_[t], pool_buffers[p]) \in CacheType
    BY LookupsTyped DEF TypeOK, CacheType, Agents
  <2>5. thread_cb_cache_' \in [Agents -> CacheType] BY <2>2, <2>4 DEF TypeOK, CacheType
  <2>6. QED BY <2>1, <2>2, <2>3, <2>5, EnterTyped
<1>4. ASSUME NEW t \in Threads, NEW h \in Handles, Use(t, h)
      PROVE  (TypeOK /\ Room)'
  <2>1. /\ thread_cb_cache_' =
             [thread_cb_cache_ EXCEPT ![t] = CacheAfterLookup(@, h)]
        /\ UNCHANGED <<driver_pool, call, global_commandbuffer_map_,
                       command_buffers_, pool_buffers, created, history>>
    BY <1>4 DEF Use
  <2>2. CacheAfterLookup(thread_cb_cache_[t], h) \in CacheType
    BY LookupTyped DEF TypeOK, CacheType, Agents
  <2>3. thread_cb_cache_' \in [Agents -> CacheType]
    BY <2>1, <2>2 DEF TypeOK, CacheType
  <2>4. QED BY <2>1, <2>3 DEF TypeOK, CacheType, Room, Allocating, history
<1>5. ASSUME NEW w \in Watchdog, Dump(w)
      PROVE  (TypeOK /\ Room)'
  <2> DEFINE c == CacheAfterLookups(thread_cb_cache_[w], command_buffers_)
  <2>1. c \in CacheType BY LookupsTyped DEF TypeOK, CacheType, Agents
  <2>2. /\ thread_cb_cache_' = [thread_cb_cache_ EXCEPT ![w] = c]
        /\ UNCHANGED <<driver_pool, call, global_commandbuffer_map_,
                       command_buffers_, pool_buffers, created, history>>
    BY <1>5 DEF Dump
  <2> HIDE DEF c
  <2>3. thread_cb_cache_' \in [Agents -> CacheType]
    BY <2>1, <2>2 DEF TypeOK, CacheType
  <2>4. QED BY <2>2, <2>3 DEF TypeOK, CacheType, Room, Allocating, history
<1>6. QED
  BY <1>1, <1>2, <1>3, <1>4, <1>5, AllocateTyped, PostAllocateTyped, PostFreeTyped,
     PostDestroyTyped
  DEF Next

(* The registries, the caches, those of the dumping threads included, and  *)
(* the calls keep their types (command_buffer_tracker.cc, command_pool.cc, *)
(* device.cc), whichever threads use a handle.                             *)
THEOREM TypeCorrect == Spec => []TypeOK
<1>1. Init => TypeOK /\ Room BY InitTyped
<1>2. TypeOK /\ Room /\ [Next]_vars => (TypeOK /\ Room)' BY StepTyped
<1>3. QED BY <1>1, <1>2, PTL DEF Spec

-----------------------------------------------------------------------------
(* The invariant: first what holds of all handles, then what holds of the  *)
(* ones that were not reused early.                                        *)

Frees == {"free", "destroy"}

\* No two calls are on one pool; an allocation or a free names one handle.
CallsApart ==
  \A t \in Threads :
    /\ call[t].op = "idle" => call[t] = Idle
    /\ call[t].op # "idle" => call[t].pool \in Pools
    /\ call[t].op \in {"allocate", "free"} =>
         \E h \in Handles : call[t].handles = {h}
    /\ \A u \in Threads \ {t} : call[t].op # "idle" => call[u].pool # call[t].pool

\* A pool lists what the driver has of it, but for the handles of a call on it.
PoolsKnown ==
  /\ pool_buffers \in [Pools -> HandleLists]
  /\ \A p \in Pools : \A h \in Handles :
       (\A t \in Threads : call[t].pool = p => h \notin call[t].handles) =>
         (h \in ToSet(pool_buffers[p]) <=> driver_pool[h] = p)

\* The driver has the handle of an allocation in its pool, and the layer's list
\* of the pool does not.
AllocatedUnlisted ==
  \A t \in Threads : call[t].op = "allocate" =>
    \A h \in call[t].handles :
      driver_pool[h] = call[t].pool /\ h \notin ToSet(pool_buffers[call[t].pool])

\* The layer's list of the pool has the handles of a call that frees, and the
\* driver does not have them in that pool.
FreedListed ==
  \A t \in Threads : call[t].op \in Frees =>
    \A h \in call[t].handles :
      driver_pool[h] # call[t].pool /\ h \in ToSet(pool_buffers[call[t].pool])

DestroyedEmpty ==
  \A t \in Threads : call[t].op = "destroy" =>
    \A h \in Handles : driver_pool[h] # call[t].pool

\* A cached object is never null.
CachedSome ==
  \A t \in Threads :
    thread_cb_cache_[t].vkcb # NoHandle => thread_cb_cache_[t].gfrcb # 0

\* One call at a time names the handle.
NamedOnce ==
  \A h \in Handles \ reused_early : \A t, u \in Threads :
    h \in call[t].handles /\ h \in call[u].handles => t = u

\* Outside a call, the layer knows what the driver has.
HandlesKnown ==
  \A h \in Handles \ reused_early : ~InCall(h) =>
    (global_commandbuffer_map_[h] = 0) = (driver_pool[h] = None)

\* Inside an allocation, the driver alone has the handle.
AllocatedUnknown ==
  \A t \in Threads : call[t].op = "allocate" =>
    \A h \in call[t].handles \ reused_early : global_commandbuffer_map_[h] = 0

\* Inside a call that frees, the layer alone has the handles.
FreedKnown ==
  \A t \in Threads : call[t].op \in Frees =>
    \A h \in call[t].handles \ reused_early :
      global_commandbuffer_map_[h] # 0 /\ driver_pool[h] = None

\* The device's list has the handle once at most.
DeviceListsOnce == \A h \in Handles \ reused_early : Once(command_buffers_, h)

\* What a thread has cached is what the map holds, unless another thread has
\* deleted an object of the handle.
CachesTrue ==
  \A h \in Handles \ reused_early : \A t \in Threads :
    thread_cb_cache_[t].vkcb = h /\ deleted_by[h] \in {t, None} =>
      /\ global_commandbuffer_map_[h] # 0
      /\ thread_cb_cache_[t].gfrcb = global_commandbuffer_map_[h]

Always == CallsApart /\ PoolsKnown /\ AllocatedUnlisted /\ FreedListed /\ DestroyedEmpty

NotEarly ==
  NamedOnce /\ HandlesKnown /\ AllocatedUnknown /\ FreedKnown

IInv ==
  Always /\ NotEarly /\ CachedSome /\ CachesTrue /\ ListNamesTheMap /\ DeviceListsOnce

LEMMA InitEstablishes == Init => IInv
<1> SUFFICES ASSUME Init PROVE IInv OBVIOUS
<1>1. /\ \A h \in Handles : driver_pool[h] = None /\ global_commandbuffer_map_[h] = 0
      /\ \A t \in Threads : call[t] = Idle /\ call[t].op = "idle"
      /\ \A t \in Threads : thread_cb_cache_[t] = EmptyCache
      /\ pool_buffers = [p \in Pools |-> <<>>]
      /\ command_buffers_ = <<>>
  BY DEF Init, Agents, Idle
<1>2. Always
  <2>1. CallsApart BY <1>1 DEF CallsApart
  <2>2. PoolsKnown
    <3>1. pool_buffers \in [Pools -> HandleLists] BY <1>1, EmptyList
    <3>2. \A p \in Pools : ToSet(pool_buffers[p]) = {} BY <1>1, EmptyList
    <3>3. QED BY <1>1, <3>1, <3>2, NamesAssumption DEF PoolsKnown
  <2>3. AllocatedUnlisted /\ FreedListed /\ DestroyedEmpty
    BY <1>1 DEF AllocatedUnlisted, FreedListed, DestroyedEmpty, Idle, Frees
  <2>4. QED BY <2>1, <2>2, <2>3 DEF Always
<1>3. NotEarly
  BY <1>1 DEF NotEarly, NamedOnce, HandlesKnown, AllocatedUnknown, FreedKnown, Idle, Frees
<1>4. CachedSome /\ CachesTrue
  BY <1>1, NamesAssumption DEF CachedSome, CachesTrue, EmptyCache
<1>5. ListNamesTheMap BY <1>1, EmptyList DEF ListNamesTheMap
<1>6. DeviceListsOnce
  BY <1>1, EmptyList DEF DeviceListsOnce, Once, HandleLists, NoDuplicates
<1>7. QED BY <1>2, <1>3, <1>4, <1>5, <1>6 DEF IInv

\* A handle that the driver has and that no allocation names is in no call,
\* unless it was reused early.
LEMMA HadIsFree ==
  ASSUME TypeOK, Always, NotEarly, NEW h \in Handles \ reused_early, driver_pool[h] # None,
         \A t \in Threads : call[t].op = "allocate" => h \notin call[t].handles
  PROVE  ~InCall(h) /\ global_commandbuffer_map_[h] # 0
<1>1. ASSUME NEW t \in Threads, h \in call[t].handles PROVE FALSE
  <2>1. call[t].op # "idle" BY <1>1 DEF Always, CallsApart, Idle
  <2>2. call[t].op \in Frees BY <1>1, <2>1 DEF TypeOK, Frees
  <2>3. QED BY <1>1, <2>2 DEF NotEarly, FreedKnown
<1>2. QED BY <1>1 DEF InCall, NotEarly, HandlesKnown

LEMMA Coherent == TypeOK /\ IInv => LookupsAreCoherent
<1> SUFFICES ASSUME TypeOK, IInv, NEW h \in Handles \ reused_early, NEW t \in Threads,
                    Usable(h)
             PROVE  /\ Lookup(thread_cb_cache_[t], h) # 0
                    /\ deleted_by[h] \in {t, None} =>
                         Lookup(thread_cb_cache_[t], h) = global_commandbuffer_map_[h]
  BY DEF LookupsAreCoherent
<1>1. global_commandbuffer_map_[h] # 0 BY HadIsFree DEF IInv, Usable
<1>2. h # NoHandle BY NamesAssumption
<1>3. QED BY <1>1, <1>2 DEF IInv, CachedSome, CachesTrue, Lookup

LEMMA Agreement == TypeOK /\ IInv => RegistriesAgree
<1> SUFFICES ASSUME TypeOK, IInv PROVE RegistriesAgree OBVIOUS
<1>1. PoolsListTheirOwn
  <2> SUFFICES ASSUME NEW p \in Pools, PoolFree(p), NEW h \in Handles
               PROVE  Occurrences(pool_buffers[p], h) = One(driver_pool[h] = p)
    BY DEF PoolsListTheirOwn
  <2>1. (h \in ToSet(pool_buffers[p])) = (driver_pool[h] = p)
    BY DEF IInv, Always, PoolsKnown, PoolFree
  <2>2. Once(pool_buffers[p], h)
    BY DEF IInv, Always, PoolsKnown, HandleLists, NoDuplicates, Once
  <2>3. QED BY <2>1, <2>2, ListedOnce
<1>2. AddedOnce
  BY DEF IInv, NotEarly, AllocatedUnknown, ListNamesTheMap, AddedOnce, TypeOK
<1>3. KnownWhileAllocated
  <2> SUFFICES ASSUME NEW h \in Handles \ reused_early, ~InCall(h)
               PROVE  /\ (global_commandbuffer_map_[h] # 0) = (driver_pool[h] # None)
                      /\ Occurrences(command_buffers_, h) = One(driver_pool[h] # None)
    BY DEF KnownWhileAllocated
  <2>1. (global_commandbuffer_map_[h] # 0) = (driver_pool[h] # None)
    BY DEF IInv, NotEarly, HandlesKnown
  <2>2. (h \in ToSet(command_buffers_)) = (driver_pool[h] # None)
    BY <2>1 DEF IInv, ListNamesTheMap
  <2>3. Once(command_buffers_, h) BY DEF IInv, DeviceListsOnce
  <2>4. QED BY <2>1, <2>2, <2>3, ListedOnce
<1>4. QED BY <1>1, <1>2, <1>3 DEF RegistriesAgree, IInv

-----------------------------------------------------------------------------
(* The calls begin.                                                        *)

\* A call that begins: it is apart from the others.
LEMMA Entered ==
  ASSUME TypeOK, Always, NEW t \in Threads, NEW op \in {"allocate", "free", "destroy"},
         NEW p \in Pools, NEW H \in SUBSET Handles, Enter(t, op, p, H),
         op # "destroy" => \E h \in Handles : H = {h}
  PROVE  /\ CallsApart'
         /\ call[t] = Idle /\ call'[t] = [op |-> op, pool |-> p, handles |-> H]
         /\ \A u \in Threads \ {t} : call'[u] = call[u] /\ call[u].pool # p
<1>1. /\ call[t] = Idle
      /\ \A u \in Threads : call[u].pool # p
      /\ call' = [call EXCEPT ![t] = [op |-> op, pool |-> p, handles |-> H]]
  BY DEF Enter, PoolFree
<1>2. /\ call'[t] = [op |-> op, pool |-> p, handles |-> H]
      /\ \A u \in Threads \ {t} : call'[u] = call[u]
  BY <1>1 DEF TypeOK
<1>3. CallsApart' BY <1>1, <1>2 DEF Always, CallsApart
<1>4. QED BY <1>1, <1>2, <1>3

\* The driver's list of a pool changes by what the call names.
LEMMA PoolsStayKnown ==
  ASSUME TypeOK, Always, NEW t \in Threads, NEW p \in Pools, NEW H \in SUBSET Handles,
         call[t] = Idle, call'[t].pool = p, call'[t].handles = H,
         \A u \in Threads \ {t} : call'[u] = call[u],
         pool_buffers' = pool_buffers,
         \A h \in Handles \ H : \A q \in Pools : driver_pool'[h] = q <=> driver_pool[h] = q,
         \A h \in H : \A q \in Pools \ {p} : driver_pool'[h] = q <=> driver_pool[h] = q
  PROVE  PoolsKnown'
<1> SUFFICES ASSUME NEW q \in Pools, NEW h \in Handles,
                    \A u \in Threads : call'[u].pool = q => h \notin call'[u].handles
             PROVE  h \in ToSet(pool_buffers[q]) <=> driver_pool'[h] = q
  BY DEF Always, PoolsKnown
<1>1. driver_pool'[h] = q <=> driver_pool[h] = q OBVIOUS
<1>2. \A u \in Threads : call[u].pool = q => h \notin call[u].handles BY DEF Idle
<1>3. QED BY <1>1, <1>2 DEF Always, PoolsKnown

LEMMA AllocateKeeps ==
  ASSUME TypeOK, IInv, NEW t \in Threads, NEW p \in Pools, NEW h \in Handles,
         DriverAllocate(t, p, h)
  PROVE  IInv'
<1>1. /\ driver_pool[h] = None
      /\ Enter(t, "allocate", p, {h})
      /\ driver_pool' = [driver_pool EXCEPT ![h] = p]
      /\ reused_early' = reused_early \cup {g \in {h} : InCall(g)}
      /\ UNCHANGED <<registries, deleted_by>>
  BY DEF DriverAllocate
<1>2. UNCHANGED <<global_commandbuffer_map_, thread_cb_cache_, command_buffers_,
                  pool_buffers, deleted_by>>
  BY <1>1 DEF registries
<1>3. /\ CallsApart'
      /\ call[t] = Idle
      /\ call'[t] = [op |-> "allocate", pool |-> p, handles |-> {h}]
      /\ \A u \in Threads \ {t} : call'[u] = call[u] /\ call[u].pool # p
  BY <1>1, Entered DEF IInv
<1>4. driver_pool'[h] = p /\ \A g \in Handles \ {h} : driver_pool'[g] = driver_pool[g]
  BY <1>1 DEF TypeOK
<1>5. reused_early \subseteq reused_early' /\ (h \notin reused_early' => ~InCall(h))
  BY <1>1
<1>6. PoolsKnown'
  BY <1>1, <1>2, <1>3, <1>4, NamesAssumption, PoolsStayKnown DEF IInv
<1>7. AllocatedUnlisted'
  <2>1. h \notin ToSet(pool_buffers[p])
    BY <1>1, <1>3, NamesAssumption DEF IInv, Always, PoolsKnown, Idle
  <2>2. ASSUME NEW u \in Threads \ {t}, call[u].op = "allocate", NEW g \in call[u].handles
        PROVE  driver_pool'[g] = call[u].pool /\ g \notin ToSet(pool_buffers[call[u].pool])
    <3>1. /\ driver_pool[g] = call[u].pool /\ g \notin ToSet(pool_buffers[call[u].pool])
          /\ g \in Handles /\ call[u].pool \in Pools
      BY <2>2 DEF IInv, Always, AllocatedUnlisted, CallsApart, TypeOK
    <3>2. QED BY <1>1, <1>4, <3>1, NamesAssumption
  <2>3. QED BY <1>2, <1>3, <1>4, <2>1, <2>2 DEF AllocatedUnlisted
<1>8. FreedListed'
  BY <1>2, <1>3, <1>4 DEF IInv, Always, FreedListed, Frees, TypeOK
<1>9. DestroyedEmpty' BY <1>3, <1>4 DEF IInv, Always, DestroyedEmpty
<1>10. NamedOnce'
  BY <1>3, <1>5 DEF IInv, NotEarly, NamedOnce, InCall
<1>11. HandlesKnown'
  <2> SUFFICES ASSUME NEW g \in Handles \ reused_early', ~InCall(g)'
               PROVE  (global_commandbuffer_map_[g] = 0) = (driver_pool'[g] = None)
    BY <1>2 DEF HandlesKnown
  <2>1. g # h BY <1>3 DEF InCall
  <2>2. ~InCall(g) BY <1>3 DEF InCall, Idle
  <2>3. QED BY <1>4, <1>5, <2>1, <2>2 DEF IInv, NotEarly, HandlesKnown
<1>12. AllocatedUnknown'
  <2>1. h \notin reused_early' => global_commandbuffer_map_[h] = 0
    BY <1>1, <1>5 DEF IInv, NotEarly, HandlesKnown
  <2>2. QED BY <1>2, <1>3, <1>5, <2>1 DEF IInv, NotEarly, AllocatedUnknown
<1>13. FreedKnown'
  <2> SUFFICES ASSUME NEW u \in Threads, call'[u].op \in Frees,
                      NEW g \in call'[u].handles \ reused_early'
               PROVE  global_commandbuffer_map_[g] # 0 /\ driver_pool'[g] = None
    BY <1>2 DEF FreedKnown
  <2>1. u # t /\ call'[u] = call[u] BY <1>3 DEF Frees
  <2>2. g # h BY <1>5, <2>1 DEF InCall
  <2>3. g \in Handles BY <2>1 DEF TypeOK
  <2>4. QED BY <1>4, <1>5, <2>1, <2>2, <2>3 DEF IInv, NotEarly, FreedKnown
<1>14. CachedSome' /\ CachesTrue' /\ ListNamesTheMap' /\ DeviceListsOnce'
  BY <1>2, <1>5 DEF IInv, CachedSome, CachesTrue, ListNamesTheMap, DeviceListsOnce
<1>15. QED
  BY <1>3, <1>6, <1>7, <1>8, <1>9, <1>10, <1>11, <1>12, <1>13, <1>14
  DEF IInv, Always, NotEarly

\* A call takes from the driver handles of a pool: a free one of them, the
\* destruction of the pool all.
LEMMA FreeBegins ==
  ASSUME TypeOK, IInv, NEW t \in Threads, NEW op \in Frees, NEW p \in Pools,
         NEW H \in SUBSET Handles,
         Enter(t, op, p, H),
         op = "free" => \E h \in Handles : H = {h},
         op = "destroy" => \A h \in Handles : driver_pool[h] = p => h \in H,
         \A h \in H : driver_pool[h] = p /\ driver_pool'[h] = None,
         \A h \in Handles \ H : driver_pool'[h] = driver_pool[h],
         UNCHANGED <<global_commandbuffer_map_, pool_buffers, command_buffers_, history>>
  PROVE  Always' /\ NotEarly' /\ ListNamesTheMap' /\ DeviceListsOnce'
<1>1. /\ CallsApart'
      /\ call[t] = Idle /\ call'[t] = [op |-> op, pool |-> p, handles |-> H]
      /\ \A u \in Threads \ {t} : call'[u] = call[u] /\ call[u].pool # p
  BY Entered DEF IInv, Frees
<1>2. PoolsKnown'
  BY <1>1, NamesAssumption, PoolsStayKnown DEF IInv
<1>3. ASSUME NEW u \in Threads \ {t}, call[u].op = "allocate", NEW g \in call[u].handles
      PROVE  g \notin H
  BY <1>1, <1>3 DEF IInv, Always, AllocatedUnlisted
<1>4. AllocatedUnlisted'
  <2> SUFFICES ASSUME NEW u \in Threads, call'[u].op = "allocate", NEW g \in call'[u].handles
               PROVE  /\ driver_pool'[g] = call'[u].pool
                      /\ g \notin ToSet(pool_buffers[call'[u].pool])
    BY DEF AllocatedUnlisted
  <2>1. u # t /\ call'[u] = call[u] BY <1>1 DEF Frees
  <2>2. g \in Handles \ H BY <1>3, <2>1 DEF TypeOK
  <2>3. QED BY <2>1, <2>2 DEF IInv, Always, AllocatedUnlisted
<1>5. FreedListed'
  <2> SUFFICES ASSUME NEW u \in Threads, call'[u].op \in Frees, NEW g \in call'[u].handles
               PROVE  /\ driver_pool'[g] # call'[u].pool
                      /\ g \in ToSet(pool_buffers[call'[u].pool])
    BY DEF FreedListed
  <2>1. CASE u = t
    <3>1. g \in H /\ call'[u].pool = p BY <1>1, <2>1
    <3>2. \A v \in Threads : call[v].pool = p => g \notin call[v].handles
      BY <1>1 DEF Idle
    <3>3. g \in ToSet(pool_buffers[p])
      BY <3>1, <3>2 DEF IInv, Always, PoolsKnown
    <3>4. QED BY <3>1, <3>3, NamesAssumption
  <2>2. CASE u # t
    <3>1. call'[u] = call[u] BY <1>1, <2>2
    <3>2. /\ driver_pool[g] # call[u].pool /\ g \in ToSet(pool_buffers[call[u].pool])
          /\ g \in Handles
      BY <3>1 DEF IInv, Always, FreedListed, TypeOK
    <3>3. call[u].pool # None
      <4>1. call[u].op # "idle" BY <3>1 DEF Frees
      <4>2. QED BY <4>1, NamesAssumption DEF IInv, Always, CallsApart
    <3>4. QED BY <3>1, <3>2, <3>3
  <2>3. QED BY <2>1, <2>2
<1>6. DestroyedEmpty'
  <2> SUFFICES ASSUME NEW u \in Threads, call'[u].op = "destroy", NEW g \in Handles
               PROVE  driver_pool'[g] # call'[u].pool
    BY DEF DestroyedEmpty
  <2>1. CASE u = t BY <1>1, <2>1, NamesAssumption
  <2>2. CASE u # t
    <3>1. call'[u] = call[u] BY <1>1, <2>2
    <3>2. call[u].pool \in Pools BY <3>1 DEF IInv, Always, CallsApart
    <3>3. QED BY <3>1, <3>2, NamesAssumption DEF IInv, Always, DestroyedEmpty
  <2>3. QED BY <2>1, <2>2
<1>7. ASSUME NEW h \in H \ reused_early
      PROVE  ~InCall(h) /\ global_commandbuffer_map_[h] # 0
  <2>1. \A u \in Threads : call[u].op = "allocate" => h \notin call[u].handles
    BY <1>1, <1>3 DEF Idle
  <2>2. QED BY <2>1, HadIsFree, NamesAssumption DEF IInv
<1>8. reused_early' = reused_early BY DEF history
<1>9. NamedOnce' BY <1>1, <1>7, <1>8 DEF IInv, NotEarly, NamedOnce, InCall
<1>10. HandlesKnown'
  <2> SUFFICES ASSUME NEW g \in Handles \ reused_early, ~InCall(g)'
               PROVE  (global_commandbuffer_map_[g] = 0) = (driver_pool'[g] = None)
    BY <1>8 DEF HandlesKnown
  <2>1. g \notin H BY <1>1 DEF InCall
  <2>2. ~InCall(g) BY <1>1 DEF InCall, Idle
  <2>3. QED BY <2>1, <2>2 DEF IInv, NotEarly, HandlesKnown
<1>11. AllocatedUnknown'
  BY <1>1, <1>8 DEF IInv, NotEarly, AllocatedUnknown, Frees
<1>12. FreedKnown'
  <2> SUFFICES ASSUME NEW u \in Threads, call'[u].op \in Frees,
                      NEW g \in call'[u].handles \ reused_early
               PROVE  global_commandbuffer_map_[g] # 0 /\ driver_pool'[g] = None
    BY <1>8 DEF FreedKnown
  <2>1. CASE u = t BY <1>1, <1>7, <2>1
  <2>2. CASE u # t
    <3>1. call'[u] = call[u] BY <1>1, <2>2
    <3>2. g \in Handles BY <3>1 DEF TypeOK
    <3>3. QED BY <3>1, <3>2 DEF IInv, NotEarly, FreedKnown
  <2>3. QED BY <2>1, <2>2
<1>13. ListNamesTheMap' /\ DeviceListsOnce'
  BY <1>8 DEF IInv, ListNamesTheMap, DeviceListsOnce
<1>14. QED BY <1>1, <1>2, <1>4, <1>5, <1>6, <1>9, <1>10, <1>11, <1>12, <1>13
  DEF Always, NotEarly

\* A thread looks handles up: what it then has cached is what the map holds.
LEMMA LooksUp ==
  ASSUME TypeOK, CachedSome, CachesTrue, NEW a \in Agents, NEW c,
         thread_cb_cache_' = [thread_cb_cache_ EXCEPT ![a] = c],
         \/ c = thread_cb_cache_[a]
         \/ \E h \in Handles :
              /\ global_commandbuffer_map_[h] # 0
              /\ c = [vkcb |-> h, gfrcb |-> global_commandbuffer_map_[h]],
         UNCHANGED <<global_commandbuffer_map_, history>>
  PROVE  CachedSome' /\ CachesTrue'
<1>1. /\ thread_cb_cache_'[a] = c
      /\ \A u \in Threads \ {a} : thread_cb_cache_'[u] = thread_cb_cache_[u]
  BY DEF TypeOK, Agents
<1>2. CachedSome' BY <1>1 DEF CachedSome
<1>3. CachesTrue' BY <1>1 DEF CachesTrue, history
<1>4. QED BY <1>2, <1>3

LEMMA FreeKeeps ==
  ASSUME TypeOK, IInv, NEW t \in Threads, NEW h \in Handles, DriverFree(t, h)
  PROVE  IInv'
<1>1. /\ driver_pool[h] # None
      /\ driver_pool' = [driver_pool EXCEPT ![h] = None]
      /\ Enter(t, "free", driver_pool[h], {h})
      /\ UNCHANGED <<registries, history>>
  BY DEF DriverFree
<1>2. /\ driver_pool[h] \in Pools
      /\ driver_pool'[h] = None
      /\ \A g \in Handles \ {h} : driver_pool'[g] = driver_pool[g]
  BY <1>1 DEF TypeOK
<1>3. Always' /\ NotEarly' /\ ListNamesTheMap' /\ DeviceListsOnce'
  BY <1>1, <1>2, FreeBegins DEF Frees, registries
<1>4. CachedSome' /\ CachesTrue'
  BY <1>1 DEF IInv, CachedSome, CachesTrue, registries, history
<1>5. QED BY <1>3, <1>4 DEF IInv

LEMMA DestroyKeeps ==
  ASSUME TypeOK, IInv, NEW t \in Threads, NEW p \in Pools, DriverDestroyPool(t, p)
  PROVE  IInv'
<1> DEFINE H == DriverHandles(p)
<1>1. /\ driver_pool' =
           [h \in Handles |-> IF driver_pool[h] = p THEN None ELSE driver_pool[h]]
      /\ Enter(t, "destroy", p, H)
      /\ thread_cb_cache_' =
           [thread_cb_cache_ EXCEPT ![t] = CacheAfterLookups(@, pool_buffers[p])]
      /\ UNCHANGED <<global_commandbuffer_map_, command_buffers_, pool_buffers, history>>
  BY DEF DriverDestroyPool
<1>2. H \in SUBSET Handles /\ \A h \in Handles : h \in H <=> driver_pool[h] = p
  BY DEF DriverHandles
<1> HIDE DEF H
<1>3. /\ \A h \in H : driver_pool[h] = p /\ driver_pool'[h] = None
      /\ \A h \in Handles \ H : driver_pool'[h] = driver_pool[h]
  BY <1>1, <1>2
<1>4. Always' /\ NotEarly' /\ ListNamesTheMap' /\ DeviceListsOnce'
  BY <1>1, <1>2, <1>3, FreeBegins DEF Frees
<1>5. CachedSome' /\ CachesTrue'
  <2> DEFINE c == CacheAfterLookups(thread_cb_cache_[t], pool_buffers[p])
  <2>1. pool_buffers[p] \in Seq(Handles) /\ t \in Agents BY DEF TypeOK, Agents
  <2>2. \/ c = thread_cb_cache_[t]
        \/ \E h \in Handles :
             /\ global_commandbuffer_map_[h] # 0
             /\ c = [vkcb |-> h, gfrcb |-> global_commandbuffer_map_[h]]
    BY <2>1, AfterLookups
  <2>3. thread_cb_cache_' = [thread_cb_cache_ EXCEPT ![t] = c] BY <1>1
  <2> HIDE DEF c
  <2>4. QED BY <1>1, <2>1, <2>2, <2>3, LooksUp DEF IInv
<1>6. QED BY <1>4, <1>5 DEF IInv

LEMMA UseKeeps ==
  ASSUME TypeOK, IInv, NEW t \in Threads, NEW h \in Handles, Use(t, h)
  PROVE  IInv'
<1>1. /\ thread_cb_cache_' = [thread_cb_cache_ EXCEPT ![t] = CacheAfterLookup(@, h)]
      /\ UNCHANGED <<driver_pool, call, global_commandbuffer_map_, command_buffers_,
                     pool_buffers, history>>
  BY DEF Use
<1>2. CachedSome' /\ CachesTrue'
  BY <1>1, LooksUp DEF IInv, CacheAfterLookup, Agents
<1>3. QED BY <1>1, <1>2
  DEF IInv, Always, NotEarly, CallsApart, PoolsKnown, AllocatedUnlisted, FreedListed,
      DestroyedEmpty, NamedOnce, HandlesKnown, AllocatedUnknown, FreedKnown, InCall,
      ListNamesTheMap, DeviceListsOnce, history

LEMMA DumpKeeps ==
  ASSUME TypeOK, IInv, NEW w \in Watchdog, Dump(w)
  PROVE  IInv'
<1>1. UNCHANGED <<driver_pool, call, global_commandbuffer_map_, command_buffers_,
                  pool_buffers, history>>
  BY DEF Dump
<1>2. \A t \in Threads : thread_cb_cache_'[t] = thread_cb_cache_[t]
  BY WatchdogAssumption DEF Dump, TypeOK, Agents
<1>3. CachedSome' /\ CachesTrue'
  BY <1>1, <1>2 DEF IInv, CachedSome, CachesTrue, history
<1>4. QED BY <1>1, <1>3
  DEF IInv, Always, NotEarly, CallsApart, PoolsKnown, AllocatedUnlisted, FreedListed,
      DestroyedEmpty, NamedOnce, HandlesKnown, AllocatedUnknown, FreedKnown, InCall,
      ListNamesTheMap, DeviceListsOnce, history

-----------------------------------------------------------------------------
(* The calls end.                                                          *)

\* A call that ends leaves the others as they are.
LEMMA CallEnds ==
  ASSUME TypeOK, Always, NEW t \in Threads, call' = [call EXCEPT ![t] = Idle]
  PROVE  /\ CallsApart'
         /\ call'[t] = Idle /\ call'[t].op = "idle" /\ call'[t].handles = {}
         /\ \A u \in Threads \ {t} : call'[u] = call[u]
         /\ call[t].op # "idle" =>
              \A u \in Threads \ {t} : call[u].pool # call[t].pool
<1>1. /\ call'[t] = Idle /\ call'[t].op = "idle" /\ call'[t].handles = {}
      /\ call'[t].pool = None
      /\ \A u \in Threads \ {t} : call'[u] = call[u]
  BY DEF TypeOK, Idle
<1>2. CallsApart'
  BY <1>1, NamesAssumption DEF Always, CallsApart
<1>3. QED BY <1>1, <1>2 DEF Always, CallsApart

\* The end of a call changes what the registries have of its handles and its
\* pool: how they must be then, and that they are as before otherwise.
LEMMA CallEnded ==
  ASSUME TypeOK, IInv, NEW t \in Threads, call[t].op # "idle",
         NEW p \in Pools, call[t].pool = p, NEW H \in SUBSET Handles, call[t].handles = H,
         call' = [call EXCEPT ![t] = Idle],
         driver_pool' = driver_pool, reused_early' = reused_early,
         pool_buffers' \in [Pools -> HandleLists],
         \A q \in Pools \ {p} : pool_buffers'[q] = pool_buffers[q],
         \A h \in Handles : h \in ToSet(pool_buffers'[p]) <=> driver_pool[h] = p,
         \A h \in H \ reused_early :
           (global_commandbuffer_map_'[h] = 0) = (driver_pool[h] = None),
         \A h \in Handles \ H :
           global_commandbuffer_map_'[h] = global_commandbuffer_map_[h]
  PROVE  Always' /\ NotEarly'
<1>1. /\ CallsApart'
      /\ call'[t] = Idle /\ call'[t].op = "idle" /\ call'[t].handles = {}
      /\ \A u \in Threads \ {t} : call'[u] = call[u] /\ call[u].pool # p
  BY CallEnds DEF IInv
<1>2. PoolsKnown'
  <2> SUFFICES ASSUME NEW q \in Pools, NEW h \in Handles,
                      \A u \in Threads : call'[u].pool = q => h \notin call'[u].handles
               PROVE  h \in ToSet(pool_buffers'[q]) <=> driver_pool[h] = q
    BY DEF PoolsKnown
  <2>1. CASE q = p BY <2>1
  <2>2. CASE q # p
    <3>1. \A u \in Threads : call[u].pool = q => h \notin call[u].handles
      BY <1>1, <2>2
    <3>2. QED BY <2>2, <3>1 DEF IInv, Always, PoolsKnown
  <2>3. QED BY <2>1, <2>2
<1>3. ASSUME NEW u \in Threads, call'[u].op # "idle"
      PROVE  /\ u # t /\ call'[u] = call[u] /\ call[u].pool \in Pools \ {p}
             /\ pool_buffers'[call[u].pool] = pool_buffers[call[u].pool]
             /\ call[u].handles \subseteq Handles
             /\ \A g \in call[u].handles \ reused_early : g \notin H
  <2>1. u # t /\ call'[u] = call[u] BY <1>1, <1>3
  <2>2. call[u].pool \in Pools \ {p} BY <1>1, <1>3, <2>1 DEF IInv, Always, CallsApart
  <2>3. call[u].handles \subseteq Handles BY DEF TypeOK
  <2>4. \A g \in call[u].handles \ reused_early : g \notin H
    BY <2>1, <2>3 DEF IInv, NotEarly, NamedOnce
  <2>5. QED BY <2>1, <2>2, <2>3, <2>4
<1>4. AllocatedUnlisted' /\ FreedListed' /\ DestroyedEmpty'
  BY <1>3 DEF IInv, Always, AllocatedUnlisted, FreedListed, DestroyedEmpty, Frees
<1>5. NamedOnce' BY <1>1 DEF IInv, NotEarly, NamedOnce
<1>6. HandlesKnown'
  <2> SUFFICES ASSUME NEW g \in Handles \ reused_early, ~InCall(g)'
               PROVE  (global_commandbuffer_map_'[g] = 0) = (driver_pool[g] = None)
    BY DEF HandlesKnown
  <2>1. CASE g \in H BY <2>1
  <2>2. CASE g \notin H
    <3>1. ~InCall(g) BY <1>1, <2>2 DEF InCall
    <3>2. QED BY <2>2, <3>1 DEF IInv, NotEarly, HandlesKnown
  <2>3. QED BY <2>1, <2>2
<1>7. AllocatedUnknown'
  BY <1>3 DEF IInv, NotEarly, AllocatedUnknown
<1>8. FreedKnown'
  BY <1>3 DEF IInv, NotEarly, FreedKnown, Frees
<1>9. QED BY <1>1, <1>2, <1>4, <1>5, <1>6, <1>7, <1>8 DEF Always, NotEarly

LEMMA PostAllocateKeeps ==
  ASSUME TypeOK, IInv, NEW t \in Threads, PostAllocate(t)
  PROVE  IInv'
<1> DEFINE p == call[t].pool
<1>1. PICK h \in call[t].handles :
        /\ pool_buffers' = [pool_buffers EXCEPT ![p] = Append(@, h)]
        /\ global_commandbuffer_map_' =
             [global_commandbuffer_map_ EXCEPT ![h] = created + 1]
        /\ command_buffers_' = Append(command_buffers_, h)
  BY DEF PostAllocate
<1>2. /\ call[t].op = "allocate"
      /\ call' = [call EXCEPT ![t] = Idle]
      /\ UNCHANGED <<driver_pool, thread_cb_cache_, reused_early, deleted_by>>
  BY DEF PostAllocate, history
<1>3. h \in Handles /\ p \in Pools /\ call[t].handles = {h} /\ created \in Nat
  BY <1>1, <1>2 DEF IInv, Always, CallsApart, TypeOK, Objects
<1>4. driver_pool[h] = p /\ h \notin ToSet(pool_buffers[p])
  BY <1>2, <1>3 DEF IInv, Always, AllocatedUnlisted
<1>5. h \notin reused_early => global_commandbuffer_map_[h] = 0
  BY <1>2, <1>3 DEF IInv, NotEarly, AllocatedUnknown
<1> HIDE DEF p
<1>6. /\ Append(pool_buffers[p], h) \in HandleLists
      /\ ToSet(Append(pool_buffers[p], h)) = ToSet(pool_buffers[p]) \cup {h}
  BY <1>3, <1>4, ListWith DEF IInv, Always, PoolsKnown
<1>7. /\ global_commandbuffer_map_'[h] # 0
      /\ \A g \in Handles \ {h} :
           global_commandbuffer_map_'[g] = global_commandbuffer_map_[g]
  BY <1>1, <1>3 DEF TypeOK
<1>8. /\ pool_buffers' \in [Pools -> HandleLists]
      /\ ToSet(pool_buffers'[p]) = ToSet(pool_buffers[p]) \cup {h}
      /\ \A q \in Pools \ {p} : pool_buffers'[q] = pool_buffers[q]
  BY <1>1, <1>3, <1>6 DEF IInv, Always, PoolsKnown
<1>9. ASSUME NEW g \in Handles
      PROVE  g \in ToSet(pool_buffers'[p]) <=> driver_pool[g] = p
  <2>1. CASE g = h BY <1>4, <1>8, <2>1
  <2>2. CASE g # h
    <3>1. \A u \in Threads : call[u].pool = p => g \notin call[u].handles
      BY <1>2, <1>3, <2>2 DEF IInv, Always, CallsApart, p
    <3>2. QED BY <1>3, <1>8, <2>2, <3>1 DEF IInv, Always, PoolsKnown
  <2>3. QED BY <2>1, <2>2
<1>10. Always' /\ NotEarly'
  <2>1. driver_pool[h] # None BY <1>3, <1>4, NamesAssumption
  <2>2. call[t].pool = p /\ {h} \in SUBSET Handles BY <1>3 DEF p
  <2>3. call[t].op # "idle" BY <1>2
  <2>4. QED BY <1>2, <1>3, <1>7, <1>8, <1>9, <2>1, <2>2, <2>3, CallEnded
<1>11. CachedSome' BY <1>2 DEF IInv, CachedSome
<1>12. CachesTrue' BY <1>2, <1>5, <1>7 DEF IInv, CachesTrue
<1>13. /\ ToSet(command_buffers_') = ToSet(command_buffers_) \cup {h}
       /\ \A g : Once(command_buffers_, g) /\ (g = h => g \notin ToSet(command_buffers_))
                   => Once(command_buffers_', g)
  BY <1>1, <1>3, ListedLonger DEF TypeOK
<1>14. ListNamesTheMap' BY <1>3, <1>7, <1>13 DEF IInv, ListNamesTheMap
<1>15. DeviceListsOnce'
  BY <1>2, <1>3, <1>5, <1>13 DEF IInv, DeviceListsOnce, ListNamesTheMap
<1>16. QED BY <1>10, <1>11, <1>12, <1>14, <1>15 DEF IInv

\* The handles that are deleted leave the map and the device's list.
LEMMA Deleted ==
  ASSUME TypeOK, IInv, NEW H \in SUBSET Handles,
         command_buffers_' = Kept(command_buffers_, Handles \ H),
         \A h \in Handles :
           global_commandbuffer_map_'[h] =
             IF h \in H THEN 0 ELSE global_commandbuffer_map_[h],
         reused_early' = reused_early
  PROVE  ListNamesTheMap' /\ DeviceListsOnce'
<1>1. /\ ToSet(command_buffers_') = ToSet(command_buffers_) \cap (Handles \ H)
      /\ \A g : Once(command_buffers_, g) => Once(command_buffers_', g)
  BY KeptKeeps DEF TypeOK
<1>2. ListNamesTheMap' BY <1>1 DEF IInv, ListNamesTheMap
<1>3. DeviceListsOnce' BY <1>1 DEF IInv, DeviceListsOnce
<1>4. QED BY <1>2, <1>3

\* The deleting thread has none of the handles cached; of another's cache
\* nothing is said.
LEMMA DeletedCaches ==
  ASSUME TypeOK, IInv, NEW t \in Threads, NEW H \in SUBSET Handles,
         \A h \in Handles :
           /\ global_commandbuffer_map_'[h] =
                IF h \in H THEN 0 ELSE global_commandbuffer_map_[h]
           /\ deleted_by'[h] = IF h \in H THEN t ELSE deleted_by[h],
         reused_early' = reused_early,
         \A u \in Threads \ {t} : thread_cb_cache_'[u] = thread_cb_cache_[u],
         thread_cb_cache_'[t].vkcb \notin H,
         thread_cb_cache_'[t].vkcb # NoHandle =>
           thread_cb_cache_'[t] = thread_cb_cache_[t]
  PROVE  CachedSome' /\ CachesTrue'
<1>1. CachedSome' BY DEF IInv, CachedSome
<1>2. CachesTrue'
  <2> SUFFICES ASSUME NEW h \in Handles \ reused_early, NEW u \in Threads,
                      thread_cb_cache_'[u].vkcb = h, deleted_by'[h] \in {u, None}
               PROVE  /\ global_commandbuffer_map_'[h] # 0
                      /\ thread_cb_cache_'[u].gfrcb = global_commandbuffer_map_'[h]
    BY DEF CachesTrue
  <2>1. h \notin H BY NamesAssumption
  <2>2. h # NoHandle BY NamesAssumption
  <2>3. thread_cb_cache_'[u] = thread_cb_cache_[u] BY <2>2
  <2>4. QED BY <2>1, <2>3 DEF IInv, CachesTrue
<1>3. QED BY <1>1, <1>2

LEMMA PostFreeKeeps ==
  ASSUME TypeOK, IInv, NEW t \in Threads, PostFree(t)
  PROVE  IInv'
<1> DEFINE p == call[t].pool
           cleared(h) == CacheAfterDelete(CacheAfterLookup(thread_cb_cache_[t], h), h)
<1>1. PICK h \in call[t].handles :
        /\ pool_buffers' = [pool_buffers EXCEPT ![p] = EraseFirst(@, h)]
        /\ command_buffers_' = Kept(command_buffers_, Handles \ {h})
        /\ global_commandbuffer_map_' = [global_commandbuffer_map_ EXCEPT ![h] = 0]
        /\ thread_cb_cache_' = [thread_cb_cache_ EXCEPT ![t] = cleared(h)]
        /\ deleted_by' = [deleted_by EXCEPT ![h] = t]
  BY DEF PostFree, RemoveHandle
<1> DEFINE c == cleared(h)
<1>2. /\ call[t].op = "free"
      /\ call' = [call EXCEPT ![t] = Idle]
      /\ UNCHANGED <<driver_pool, reused_early>>
  BY DEF PostFree
<1>3. h \in Handles /\ p \in Pools /\ call[t].handles = {h} /\ t \in Agents
  BY <1>1, <1>2 DEF IInv, Always, CallsApart, TypeOK, Agents
<1>4. driver_pool[h] # p /\ (h \notin reused_early => driver_pool[h] = None)
  BY <1>2, <1>3 DEF IInv, Always, FreedListed, NotEarly, FreedKnown, Frees
<1>5. c.vkcb # h /\ (c.vkcb # NoHandle => c = thread_cb_cache_[t])
  BY <1>3, NamesAssumption DEF TypeOK, CacheAfterDelete, CacheAfterLookup
<1> HIDE DEF p, cleared, c
<1>6. /\ EraseFirst(pool_buffers[p], h) \in HandleLists
      /\ ToSet(EraseFirst(pool_buffers[p], h)) = ToSet(pool_buffers[p]) \ {h}
  BY <1>3, ListWithout DEF IInv, Always, PoolsKnown
<1>7. \A g \in Handles :
        /\ global_commandbuffer_map_'[g] =
             IF g \in {h} THEN 0 ELSE global_commandbuffer_map_[g]
        /\ deleted_by'[g] = IF g \in {h} THEN t ELSE deleted_by[g]
  BY <1>1, <1>3 DEF TypeOK
<1>8. /\ pool_buffers' \in [Pools -> HandleLists]
      /\ ToSet(pool_buffers'[p]) = ToSet(pool_buffers[p]) \ {h}
      /\ \A q \in Pools \ {p} : pool_buffers'[q] = pool_buffers[q]
  BY <1>1, <1>3, <1>6 DEF IInv, Always, PoolsKnown
<1>9. ASSUME NEW g \in Handles
      PROVE  g \in ToSet(pool_buffers'[p]) <=> driver_pool[g] = p
  <2>1. CASE g = h BY <1>4, <1>8, <2>1
  <2>2. CASE g # h
    <3>1. \A u \in Threads : call[u].pool = p => g \notin call[u].handles
      BY <1>2, <1>3, <2>2 DEF IInv, Always, CallsApart, p
    <3>2. QED BY <1>3, <1>8, <2>2, <3>1 DEF IInv, Always, PoolsKnown
  <2>3. QED BY <2>1, <2>2
<1>10. Always' /\ NotEarly'
  <2>1. \A g \in {h} \ reused_early :
          (global_commandbuffer_map_'[g] = 0) = (driver_pool[g] = None)
    BY <1>3, <1>4, <1>7
  <2>2. /\ call[t].pool = p /\ {h} \in SUBSET Handles /\ call[t].op # "idle"
        /\ \A g \in Handles \ {h} :
             global_commandbuffer_map_'[g] = global_commandbuffer_map_[g]
    BY <1>2, <1>3, <1>7 DEF p
  <2>3. QED BY <1>2, <1>3, <1>8, <1>9, <2>1, <2>2, CallEnded
<1>11. CachedSome' /\ CachesTrue'
  <2>1. thread_cb_cache_'[t] = c
    BY <1>1, <1>3 DEF TypeOK, c
  <2>2. \A u \in Threads \ {t} : thread_cb_cache_'[u] = thread_cb_cache_[u]
    BY <1>1 DEF TypeOK, Agents
  <2>3. {h} \in SUBSET Handles /\ thread_cb_cache_'[t].vkcb \notin {h}
    BY <1>3, <1>5, <2>1
  <2>4. thread_cb_cache_'[t].vkcb # NoHandle => thread_cb_cache_'[t] = thread_cb_cache_[t]
    BY <1>5, <2>1
  <2>5. QED BY <1>2, <1>7, <2>2, <2>3, <2>4, DeletedCaches
<1>12. ListNamesTheMap' /\ DeviceListsOnce'
  <2>1. {h} \in SUBSET Handles BY <1>3
  <2>2. QED BY <1>1, <1>2, <1>7, <2>1, Deleted
<1>13. QED BY <1>10, <1>11, <1>12 DEF IInv

LEMMA PostDestroyKeeps ==
  ASSUME TypeOK, IInv, NEW t \in Threads, PostDestroyPool(t)
  PROVE  IInv'
<1> DEFINE p == call[t].pool
           H == call[t].handles
           found == {h \in ToSet(pool_buffers[p]) : Lookup(thread_cb_cache_[t], h) # 0}
<1>1. /\ call[t].op = "destroy"
      /\ command_buffers_' = Kept(command_buffers_, Handles \ found)
      /\ global_commandbuffer_map_' =
           [h \in Handles |-> IF h \in found THEN 0 ELSE global_commandbuffer_map_[h]]
      /\ thread_cb_cache_' =
           [thread_cb_cache_ EXCEPT ![t].vkcb = IF found = {} THEN @ ELSE NoHandle]
      /\ deleted_by' = [h \in Handles |-> IF h \in found THEN t ELSE deleted_by[h]]
      /\ pool_buffers' = [pool_buffers EXCEPT ![p] = <<>>]
      /\ call' = [call EXCEPT ![t] = Idle]
      /\ UNCHANGED <<driver_pool, reused_early>>
  BY DEF PostDestroyPool
<1>2. /\ p \in Pools /\ H \in SUBSET Handles /\ t \in Agents
      /\ \A h \in Handles : driver_pool[h] # p
  BY <1>1 DEF IInv, Always, CallsApart, DestroyedEmpty, TypeOK, Agents
<1>3. ASSUME NEW h \in ToSet(pool_buffers[p]) PROVE h \in H
  <2>1. h \in Handles BY <1>2 DEF TypeOK, ToSet
  <2>2. SUFFICES ASSUME h \notin H PROVE FALSE OBVIOUS
  <2>3. \A u \in Threads : call[u].pool = p => h \notin call[u].handles
    BY <1>1, <2>2 DEF IInv, Always, CallsApart
  <2>4. driver_pool[h] = p BY <1>2, <2>1, <2>3 DEF IInv, Always, PoolsKnown
  <2>5. QED BY <1>2, <2>1, <2>4
<1>4. ASSUME NEW h \in H \ reused_early PROVE h \in found
  <2>1. global_commandbuffer_map_[h] # 0 /\ h \in ToSet(pool_buffers[p])
    BY <1>1 DEF IInv, NotEarly, FreedKnown, Always, FreedListed, Frees
  <2>2. h # NoHandle BY <1>2, NamesAssumption
  <2>3. Lookup(thread_cb_cache_[t], h) # 0
    BY <2>1, <2>2 DEF IInv, CachedSome, Lookup
  <2>4. QED BY <2>1, <2>3
<1>5. found \in SUBSET Handles /\ found \subseteq H
      /\ \A h \in H \ reused_early : h \in found
  BY <1>2, <1>3, <1>4
<1>6. \A h \in H \ reused_early : driver_pool[h] = None
  BY <1>1 DEF IInv, NotEarly, FreedKnown, Frees
<1> HIDE DEF p, H, found
<1>7. \A h \in Handles :
        /\ global_commandbuffer_map_'[h] =
             IF h \in found THEN 0 ELSE global_commandbuffer_map_[h]
        /\ deleted_by'[h] = IF h \in found THEN t ELSE deleted_by[h]
  BY <1>1
<1>8. /\ pool_buffers' \in [Pools -> HandleLists]
      /\ ToSet(pool_buffers'[p]) = {}
      /\ \A q \in Pools \ {p} : pool_buffers'[q] = pool_buffers[q]
  BY <1>1, <1>2, EmptyList DEF IInv, Always, PoolsKnown
<1>9. Always' /\ NotEarly'
  <2>1. \A h \in H \ reused_early :
          (global_commandbuffer_map_'[h] = 0) = (driver_pool[h] = None)
    BY <1>2, <1>5, <1>6, <1>7
  <2>2. \A h \in Handles \ H :
          global_commandbuffer_map_'[h] = global_commandbuffer_map_[h]
    BY <1>5, <1>7
  <2>3. call[t].pool = p /\ call[t].handles = H /\ call[t].op # "idle"
    BY <1>1 DEF p, H
  <2>4. \A h \in Handles : h \in ToSet(pool_buffers'[p]) <=> driver_pool[h] = p
    BY <1>2, <1>8
  <2>5. QED BY <1>1, <1>2, <1>8, <2>1, <2>2, <2>3, <2>4, CallEnded
<1>10. CachedSome' /\ CachesTrue'
  <2>1. \A u \in Threads \ {t} : thread_cb_cache_'[u] = thread_cb_cache_[u]
    BY <1>1 DEF TypeOK, Agents
  <2>2. thread_cb_cache_'[t] =
          [thread_cb_cache_[t] EXCEPT !.vkcb = IF found = {} THEN @ ELSE NoHandle]
    BY <1>1, <1>2 DEF TypeOK
  <2>3. thread_cb_cache_[t] \in [vkcb : Handles \cup {NoHandle}, gfrcb : Objects]
    BY <1>2 DEF TypeOK
  <2>4. thread_cb_cache_'[t].vkcb \notin found
    BY <1>5, <2>2, <2>3, NamesAssumption
  <2>5. thread_cb_cache_'[t].vkcb # NoHandle => thread_cb_cache_'[t] = thread_cb_cache_[t]
    BY <2>2, <2>3
  <2>6. QED BY <1>1, <1>5, <1>7, <2>1, <2>4, <2>5, DeletedCaches
<1>11. ListNamesTheMap' /\ DeviceListsOnce'
  BY <1>1, <1>5, <1>7, Deleted
<1>12. QED BY <1>9, <1>10, <1>11 DEF IInv

LEMMA StepKeeps == TypeOK /\ IInv /\ [Next]_vars => IInv'
<1> SUFFICES ASSUME TypeOK, IInv, [Next]_vars PROVE IInv'
  OBVIOUS
<1>1. CASE UNCHANGED vars
  BY <1>1
  DEF vars, registries, history, IInv, Always, NotEarly, CallsApart, PoolsKnown,
      AllocatedUnlisted, FreedListed, DestroyedEmpty, NamedOnce, HandlesKnown,
      AllocatedUnknown, FreedKnown, InCall, CachedSome, CachesTrue, ListNamesTheMap,
      DeviceListsOnce
<1>2. ASSUME NEW t \in Threads, NEW h \in Handles, DriverFree(t, h) \/ Use(t, h)
      PROVE  IInv'
  BY <1>2, FreeKeeps, UseKeeps
<1>3. ASSUME NEW t \in Threads, NEW p \in Pools,
             (\E h \in Handles : DriverAllocate(t, p, h)) \/ DriverDestroyPool(t, p)
      PROVE  IInv'
  BY <1>3, AllocateKeeps, DestroyKeeps
<1>4. ASSUME NEW t \in Threads, PostAllocate(t) \/ PostFree(t) \/ PostDestroyPool(t)
      PROVE  IInv'
  BY <1>4, PostAllocateKeeps, PostFreeKeeps, PostDestroyKeeps
<1>5. ASSUME NEW w \in Watchdog, Dump(w) PROVE IInv'
  BY <1>5, DumpKeeps
<1>6. QED BY <1>1, <1>2, <1>3, <1>4, <1>5 DEF Next

LEMMA Invariance == Spec => [](TypeOK /\ IInv)
<1>1. Init => IInv BY InitEstablishes
<1>2. TypeOK /\ IInv /\ [Next]_vars => IInv' BY StepKeeps
<1>3. QED BY <1>1, <1>2, TypeCorrect, PTL DEF Spec

(* A hook that looks up a handle in use, unless the handle was reused      *)
(* early, always gets an object, and gets the one that the map holds       *)
(* whenever the last deletion of the handle was this thread's own          *)
(* (GetGfrCommandBuffer, DeleteGfrCommandBuffer): for every number of      *)
(* threads, sharing the handles as they like.                              *)
THEOREM LookupsStayCoherent == Spec => []LookupsAreCoherent
<1>1. TypeOK /\ IInv => LookupsAreCoherent BY Coherent
<1>2. QED BY <1>1, Invariance, PTL

(* The device's list names the handles of the map, and a pool that no call *)
(* is about lists once what the driver has of it, always, however early a  *)
(* handle is reused; a handle that was never reused early is known to the  *)
(* layer once exactly while the driver has it, and is not added to the     *)
(* device's list when it is there (PostAllocateCommandBuffers,             *)
(* PostFreeCommandBuffers, Device::DeleteCommandPool).                     *)
THEOREM RegistriesStayAgreed == Spec => []RegistriesAgree
<1>1. TypeOK /\ IInv => RegistriesAgree BY Agreement
<1>2. QED BY <1>1, Invariance, PTL

=============================================================================
