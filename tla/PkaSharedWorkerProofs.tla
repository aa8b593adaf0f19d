------------------------- MODULE PkaSharedWorkerProofs -------------------------
(***************************************************************************)
(* Proofs about PkaSharedWorker, for any sources, frequencies and bounds:  *)
(* the worker sleeps no longer than the first source allows, loses no      *)
(* wakeup, and a pass that ends early has left nothing out.                *)
(***************************************************************************)
EXTENDS PkaSharedWorker, SequenceTheorems, TLAPS

\* The list is in order but for what a pass has invoked so far, and of that
\* the entries still to come are in order, unless one of them is there twice.
Dirty      == pc \in {"pass", "invoke"} /\ dirty
AllOnce    == \A s \in ToSet(list) : Once(s)
FirstLeft  == IF pc = "invoke" THEN i + 1 ELSE i

WorkerInv ==
  /\ list \in Seq(Sources)
  /\ due \in [Sources -> Int] /\ \A s \in Sources : due[s] >= -MaxLate
  /\ deadline \in Int /\ deadline >= -MaxLate
  /\ pc \in Holding \cup Waiting \cup Woken
  /\ i \in Nat \ {0}
  /\ dirty \in BOOLEAN
  /\ pc = "invoke" => i <= Len(list)
  /\ ~Dirty => InOrder(list)
  /\ Dirty /\ AllOnce =>
       \A j, k \in DOMAIN list :
         FirstLeft <= j /\ j < k => due[list[j]] <= due[list[k]]
  /\ WakesInTime
  /\ NoLostWakeup

-----------------------------------------------------------------------------
(* Lists.                                                                  *)

LEMMA ToSetIsRange ==
  ASSUME NEW q \in Seq(Sources), NEW s
  PROVE  s \in ToSet(q) <=> \E j \in DOMAIN q : q[j] = s
BY DEF ToSet

\* What is left after a removal is in the order it was in.
LEMMA RemovedInOrder ==
  ASSUME WorkerInv, InOrder(list), NEW j \in DOMAIN list
  PROVE  /\ RemoveAt(list, j) \in Seq(Sources)
         /\ InOrder(RemoveAt(list, j))
<1> DEFINE r == RemoveAt(list, j)
           Old(k) == IF k < j THEN k ELSE k + 1
<1>1. list \in Seq(Sources) /\ j \in 1 .. Len(list)
  BY DEF WorkerInv
<1>2. /\ r \in Seq(Sources)
      /\ Len(r) = Len(list) - 1
      /\ \A k \in 1 .. Len(r) : r[k] = list[Old(k)]
  <2> DEFINE before == SubSeq(list, 1, j - 1)
             after  == SubSeq(list, j + 1, Len(list))
  <2>1. /\ before \in Seq(Sources) /\ Len(before) = j - 1
        /\ \A k \in 1 .. j - 1 : before[k] = list[k]
    BY <1>1
  <2>2. /\ after \in Seq(Sources) /\ Len(after) = Len(list) - j
        /\ \A k \in 1 .. Len(list) - j : after[k] = list[j + k]
    BY <1>1
  <2>3. r = before \o after
    BY DEF RemoveAt
  <2> HIDE DEF before, after, r
  <2>4. r \in Seq(Sources) /\ Len(r) = Len(list) - 1
    BY <1>1, <2>1, <2>2, <2>3
  <2>5. ASSUME NEW k \in 1 .. Len(r)
        PROVE  r[k] = list[Old(k)]
    <3>1. CASE k < j
      <4>1. k \in 1 .. Len(before) /\ k \in 1 .. j - 1
        BY <1>1, <2>1, <3>1
      <4>2. r[k] = before[k]
        BY <2>1, <2>2, <2>3, <4>1
      <4>3. QED
        BY <2>1, <3>1, <4>1, <4>2
    <3>2. CASE ~(k < j)
      <4> DEFINE l == k - (j - 1)
      <4>1. l \in 1 .. Len(after) /\ k = Len(before) + l
        BY <1>1, <2>1, <2>2, <2>4, <3>2
      <4>2. r[k] = after[k - Len(before)]
        <5>1. k \in 1 .. Len(before) + Len(after) /\ ~(k <= Len(before))
          BY <1>1, <2>1, <2>2, <2>4, <3>2
        <5>2. \A n \in 1 .. Len(before) + Len(after) :
                (before \o after)[n] = IF n <= Len(before)
                                       THEN before[n]
                                       ELSE after[n - Len(before)]
          BY <2>1, <2>2, ConcatProperties
        <5>3. QED
          BY <2>3, <5>1, <5>2
      <4>3. j + l = k + 1
        BY <1>1
      <4>4. QED
        BY <2>1, <2>2, <3>2, <4>1, <4>2, <4>3
    <3>3. QED
      BY <3>1, <3>2
  <2>6. QED
    BY <2>4, <2>5
<1>3. InOrder(r)
  <2> SUFFICES ASSUME NEW k \in 1 .. Len(r), NEW l \in 1 .. Len(r), k < l
               PROVE  due[r[k]] <= due[r[l]]
    BY <1>2 DEF InOrder
  <2>1. /\ Old(k) \in DOMAIN list /\ Old(l) \in DOMAIN list
        /\ Old(k) < Old(l)
    BY <1>1, <1>2
  <2>2. QED
    BY <1>2, <2>1 DEF InOrder
<1>4. QED
  BY <1>2, <1>3

LEMMA SortedInOrder ==
  ASSUME NEW q \in Seq(Sources), NEW r \in Sorts(q)
  PROVE  r \in Seq(Sources) /\ InOrder(r) /\ Len(r) = Len(q)
<1>1. r \in [1 .. Len(q) -> ToSet(q)] /\ InOrder(r)
  BY DEF Sorts
<1>2. ToSet(q) \subseteq Sources
  BY ToSetIsRange
<1>3. QED
  BY <1>1, <1>2

\* The clock brings every timeout closer by as much, or keeps it at the bound.
LEMMA LaterIsMonotone ==
  ASSUME NEW m \in Int, NEW n \in Int, m <= n, m >= -MaxLate
  PROVE  /\ Later(m) \in Int /\ Later(m) <= Later(n)
         /\ Later(m) >= -MaxLate
BY WorkerAssumption DEF Later

-----------------------------------------------------------------------------
LEMMA InitWorkerInv == Init => WorkerInv
<1> SUFFICES ASSUME Init
             PROVE  WorkerInv
  OBVIOUS
<1>1. -MaxLate \in Int /\ 0 >= -MaxLate
  BY WorkerAssumption
<1>2. /\ due \in [Sources -> Int] /\ \A s \in Sources : due[s] >= -MaxLate
      /\ deadline \in Int /\ deadline >= -MaxLate
  BY <1>1 DEF Init
<1>3. list \in Seq(Sources) /\ InOrder(list)
  BY DEF Init, InOrder
<1>4. dirty \in BOOLEAN
  BY DEF Init
<1>5. QED
  BY <1>2, <1>3, <1>4
     DEF Init, WorkerInv, Woken, Dirty, WakesInTime, NoLostWakeup, InOrder

\* The main thread changes the list and leaves it in order; the worker, if it
\* waited, is woken.
LEMMA ListChanged ==
  ASSUME WorkerInv, pc \notin Holding, Signal,
         list' \in Seq(Sources),
         InOrder(list)',
         UNCHANGED <<due, i, dirty, deadline>>
  PROVE  WorkerInv'
BY DEF WorkerInv, Signal, Holding, Waiting, Woken, Dirty, InOrder,
       WakesInTime, NoLostWakeup

LEMMA AddKeeps ==
  ASSUME WorkerInv, NEW s \in Sources, AddToShared(s)
  PROVE  WorkerInv'
<1>1. Append(list, s) \in Seq(Sources)
  BY DEF WorkerInv
<1>2. list' \in Seq(Sources) /\ InOrder(list')
  BY <1>1, SortedInOrder DEF AddToShared, SortsAdded
<1>3. InOrder(list)'
  BY <1>2 DEF AddToShared, InOrder
<1>4. QED
  BY <1>2, <1>3, ListChanged DEF AddToShared

LEMMA RemoveKeeps ==
  ASSUME WorkerInv, NEW s \in Sources, RemoveFromShared(s)
  PROVE  WorkerInv'
<1>1. InOrder(list)
  BY DEF WorkerInv, RemoveFromShared, Dirty, Holding
<1>2. list' \in Seq(Sources) /\ InOrder(list')
  <2>1. CASE list' = list
    BY <1>1, <2>1 DEF WorkerInv
  <2>2. ASSUME NEW j \in DOMAIN list, list' = RemoveAt(list, j)
        PROVE  list' \in Seq(Sources) /\ InOrder(list')
    BY <1>1, <2>2, RemovedInOrder
  <2>3. QED
    BY <2>1, <2>2 DEF RemoveFromShared
<1>3. InOrder(list)'
  BY <1>2 DEF RemoveFromShared, InOrder
<1>4. QED
  BY <1>2, <1>3, ListChanged DEF RemoveFromShared

LEMMA TickKeeps ==
  ASSUME WorkerInv, Tick
  PROVE  WorkerInv'
<1>1. /\ \A s \in Sources : due'[s] = Later(due[s])
      /\ due' \in [Sources -> Int]
      /\ \A s \in Sources : due'[s] >= -MaxLate
      /\ deadline' \in Int /\ deadline' >= -MaxLate
  BY LaterIsMonotone DEF WorkerInv, Tick
<1>2. \A j, k \in DOMAIN list :
        due[list[j]] <= due[list[k]] => due'[list[j]] <= due'[list[k]]
  <2> SUFFICES ASSUME NEW j \in DOMAIN list, NEW k \in DOMAIN list,
                      due[list[j]] <= due[list[k]]
               PROVE  due'[list[j]] <= due'[list[k]]
    OBVIOUS
  <2>1. list[j] \in Sources /\ list[k] \in Sources
    BY DEF WorkerInv
  <2>2. QED
    BY <1>1, <2>1, LaterIsMonotone DEF WorkerInv
<1>3. WakesInTime'
  <2> SUFFICES ASSUME pc = "timedwait", NEW s \in ToSet(list)
               PROVE  deadline' <= due'[s]
    BY DEF Tick, WakesInTime
  <2>1. s \in Sources
    BY ToSetIsRange DEF WorkerInv
  <2>2. QED
    BY <1>1, <2>1, LaterIsMonotone DEF WorkerInv, WakesInTime, Tick
<1>4. UNCHANGED <<list, pc, i, dirty>>
  BY DEF Tick
<1>5. ~Dirty => InOrder(list)'
  BY <1>2, <1>4 DEF WorkerInv, InOrder
<1>6. QED
  BY <1>1, <1>2, <1>3, <1>4, <1>5
     DEF WorkerInv, Dirty, AllOnce, Once, FirstLeft, NoLostWakeup

\* Invoking sets the entry's timeout, and no other entry's if it is there once.
LEMMA InvokeKeeps ==
  ASSUME WorkerInv, Invoke
  PROVE  WorkerInv'
<1> DEFINE s == list[i]
<1>1. s \in Sources /\ i \in DOMAIN list
  BY DEF WorkerInv, Invoke, Reached
<1>2. Freq[s] \in Nat
  BY <1>1, WorkerAssumption
<1>3. /\ due' \in [Sources -> Int]
      /\ \A r \in Sources : due'[r] >= -MaxLate
      /\ \A r \in Sources : r # s => due'[r] = due[r]
  BY <1>1, <1>2, WorkerAssumption DEF WorkerInv, Invoke, NextDue
<1>4. ASSUME AllOnce, NEW j \in DOMAIN list, NEW k \in DOMAIN list,
             i + 1 <= j, j < k
      PROVE  due'[list[j]] <= due'[list[k]]
  <2>1. list[j] \in Sources /\ list[k] \in Sources
    BY DEF WorkerInv
  <2>2. list[j] # s /\ list[k] # s
    <3>1. Once(s)
      BY <1>1, <1>4, ToSetIsRange DEF WorkerInv, AllOnce
    <3>2. j # i /\ k # i
      BY <1>1, <1>4 DEF WorkerInv
    <3>3. QED
      BY <1>1, <3>1, <3>2 DEF Once
  <2>3. due[list[j]] <= due[list[k]]
    <3>1. CASE Dirty
      BY <1>1, <1>4, <3>1 DEF WorkerInv, Invoke, FirstLeft
    <3>2. CASE ~Dirty
      BY <1>4, <3>2 DEF WorkerInv, InOrder
    <3>3. QED
      BY <3>1, <3>2
  <2>4. QED
    BY <1>3, <2>1, <2>2, <2>3
<1>5. /\ pc' = "invoke" /\ dirty' = TRUE /\ FirstLeft' = i + 1
      /\ UNCHANGED <<list, i, deadline>>
  BY DEF Invoke, FirstLeft
<1>6. AllOnce' = AllOnce
  BY <1>5 DEF AllOnce, Once
<1>7. QED
  BY <1>1, <1>3, <1>4, <1>5, <1>6
     DEF WorkerInv, Dirty, Holding, WakesInTime, NoLostWakeup, Reached

LEMMA EndPassKeeps ==
  ASSUME WorkerInv, EndPass
  PROVE  WorkerInv'
<1>1. list' \in Seq(Sources) /\ InOrder(list')
  <2>1. CASE dirty
    BY <2>1, SortedInOrder DEF EndPass, SortDirty, WorkerInv
  <2>2. CASE ~dirty
    BY <2>2 DEF EndPass, SortDirty, WorkerInv, Dirty
  <2>3. QED
    BY <2>1, <2>2
<1>2. InOrder(list)'
  BY <1>1 DEF EndPass, InOrder
<1>3. pc' = "next" /\ i' = 1 /\ dirty' = FALSE /\ UNCHANGED <<due, deadline>>
  BY DEF EndPass
<1>4. ~Dirty' /\ WakesInTime' /\ NoLostWakeup'
  BY <1>3 DEF Dirty, WakesInTime, NoLostWakeup
<1>5. dirty' \in BOOLEAN
  BY <1>3
<1>6. QED
  BY <1>1, <1>2, <1>3, <1>4, <1>5 DEF WorkerInv, Holding, InOrder

LEMMA WaitKeeps ==
  ASSUME WorkerInv, WaitUntilDue
  PROVE  WorkerInv'
<1>1. InOrder(list) /\ 1 \in DOMAIN list
  BY DEF WaitUntilDue, WorkerInv, Dirty
<1>2. list[1] \in Sources
  BY <1>1 DEF WorkerInv
<1>3. \A s \in ToSet(list) : due[list[1]] <= due[s]
  <2> SUFFICES ASSUME NEW s \in ToSet(list)
               PROVE  due[list[1]] <= due[s]
    OBVIOUS
  <2>1. PICK j \in DOMAIN list : list[j] = s
    BY ToSetIsRange DEF WorkerInv
  <2>2. CASE j = 1
    BY <1>2, <2>1, <2>2 DEF WorkerInv
  <2>3. CASE j # 1
    BY <1>1, <2>1, <2>3 DEF WorkerInv, InOrder
  <2>4. QED
    BY <2>2, <2>3
<1>4. QED
  BY <1>1, <1>2, <1>3
     DEF WaitUntilDue, WorkerInv, Dirty, Waiting, WakesInTime, NoLostWakeup,
         InOrder

LEMMA WorkerInvStep == WorkerInv /\ [Next]_wvars => WorkerInv'
<1> SUFFICES ASSUME WorkerInv, [Next]_wvars
             PROVE  WorkerInv'
  OBVIOUS
<1>1. ASSUME NEW s \in Sources, AddToShared(s) \/ RemoveFromShared(s)
      PROVE  WorkerInv'
  BY <1>1, AddKeeps, RemoveKeeps
<1>2. CASE Tick
  BY <1>2, TickKeeps
<1>3. CASE WaitForSource
  BY <1>3 DEF WaitForSource, WorkerInv, Dirty, Waiting, InOrder, WakesInTime,
              NoLostWakeup
<1>4. CASE WaitUntilDue
  BY <1>4, WaitKeeps
<1>5. CASE TimeOut \/ SpuriousWakeup
  BY <1>5 DEF TimeOut, SpuriousWakeup, Signal, WorkerInv, Dirty, Waiting,
              Woken, InOrder, WakesInTime, NoLostWakeup
<1>6. CASE Relock
  <2>1. /\ pc' \in {"next", "pass"} /\ i' = 1 /\ dirty' = FALSE
        /\ UNCHANGED <<list, due, deadline>> /\ ~Dirty
    BY <1>6 DEF Relock, Dirty, Woken
  <2>2. ~Dirty' /\ WakesInTime' /\ NoLostWakeup'
    BY <2>1 DEF Dirty, WakesInTime, NoLostWakeup
  <2>3. InOrder(list)'
    BY <2>1 DEF WorkerInv, InOrder
  <2>4. dirty' \in BOOLEAN
    BY <2>1
  <2>5. QED
    BY <2>1, <2>2, <2>3, <2>4 DEF WorkerInv, Holding, InOrder
<1>7. CASE Invoke
  BY <1>7, InvokeKeeps
<1>8. CASE Invoked
  BY <1>8 DEF Invoked, WorkerInv, Dirty, AllOnce, Once, FirstLeft, Holding,
              InOrder, WakesInTime, NoLostWakeup
<1>9. CASE EndPass
  BY <1>9, EndPassKeeps
<1>10. CASE UNCHANGED wvars
  BY <1>10 DEF wvars, WorkerInv, Dirty, AllOnce, Once, FirstLeft, InOrder,
               WakesInTime, NoLostWakeup
<1>11. QED
  BY <1>1, <1>2, <1>3, <1>4, <1>5, <1>6, <1>7, <1>8, <1>9, <1>10
     DEF Next, WorkerStep

LEMMA WorkerInvariant == Spec => []WorkerInv
BY InitWorkerInv, WorkerInvStep, PTL DEF Spec

(***************************************************************************)
(* The worker never sleeps past the time a listed source is due.           *)
(***************************************************************************)
THEOREM SleepsNoLonger == Spec => []WakesInTime
<1>1. WorkerInv => WakesInTime
  BY DEF WorkerInv
<1>2. QED
  BY <1>1, WorkerInvariant, PTL

(***************************************************************************)
(* The worker never waits for a source while there is one in the list.     *)
(***************************************************************************)
THEOREM WakeupsAreKept == Spec => []NoLostWakeup
<1>1. WorkerInv => NoLostWakeup
  BY DEF WorkerInv
<1>2. QED
  BY <1>1, WorkerInvariant, PTL

(***************************************************************************)
(* The entry that ends a pass is due no later than those after it.         *)
(***************************************************************************)
THEOREM PassesAreComplete == Spec => []PassIsComplete
<1>1. WorkerInv => PassIsComplete
  <2> SUFFICES ASSUME WorkerInv, pc = "pass", AllOnce,
                      NEW j \in i + 1 .. Len(list)
               PROVE  due[list[j]] >= due[list[i]]
    BY DEF PassIsComplete, AllOnce
  <2>1. i \in DOMAIN list /\ j \in DOMAIN list /\ i < j
    BY DEF WorkerInv
  <2>2. due[list[i]] <= due[list[j]]
    BY <2>1 DEF WorkerInv, FirstLeft, InOrder
  <2>3. due[list[i]] \in Int /\ due[list[j]] \in Int
    BY <2>1 DEF WorkerInv
  <2>4. QED
    BY <2>2, <2>3
<1>2. QED
  BY <1>1, WorkerInvariant, PTL
=============================================================================
