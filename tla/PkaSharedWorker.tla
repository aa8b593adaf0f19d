--------------------------- MODULE PkaSharedWorker ---------------------------
(***************************************************************************)
(* The shared sampling thread of perfkit-agent/pka-source-simple.c and the *)
(* list of sources it samples.  The main thread adds and removes sources;  *)
(* the worker sleeps until the first of them is due, samples those that    *)
(* are, and sorts the list by the time each is due next.                   *)
(*                                                                         *)
(* `mutex' protects the list.  The main thread holds it for one step (add, *)
(* sort, signal); the worker holds it for its whole pass, the callbacks of *)
(* the sources included, and gives it up only to wait on `cond'.  A source *)
(* may be in the list more than once (PkaSampling says when).              *)
(*                                                                         *)
(* Time is what matters to the order of the list: due[s] is how far        *)
(* priv->timeout is ahead of the clock, or behind it.                      *)
(***************************************************************************)
EXTENDS Integers, Sequences, SequencesExt

CONSTANTS
  Sources,  \* the sources in cooperative mode
  Freq,     \* priv->freq of each source, in ticks of the clock
  MaxList,  \* bound: length of the list
  MaxLate   \* bound: by how many ticks the worker is ever late

ASSUME WorkerAssumption ==
  /\ Freq \in [Sources -> Nat \ {0}]
  /\ MaxList \in Nat
  /\ MaxLate \in Nat \ {0}

VARIABLES
  list,     \* sources: the array, an entry per attachment
  due,      \* priv->timeout of each source, relative to the clock
  pc,       \* where the worker is
  i,        \* the entry its pass has come to
  dirty,    \* whether the pass has invoked a source
  deadline  \* the timeout it waits for, relative to the clock

wvars == <<list, due, pc, i, dirty, deadline>>
-----------------------------------------------------------------------------
\* Holding the mutex: at `next', in the pass, in a callback.
Holding == {"next", "pass", "invoke"}
\* Waiting on `cond', then woken and waiting for the mutex again.
Waiting == {"wait", "timedwait"}
Woken   == {"rewait", "repass"}
Lates   == -MaxLate .. 0

Later(n) == IF n > -MaxLate THEN n - 1 ELSE n

InOrder(q) ==
  \A j, k \in DOMAIN q : j < k => due[q[j]] <= due[q[k]]

\* g_ptr_array_sort: what is in the array, in order; ties as it happens.
Count(q, s) == Len(SelectSeq(q, LAMBDA e : e = s))
Sorts(q) ==
  {r \in [DOMAIN q -> ToSet(q)] :
     InOrder(r) /\ \A s \in ToSet(q) : Count(r, s) = Count(q, s)}
Unsorted(q) == {q}                      \* faulty: the new entry stays last
SortsAdded(q) == Sorts(q)

\* pthread_cond_signal wakes the worker if it waits.
NoSignal == UNCHANGED pc                \* faulty: nobody wakes the worker
Signal ==
  pc' = CASE pc = "wait"      -> "rewait"
          [] pc = "timedwait" -> "repass"
          [] OTHER            -> pc

Init ==
  /\ list = <<>>
  /\ due = [s \in Sources |-> -MaxLate]
  /\ pc = "rewait"
  /\ i = 1
  /\ dirty = FALSE
  /\ deadline = 0

(***************************************************************************)
(* The main thread.                                                        *)
(***************************************************************************)
AddToShared(s) ==
  /\ pc \notin Holding
  /\ Len(list) < MaxList
  /\ list' \in SortsAdded(Append(list, s))
  /\ Signal
  /\ UNCHANGED <<due, i, dirty, deadline>>

\* g_ptr_array_remove closes the gap.
RemoveFromShared(s) ==
  /\ pc \notin Holding
  /\ \/ ~Contains(list, s) /\ UNCHANGED list
     \/ \E j \in DOMAIN list :
          /\ list[j] = s
          /\ \A k \in 1 .. j - 1 : list[k] # s
          /\ list' = RemoveAt(list, j)
  /\ Signal
  /\ UNCHANGED <<due, i, dirty, deadline>>

(***************************************************************************)
(* The clock, which runs on whatever the threads do.                       *)
(***************************************************************************)
Tick ==
  /\ \A s \in ToSet(list) : due[s] > -MaxLate
  /\ due' = [s \in Sources |-> Later(due[s])]
  /\ deadline' = Later(deadline)
  /\ UNCHANGED <<list, pc, i, dirty>>

(***************************************************************************)
(* The worker: pka_source_simple_shared_worker.                            *)
(***************************************************************************)
WaitForSource ==
  /\ pc = "next"
  /\ list = <<>>
  /\ pc' = "wait"
  /\ UNCHANGED <<list, due, i, dirty, deadline>>

\* pka_source_simple_wait, until the first source is due.
WaitUntilDue ==
  /\ pc = "next"
  /\ list # <<>>
  /\ pc' = "timedwait"
  /\ deadline' = due[list[1]]
  /\ UNCHANGED <<list, due, i, dirty>>

TimeOut ==
  /\ pc = "timedwait"
  /\ deadline <= 0
  /\ pc' = "repass"
  /\ UNCHANGED <<list, due, i, dirty, deadline>>

\* POSIX lets a wait return for no reason.
SpuriousWakeup ==
  /\ pc \in Waiting
  /\ Signal
  /\ UNCHANGED <<list, due, i, dirty, deadline>>

Relock ==
  /\ pc \in Woken
  /\ pc' = IF pc = "rewait" THEN "next" ELSE "pass"
  /\ i' = 1
  /\ dirty' = FALSE
  /\ UNCHANGED <<list, due, deadline>>

IsReady(s) == due[s] <= 0
Reached    == i <= Len(list) /\ IsReady(list[i])

\* pka_source_simple_update: the period starts with the callback.
NextDue(s) == Freq[s]

\* pka_source_simple_invoke: the next timeout is set before the callback.
Invoke ==
  /\ pc = "pass"
  /\ Reached
  /\ due' = [due EXCEPT ![list[i]] = NextDue(list[i])]
  /\ pc' = "invoke"
  /\ dirty' = TRUE
  /\ UNCHANGED <<list, i, deadline>>

Invoked ==
  /\ pc = "invoke"
  /\ pc' = "pass"
  /\ i' = i + 1
  /\ UNCHANGED <<list, due, dirty, deadline>>

NeverSorts == UNCHANGED list            \* faulty: the dirty list stays
SortDirty  == list' \in IF dirty THEN Sorts(list) ELSE {list}

\* The pass ends with the list, or at the first source that is not due.
EndPass ==
  /\ pc = "pass"
  /\ ~Reached
  /\ SortDirty
  /\ pc' = "next"
  /\ i' = 1
  /\ dirty' = FALSE
  /\ UNCHANGED <<due, deadline>>

WorkerStep ==
  \/ WaitForSource
  \/ WaitUntilDue
  \/ TimeOut
  \/ Relock
  \/ Invoke
  \/ Invoked
  \/ EndPass

Next ==
  \/ \E s \in Sources : AddToShared(s) \/ RemoveFromShared(s)
  \/ Tick
  \/ SpuriousWakeup
  \/ WorkerStep

Spec == Init /\ [][Next]_wvars

\* Time goes on, a callback returns, and the worker gets the mutex: the main
\* thread holds it for a moment only.
Fairness == SF_wvars(Tick) /\ WF_wvars(WorkerStep)

FairSpec == Spec /\ Fairness
-----------------------------------------------------------------------------
MaxFreq == CHOOSE n \in {Freq[s] : s \in Sources} :
             \A s \in Sources : Freq[s] <= n

TypeOK ==
  /\ list \in Seq(Sources) /\ Len(list) <= MaxList
  /\ due \in [Sources -> -MaxLate .. MaxFreq]
  /\ pc \in Holding \cup Waiting \cup Woken
  /\ i \in 1 .. MaxList + 1
  /\ dirty \in BOOLEAN
  /\ deadline \in -MaxLate .. MaxFreq

(***************************************************************************)
(* The worker never sleeps past the time a source is due: while it waits   *)
(* for the first source of the list, no source that was added, removed or  *)
(* invoked since then is due earlier.                                      *)
(***************************************************************************)
WakesInTime ==
  pc = "timedwait" => \A s \in ToSet(list) : deadline <= due[s]

(***************************************************************************)
(* No wakeup is lost: the worker does not wait for a source with one in    *)
(* the list.                                                               *)
(***************************************************************************)
NoLostWakeup == pc = "wait" => list = <<>>

(***************************************************************************)
(* A pass that ends early leaves no source behind that is due: the entry   *)
(* that ends it is due no later than those it has not come to, although    *)
(* those it has invoked are out of order by then.  (An entry for a source  *)
(* that is in the list twice does end the pass early; the next one begins  *)
(* at once.)                                                               *)
(***************************************************************************)
Once(s) == \A j, k \in DOMAIN list : list[j] = s /\ list[k] = s => j = k
PassIsComplete ==
  pc = "pass" /\ ~Reached /\ (\A s \in ToSet(list) : Once(s)) =>
    \A j \in i + 1 .. Len(list) : due[list[j]] >= due[list[i]]

(***************************************************************************)
(* Every source in the list is sampled again and again, whatever the       *)
(* others' frequencies, however long their callbacks take, and also when   *)
(* some are in the list twice: it is invoked, or it is removed first.      *)
(***************************************************************************)
Invoking(s) == pc = "invoke" /\ list[i] = s
ListedGetsInvoked ==
  \A s \in Sources :
    Contains(list, s) /\ ~Invoking(s) ~> Invoking(s) \/ ~Contains(list, s)
=============================================================================
