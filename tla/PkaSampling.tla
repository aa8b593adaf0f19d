----------------------------- MODULE PkaSampling -----------------------------
(***************************************************************************)
(* A channel (PkaChannel), the subscriptions of its sources, and what both *)
(* make of the list of sources that the shared sampling thread samples     *)
(* (perfkit-agent/pka-source.c and pka-source-simple.c).                   *)
(*                                                                         *)
(* A source hears of the channel, and of its first and last subscription,  *)
(* at once, under its locks; its class hears of it later, from the main    *)
(* loop, one event after the other.  Only the class attaches the source to *)
(* the shared list and detaches it.  Three parties can ask for it to be    *)
(* muted or not, and nobody counts who did.                                *)
(***************************************************************************)
EXTENDS PkaChannel, Sequences

CONSTANTS
  MaxEntries,  \* bound: subscriptions of a source
  MaxEvents    \* bound: events a source has queued

ASSUME SamplingAssumption ==
  /\ MaxEntries \in Nat
  /\ MaxEvents \in Nat

VARIABLES
  entries,  \* priv->subscriptions->len of each source
  events,   \* the emissions each source has queued, oldest first
  attached, \* how often each source is in the shared list
  sampled,  \* the sources the worker has sampled since they were detached
  published, \* the sources in manager.sources
  clientMuted \* history: whether a client has ever muted the channel

sampling == <<entries, events, attached, sampled, published, clientMuted>>
svars    == <<cvars, sampling>>
-----------------------------------------------------------------------------
Attaching == {"started", "unmuted"}
Detaching == {"stopped", "muted"}

MutedFirst == <<"muted", "started">>    \* faulty: the wrong way round
AutoMuted  == <<"started", "muted">>

\* What a source queues when the channel notifies it.
OnNotice(s, kind) ==
  IF \/ s \notin sources
     \/ kind = "none"
     \/ kind = "stopped" /\ ~running[s]
  THEN <<>>
  ELSE IF kind = "started" /\ entries[s] = 0 THEN AutoMuted ELSE <<kind>>

SamplingInit ==
  /\ ChannelInit
  /\ entries = [s \in Sources |-> 0]
  /\ events = [s \in Sources |-> <<>>]
  /\ attached = [s \in Sources |-> 0]
  /\ sampled = {}
  /\ published = Sources
  /\ clientMuted = FALSE

\* The bound keeps room for what the rest of a call will queue.
Owed(pending) == IF \E t \in Threads : pending[t] # "idle" THEN 2 ELSE 0

\* Every call on the channel, with what its sources do in it.
ChannelStep ==
  /\ ChannelNext
  /\ events' = [s \in Sources |-> events[s] \o OnNotice(s, notice')]
  /\ \A s \in Sources : Len(events'[s]) + Owed(calls') <= MaxEvents
  /\ clientMuted' = (clientMuted \/ state' = "MUTED")
  /\ UNCHANGED <<entries, attached, sampled, published>>

Enqueue(s, kinds) ==
  /\ events' = [events EXCEPT ![s] = @ \o kinds]
  /\ Len(events'[s]) <= MaxEvents
  /\ Silent
  /\ UNCHANGED <<state, sources, late, running, config, process, calls,
                 attached, sampled, published, clientMuted>>

\* pka_source_add_subscription undoes the automatic mute...
NeverUnmutes(s) == <<>>                 \* faulty: it forgets to
AlwaysUnmutes(s) ==                     \* faulty: not only the first one
  IF running[s] THEN <<"unmuted">> ELSE <<>>
AutoUnmute(s) ==
  IF running[s] /\ entries[s] = 0 THEN <<"unmuted">> ELSE <<>>

AddSubscription(s) ==
  /\ calls[Main] = "idle"
  /\ entries[s] < MaxEntries
  /\ entries' = [entries EXCEPT ![s] = @ + 1]
  /\ Enqueue(s, AutoUnmute(s))

\* ... and pka_source_remove_subscription mutes a source without any, also
\* when the subscription was not one of them.
RemoveSubscription(s) ==
  /\ calls[Main] = "idle"
  /\ \E left \in {n \in 0 .. MaxEntries : entries[s] \in {n, n + 1}} :
       /\ entries' = [entries EXCEPT ![s] = left]
       /\ Enqueue(s, IF running[s] /\ left = 0 THEN <<"muted">> ELSE <<>>)

\* pka_manager_remove_source stops a source and leaves it in its channel.
RetireSource(s) ==
  /\ calls[Main] = "idle"
  /\ s \in published
  /\ published' = published \ {s}
  /\ running' = [running EXCEPT ![s] = FALSE]
  /\ events' = [events EXCEPT ![s] = @ \o OnNotice(s, "stopped")]
  /\ Len(events'[s]) <= MaxEvents
  /\ Silent
  /\ UNCHANGED <<state, sources, late, config, process, calls, entries,
                 attached, sampled, clientMuted>>

(***************************************************************************)
(* The main loop emits the oldest event of a source, whose class is        *)
(* PkaSourceSimple: add_to_shared appends, whatever is in the list, and    *)
(* remove_from_shared takes one entry out if there is one.                 *)
(***************************************************************************)
After(kind, n) ==
  CASE kind \in Attaching          -> n + 1
    [] kind \in Detaching /\ n > 0 -> n - 1
    [] OTHER                       -> n

Emit(s) ==
  /\ calls[Main] = "idle"
  /\ events[s] # <<>>
  /\ events' = [events EXCEPT ![s] = Tail(@)]
  /\ attached' = [attached EXCEPT ![s] = After(Head(events[s]), @)]
  /\ sampled' = {r \in sampled : attached'[r] > 0}
  /\ Silent
  /\ UNCHANGED <<state, sources, late, running, config, process, calls, entries,
                 published, clientMuted>>

\* The shared worker samples whatever is in its list.
Sample(s) ==
  /\ attached[s] > 0
  /\ s \notin sampled
  /\ sampled' = sampled \cup {s}
  /\ Silent
  /\ UNCHANGED <<state, sources, late, running, config, process, calls, entries,
                 events, attached, published, clientMuted>>

SamplingNext ==
  \/ ChannelStep
  \/ \E s \in Sources :
       \/ AddSubscription(s)
       \/ RemoveSubscription(s)
       \/ RetireSource(s)
       \/ Emit(s)
       \/ Sample(s)

SamplingSpec == SamplingInit /\ [][SamplingNext]_svars

\* The main loop comes round to every event, and the worker to every source
\* in its list; the main thread is not always in a call when they do.
SamplingFairness ==
  /\ WF_svars(ChannelStep /\ NotifyPending)
  /\ WF_svars(ChannelStep /\ StopExited)
  /\ \A s \in Sources : SF_svars(Emit(s)) /\ WF_svars(Sample(s))

FairSamplingSpec == SamplingSpec /\ SamplingFairness
-----------------------------------------------------------------------------
SamplingTypeOK ==
  /\ ChannelTypeOK
  /\ entries \in [Sources -> 0 .. MaxEntries]
  /\ events \in [Sources -> Seq(Notices \ {"none"})]
  /\ attached \in [Sources -> Nat]
  /\ sampled \subseteq Sources
  /\ published \subseteq Sources
  /\ clientMuted \in BOOLEAN

Settled(s) == events[s] = <<>> /\ ~NotifyPending

(***************************************************************************)
(* However mutes by clients and automatic mutes were mixed, a source that  *)
(* runs in an unmuted channel and has a subscription is in the shared list *)
(* once its events have been emitted.                                      *)
(***************************************************************************)
ObservedIsAttached ==
  \A s \in Sources :
    Settled(s) /\ running[s] /\ state = "RUNNING" /\ entries[s] > 0 =>
      attached[s] > 0

(***************************************************************************)
(* The same mixture does not pile up entries: a source is never more than  *)
(* twice in the shared list, however long clients mute and unmute.         *)
(***************************************************************************)
NoPileUp == \A s \in Sources : attached[s] <= 2

(***************************************************************************)
(* The same as an obligation: it gets sampled, or it stops being due.      *)
(***************************************************************************)
Due(s) == running[s] /\ state = "RUNNING" /\ entries[s] > 0
ObservedGetsSampled ==
  \A s \in Sources : Due(s) ~> s \in sampled \/ ~Due(s)

(***************************************************************************)
(* As long as no client has muted the channel, the automatic mute of       *)
(* pka-source.c is exact: a source is in the shared list once if it runs   *)
(* and somebody subscribes to it, and not at all otherwise.                *)
(***************************************************************************)
AutoMuteIsExact ==
  \A s \in Sources :
    Settled(s) /\ ~clientMuted =>
      attached[s] = IF running[s] /\ entries[s] > 0 THEN 1 ELSE 0
=============================================================================
