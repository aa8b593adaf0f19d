------------------------------ MODULE PkaSource ------------------------------
(***************************************************************************)
(* One PkaSource (perfkit-agent/pka-source.c) and the delivery half of the *)
(* PkaSubscriptions that observe it (perfkit-agent/pka-subscription.c).    *)
(*                                                                         *)
(* Two threads run this code.  The main thread executes the RPC handlers,  *)
(* one call at a time: add or remove a subscription, set its handlers,     *)
(* notify the source of a channel event.  The sampling thread (the worker  *)
(* of pka-source-simple.c) executes the source's callback, which delivers  *)
(* a manifest and then samples.  They share priv->manifest and             *)
(* priv->subscriptions under priv->rw_lock, a GStaticRWLock.               *)
(*                                                                         *)
(* A section under the writer lock excludes every other section, so it is  *)
(* one step; a section under the reader lock is as many steps as it has    *)
(* deliveries, and everything between two sections can interleave.         *)
(***************************************************************************)
EXTENDS Naturals, Sequences, SequencesExt

CONSTANTS
  Subscriptions,  \* the PkaSubscriptions of the agent
  NoSubscription, \* a NULL PkaSubscription
  MaxManifest,    \* bound: manifests the source ever delivers
  MaxEntries,     \* bound: length of priv->subscriptions
  MaxEvents       \* bound: emissions queued on the main loop

ASSUME SourceAssumption ==
  /\ NoSubscription \notin Subscriptions
  /\ MaxManifest \in Nat
  /\ MaxEntries \in Nat
  /\ MaxEvents \in Nat

VARIABLES
  manifest,      \* priv->manifest: the version cached, 0 when NULL
  subscriptions, \* priv->subscriptions: an array, an entry per addition
  running,       \* priv->running
  events,        \* emissions queued with g_timeout_add(0, ...), oldest first
  readers,       \* threads inside a reader section of priv->rw_lock
  main,          \* the call the main thread is in, and its locals
  worker,        \* the call the sampling thread is in, and its locals
  handlers,      \* subscriptions whose manifest and sample closures are set
  seen,          \* history: version last handed to the handler, 0 for none
  late           \* history: members whose handler came after they joined

vars == <<manifest, subscriptions, running, events, readers, main, worker,
          handlers, seen, late>>

delivery == <<handlers, seen, late>>
-----------------------------------------------------------------------------
Threads    == {"main", "worker"}
EventKinds == {"started", "stopped", "muted", "unmuted", "reset"}
NoManifest == 0
Versions   == 0 .. MaxManifest

MainIdle   == [pc |-> "idle", sub |-> NoSubscription, held |-> NoManifest]
WorkerIdle == [pc |-> "idle", doc |-> NoManifest, i |-> 1,
               sub |-> NoSubscription]

\* Calls of the main thread that wait for, or are in, a section of rw_lock.
MainWriting == {"add", "remove", "notify_started", "notify_stopped"}
MainReading == {"announce", "recheck"}
\* Sections of the sampling thread: waiting for the writer lock, waiting for
\* the reader lock, walking the array, handing over to the entry fetched.
WorkerPcs == {"idle", "publish", "m_lock", "m_walk", "m_hand",
              "s_lock", "s_walk", "s_hand"}

Members == ToSet(subscriptions)

Queue(kind) == events' = Append(events, kind)
RoomFor(n)  == Len(events) + n <= MaxEvents

\* A GStaticRWLock lets no reader in while a writer waits (want_to_write).
WriterWaits == main.pc \in MainWriting \/ worker.pc = "publish"
ReaderLock(t) == ~WriterWaits /\ readers' = readers \cup {t}
WriterSection == readers = {}

\* g_ptr_array_remove_fast: the last entry takes the place of the match (of
\* equal entries, which are one pointer, any may be the match).
RemoveFast(q, e) ==
  IF Contains(q, e)
  THEN LET match == CHOOSE i \in 1 .. Len(q) : q[i] = e
       IN  [j \in 1 .. Len(q) - 1 |-> IF j = match THEN q[Len(q)] ELSE q[j]]
  ELSE q

\* pka_subscription_deliver_manifest: dropped when there is no closure.
HandManifest(s, version) ==
  /\ seen' = IF s \in handlers THEN [seen EXCEPT ![s] = version] ELSE seen
  /\ late' = IF s \in handlers THEN late \ {s} ELSE late
-----------------------------------------------------------------------------
Init ==
  /\ manifest = NoManifest
  /\ subscriptions = <<>>
  /\ running = FALSE
  /\ events = <<>>
  /\ readers = {}
  /\ main = MainIdle
  /\ worker = WorkerIdle
  /\ handlers = {}
  /\ seen = [s \in Subscriptions |-> NoManifest]
  /\ late = {}

(***************************************************************************)
(* The main thread: pka_source_add_subscription.                           *)
(***************************************************************************)
AddSubscription(s) ==
  /\ main.pc = "idle"
  /\ Len(subscriptions) < MaxEntries /\ RoomFor(1)
  /\ main' = [MainIdle EXCEPT !.pc = "add", !.sub = s]
  /\ UNCHANGED <<manifest, subscriptions, running, events, readers, worker,
                 delivery>>

\* What is left to do after the writer lock: announce a manifest, if any.
NothingToAnnounce == MainIdle           \* faulty: the manifest is not held
AfterAdd ==
  IF manifest = NoManifest
  THEN MainIdle
  ELSE [main EXCEPT !.pc = "announce", !.held = manifest]

\* Under the writer lock: hold the manifest, add the entry, undo automute.
AddLocked ==
  /\ main.pc = "add"
  /\ WriterSection
  /\ subscriptions' = Append(subscriptions, main.sub)
  /\ IF running /\ Len(subscriptions') = 1
     THEN Queue("unmuted")
     ELSE UNCHANGED events
  /\ main' = AfterAdd
  /\ late' = IF main.sub \in handlers THEN late ELSE late \cup {main.sub}
  /\ UNCHANGED <<manifest, running, readers, worker, handlers, seen>>

AddReaderLock ==
  /\ main.pc = "announce"
  /\ ReaderLock("main")
  /\ main' = [main EXCEPT !.pc = "recheck"]
  /\ UNCHANGED <<manifest, subscriptions, running, events, worker, delivery>>

NoRecheck == TRUE                       \* faulty: deliver what was held
StillCurrent == manifest = main.held

\* Under the reader lock: deliver only if the manifest is still the one held.
AddRecheck ==
  /\ main.pc = "recheck"
  /\ IF StillCurrent
     THEN HandManifest(main.sub, main.held)
     ELSE UNCHANGED <<seen, late>>
  /\ readers' = readers \ {"main"}
  /\ main' = MainIdle
  /\ UNCHANGED <<manifest, subscriptions, running, events, worker, handlers>>

(***************************************************************************)
(* The main thread: pka_source_remove_subscription, which mutes a running  *)
(* source that nobody observes, whether or not an entry was removed.       *)
(***************************************************************************)
RemoveSubscription(s) ==
  /\ main.pc = "idle"
  /\ RoomFor(1)
  /\ main' = [MainIdle EXCEPT !.pc = "remove", !.sub = s]
  /\ UNCHANGED <<manifest, subscriptions, running, events, readers, worker,
                 delivery>>

NoExclusion   == TRUE                   \* faulty: the lock is not taken
RemoveSection == WriterSection

RemoveLocked ==
  /\ main.pc = "remove"
  /\ RemoveSection
  /\ subscriptions' = RemoveFast(subscriptions, main.sub)
  /\ IF running /\ subscriptions' = <<>>
     THEN Queue("muted")
     ELSE UNCHANGED events
  \* A handler that rejoins starts over: what it had seen no longer counts.
  /\ IF main.sub \in Members \ Members'
     THEN /\ seen' = [seen EXCEPT ![main.sub] = NoManifest]
          /\ late' = late \ {main.sub}
     ELSE UNCHANGED <<seen, late>>
  /\ main' = MainIdle
  /\ UNCHANGED <<manifest, running, readers, worker, handlers>>

(***************************************************************************)
(* The main thread: pka_subscription_set_handlers.  The writer lock of the *)
(* subscription excludes a delivery to it, which is one step here.         *)
(***************************************************************************)
SetHandlers(s) ==
  /\ main.pc = "idle"
  /\ handlers' = handlers \cup {s}
  /\ seen' = [seen EXCEPT ![s] = NoManifest]
  /\ late' = IF s \in Members THEN late \cup {s} ELSE late
  /\ UNCHANGED <<manifest, subscriptions, running, events, readers, main,
                 worker>>

(***************************************************************************)
(* The main thread: the channel notifies the source.                       *)
(***************************************************************************)
Notify(pc) ==
  /\ main.pc = "idle"
  /\ RoomFor(2)
  /\ main' = [MainIdle EXCEPT !.pc = pc]
  /\ UNCHANGED <<manifest, subscriptions, running, events, readers, worker,
                 delivery>>

NotifyStartedLocked ==
  /\ main.pc = "notify_started"
  /\ WriterSection
  /\ running' = TRUE
  /\ events' = events \o IF subscriptions = <<>>
                         THEN <<"started", "muted">>
                         ELSE <<"started">>
  /\ main' = MainIdle
  /\ UNCHANGED <<manifest, subscriptions, readers, worker, delivery>>

NotifyStoppedLocked ==
  /\ main.pc = "notify_stopped"
  /\ WriterSection
  /\ running' = FALSE
  /\ IF running THEN Queue("stopped") ELSE UNCHANGED events
  /\ main' = MainIdle
  /\ UNCHANGED <<manifest, subscriptions, readers, worker, delivery>>

\* pka_source_notify_muted, _unmuted and _reset take no lock.
NotifyUnlocked(kind) ==
  /\ main.pc = "idle"
  /\ RoomFor(1)
  /\ Queue(kind)
  /\ UNCHANGED <<manifest, subscriptions, running, readers, main, worker,
                 delivery>>

\* The main loop runs the oldest emission: a signal to the source's class.
EmitEvent ==
  /\ main.pc = "idle"
  /\ events # <<>>
  /\ events' = Tail(events)
  /\ UNCHANGED <<manifest, subscriptions, running, readers, main, worker,
                 delivery>>

(***************************************************************************)
(* The sampling thread: pka_source_deliver_manifest.                       *)
(***************************************************************************)
DeliverManifest ==
  /\ worker.pc = "idle"
  /\ manifest < MaxManifest
  /\ worker' = [WorkerIdle EXCEPT !.pc = "publish", !.doc = manifest + 1]
  /\ UNCHANGED <<manifest, subscriptions, running, events, readers, main,
                 delivery>>

PublishLocked ==
  /\ worker.pc = "publish"
  /\ WriterSection
  /\ manifest' = worker.doc
  /\ worker' = [worker EXCEPT !.pc = "m_lock"]
  /\ UNCHANGED <<subscriptions, running, events, readers, main, delivery>>

(***************************************************************************)
(* The sampling thread: pka_source_deliver_sample.  The callbacks of       *)
(* perfkit-agent/sources deliver a manifest before their first sample.     *)
(***************************************************************************)
DeliverSample ==
  /\ worker.pc = "idle"
  /\ manifest # NoManifest
  /\ worker' = [WorkerIdle EXCEPT !.pc = "s_lock"]
  /\ UNCHANGED <<manifest, subscriptions, running, events, readers, main,
                 delivery>>

\* Both deliveries walk the array under the reader lock.
WorkerReaderLock ==
  /\ worker.pc \in {"m_lock", "s_lock"}
  /\ ReaderLock("worker")
  /\ worker' = [worker EXCEPT !.pc = IF @ = "m_lock" THEN "m_walk"
                                                      ELSE "s_walk"]
  /\ UNCHANGED <<manifest, subscriptions, running, events, main, delivery>>

FetchEntry ==
  /\ worker.pc \in {"m_walk", "s_walk"}
  /\ worker.i <= Len(subscriptions)
  /\ worker' = [worker EXCEPT !.pc = IF @ = "m_walk" THEN "m_hand"
                                                      ELSE "s_hand",
                              !.sub = subscriptions[worker.i]]
  /\ UNCHANGED <<manifest, subscriptions, running, events, readers, main,
                 delivery>>

HandToEntry ==
  /\ worker.pc \in {"m_hand", "s_hand"}
  /\ IF worker.pc = "m_hand"
     THEN HandManifest(worker.sub, worker.doc)
     ELSE UNCHANGED <<seen, late>>
  /\ worker' = [worker EXCEPT !.pc = IF @ = "m_hand" THEN "m_walk"
                                                      ELSE "s_walk",
                              !.i = @ + 1,
                              !.sub = NoSubscription]
  /\ UNCHANGED <<manifest, subscriptions, running, events, readers, main,
                 handlers>>

EndWalk ==
  /\ worker.pc \in {"m_walk", "s_walk"}
  /\ worker.i > Len(subscriptions)
  /\ readers' = readers \ {"worker"}
  /\ worker' = WorkerIdle
  /\ UNCHANGED <<manifest, subscriptions, running, events, main, delivery>>
-----------------------------------------------------------------------------
\* The rest of a call that has begun.
MainStep ==
  \/ AddLocked
  \/ AddReaderLock
  \/ AddRecheck
  \/ RemoveLocked
  \/ NotifyStartedLocked
  \/ NotifyStoppedLocked

WorkerStep ==
  \/ PublishLocked
  \/ WorkerReaderLock
  \/ FetchEntry
  \/ HandToEntry
  \/ EndWalk

Next ==
  \/ \E s \in Subscriptions :
       \/ AddSubscription(s)
       \/ RemoveSubscription(s)
       \/ SetHandlers(s)
  \/ \E pc \in {"notify_started", "notify_stopped"} : Notify(pc)
  \/ \E kind \in {"muted", "unmuted", "reset"} : NotifyUnlocked(kind)
  \/ EmitEvent
  \/ MainStep
  \/ DeliverManifest
  \/ DeliverSample
  \/ WorkerStep

Spec == Init /\ [][Next]_vars

\* A call that has begun goes on, and the main loop runs what is queued; no
\* client has to call, and no source has to have anything to deliver.  A
\* reader that a stream of writers holds off gets in between two of them: a
\* leaving writer wakes it, and the main thread polls its clients before it
\* can call again.
Fairness ==
  /\ WF_vars(MainStep)
  /\ WF_vars(WorkerStep)
  /\ SF_vars(WorkerReaderLock)
  /\ WF_vars(EmitEvent)

FairSpec == Spec /\ Fairness
-----------------------------------------------------------------------------
TypeOK ==
  /\ manifest \in Versions
  /\ subscriptions \in Seq(Subscriptions)
  /\ running \in BOOLEAN
  /\ events \in Seq(EventKinds)
  /\ readers \subseteq Threads
  /\ main \in [pc : {"idle"} \cup MainWriting \cup MainReading,
               sub : Subscriptions \cup {NoSubscription},
               held : Versions]
  /\ worker \in [pc : WorkerPcs, doc : Versions, i : Nat \ {0},
                 sub : Subscriptions \cup {NoSubscription}]
  /\ handlers \subseteq Subscriptions
  /\ seen \in [Subscriptions -> Versions]
  /\ late \subseteq Subscriptions

(***************************************************************************)
(* The sampling thread never hands anything to a subscription that has     *)
(* been removed: the reader lock it holds keeps the entry it fetched in    *)
(* the array, and with it the array's reference on the subscription.       *)
(***************************************************************************)
FetchedIsMember ==
  worker.pc \in {"m_hand", "s_hand"} =>
    /\ worker.i <= Len(subscriptions)
    /\ subscriptions[worker.i] = worker.sub

(***************************************************************************)
(* A handler is never handed a sample that it would decode with another    *)
(* manifest than the one the sample was encoded with: since it joined it   *)
(* has seen the source's current manifest, or none at all.                 *)
(***************************************************************************)
NeverWrongManifest ==
  worker.pc = "s_hand" /\ worker.sub \in handlers =>
    seen[worker.sub] \in {NoManifest, manifest}

\* The sampling thread has still to hand the manifest to s.
Unreached(s) ==
  \/ worker.pc = "m_lock"
  \/ /\ worker.pc \in {"m_walk", "m_hand"}
     /\ \E i \in worker.i .. Len(subscriptions) : subscriptions[i] = s

\* Or the main thread will recheck the one it holds for s and hand it over.
ToBeHanded(s) ==
  \/ Unreached(s)
  \/ main.pc \in MainReading /\ main.sub = s /\ main.held = manifest

(***************************************************************************)
(* No manifest is lost between the two locks of pka_source_add_subscription*)
(* and those of pka_source_deliver_manifest: a member whose handler was    *)
(* set before it joined has seen the current manifest, or a thread is on   *)
(* its way to hand it over.                                                *)
(***************************************************************************)
NoManifestLost ==
  \A s \in (Members \cap handlers) \ late :
    seen[s] = manifest \/ ToBeHanded(s)

(***************************************************************************)
(* The invariant the proofs go by.  What a thread holds is current except  *)
(* for the manifest the main thread held before another was published, and *)
(* a handler is behind only while the sampling thread still has to reach   *)
(* its entry.                                                              *)
(***************************************************************************)
ReadersAreInside ==
  /\ "main" \in readers <=> main.pc = "recheck"
  /\ "worker" \in readers <=>
       worker.pc \in {"m_walk", "m_hand", "s_walk", "s_hand"}

WorkerHolds ==
  /\ worker.pc \in {"idle", "publish", "m_lock", "s_lock"} => worker.i = 1
  /\ worker.pc = "publish" => worker.doc = manifest + 1
  /\ worker.pc \in {"m_lock", "m_walk", "m_hand"} =>
       worker.doc = manifest /\ manifest # NoManifest

MainHolds ==
  /\ main.pc \in {"add", "remove"} => main.sub \in Subscriptions
  /\ main.pc \in MainReading =>
       /\ main.sub \in Members
       /\ main.held # NoManifest
       /\ main.held <= manifest

SeenIsKnown ==
  \A s \in Subscriptions :
    /\ seen[s] <= manifest
    /\ seen[s] # NoManifest => s \in Members \cap handlers
    /\ seen[s] \in {NoManifest, manifest} \/ Unreached(s)

IInv ==
  /\ TypeOK
  /\ ReadersAreInside
  /\ FetchedIsMember
  /\ WorkerHolds
  /\ MainHolds
  /\ SeenIsKnown
  /\ NoManifestLost

(***************************************************************************)
(* A handler never sees an older manifest after a newer one: the recheck   *)
(* in pka_source_add_subscription drops the one it held if the sampling    *)
(* thread published another in between.                                    *)
(***************************************************************************)
ManifestsInOrder ==
  [][\A s \in Subscriptions : seen'[s] # NoManifest => seen'[s] >= seen[s]]_vars

(***************************************************************************)
(* A subscription that joined with a handler is eventually told the        *)
(* current manifest, unless it leaves or its handler is replaced first.    *)
(***************************************************************************)
ManifestReachesMembers ==
  \A s \in Subscriptions :
    s \in (Members \cap handlers) \ late
      ~> \/ seen[s] = manifest
         \/ s \notin (Members \cap handlers) \ late
=============================================================================
