--------------------------- MODULE PkaSourceProofs ---------------------------
(***************************************************************************)
(* Proofs about PkaSource, for any subscriptions and any bounds: the type  *)
(* invariant, no delivery to a removed subscription, no sample decoded     *)
(* with the wrong manifest, no manifest lost, and manifests in order.      *)
(***************************************************************************)
EXTENDS PkaSource, TLAPS

-----------------------------------------------------------------------------
(* The array of subscriptions.                                             *)

LEMMA ToSetEntries ==
  ASSUME NEW S, NEW q \in Seq(S), NEW e
  PROVE  e \in ToSet(q) <=> \E i \in 1 .. Len(q) : q[i] = e
<1>1. DOMAIN q = 1 .. Len(q)
  OBVIOUS
<1>2. QED
  BY <1>1 DEF ToSet

\* An appended entry is a member, and no other entry changes.
LEMMA AppendEntry ==
  ASSUME NEW S, NEW q \in Seq(S), NEW e \in S
  PROVE  /\ Append(q, e) \in Seq(S)
         /\ ToSet(Append(q, e)) = ToSet(q) \cup {e}
<1> DEFINE r == Append(q, e)
<1>1. /\ r \in Seq(S)
      /\ Len(r) = Len(q) + 1
      /\ r[Len(q) + 1] = e
      /\ \A i \in 1 .. Len(q) : r[i] = q[i]
  OBVIOUS
<1> HIDE DEF r
<1>2. ASSUME NEW x
      PROVE  x \in ToSet(r) <=> x \in ToSet(q) \/ x = e
  <2>1. x \in ToSet(r) <=> \E i \in 1 .. Len(r) : r[i] = x
    BY <1>1, ToSetEntries
  <2>2. x \in ToSet(q) <=> \E i \in 1 .. Len(q) : q[i] = x
    BY ToSetEntries
  <2>3. QED
    BY <1>1, <2>1, <2>2
<1>3. ToSet(r) = ToSet(q) \cup {e}
  BY <1>2
<1>4. QED
  BY <1>1, <1>3 DEF r

\* g_ptr_array_remove_fast adds no member and removes no other one.
LEMMA RemoveFastEntry ==
  ASSUME NEW S, NEW q \in Seq(S), NEW e \in S
  PROVE  /\ RemoveFast(q, e) \in Seq(S)
         /\ ToSet(RemoveFast(q, e)) \subseteq ToSet(q)
         /\ ToSet(q) \ {e} \subseteq ToSet(RemoveFast(q, e))
<1>1. CASE ~Contains(q, e)
  BY <1>1 DEF RemoveFast
<1>2. CASE Contains(q, e)
  <2> DEFINE match == CHOOSE i \in 1 .. Len(q) : q[i] = e
             r == [j \in 1 .. Len(q) - 1 |->
                    IF j = match THEN q[Len(q)] ELSE q[j]]
  <2>1. RemoveFast(q, e) = r
    BY <1>2 DEF RemoveFast
  <2>3. match \in 1 .. Len(q) /\ q[match] = e
    BY <1>2 DEF Contains
  <2> HIDE DEF match
  <2>4. r \in Seq(S) /\ Len(r) = Len(q) - 1
    BY <2>3
  <2>5. \A j \in 1 .. Len(r) : \E i \in 1 .. Len(q) : r[j] = q[i]
    BY <2>3, <2>4
  <2>6. ASSUME NEW i \in 1 .. Len(q), q[i] # e
        PROVE  \E j \in 1 .. Len(r) : r[j] = q[i]
    <3>1. CASE i = Len(q)
      <4>1. match \in 1 .. Len(r) /\ r[match] = q[i]
        BY <2>3, <2>4, <2>6, <3>1
      <4>2. QED
        BY <4>1
    <3>2. CASE i # Len(q)
      <4>1. i \in 1 .. Len(r) /\ r[i] = q[i]
        BY <2>3, <2>4, <2>6, <3>2
      <4>2. QED
        BY <4>1
    <3>3. QED
      BY <3>1, <3>2
  <2>7. ASSUME NEW x
        PROVE  /\ x \in ToSet(r) <=> \E j \in 1 .. Len(r) : r[j] = x
               /\ x \in ToSet(q) <=> \E j \in 1 .. Len(q) : q[j] = x
    BY <2>4, ToSetEntries
  <2> HIDE DEF r
  <2>8. ToSet(r) \subseteq ToSet(q)
    BY <2>5, <2>7
  <2>9. ToSet(q) \ {e} \subseteq ToSet(r)
    BY <2>6, <2>7
  <2>10. QED
    BY <2>1, <2>4, <2>8, <2>9
<1>3. QED
  BY <1>1, <1>2

\* Members of the source's array, by index.
LEMMA MemberEntries ==
  ASSUME subscriptions \in Seq(Subscriptions), NEW s
  PROVE  s \in Members <=> \E i \in 1 .. Len(subscriptions) :
                             subscriptions[i] = s
  BY ToSetEntries DEF Members
-----------------------------------------------------------------------------
(* The invariant.                                                          *)

LEMMA InitInv == Init => IInv
<1> SUFFICES ASSUME Init PROVE IInv
  OBVIOUS
<1> USE DEF Init, NoManifest
<1>1. NoManifest \in Versions
  BY SourceAssumption DEF Versions
<1>2. main \in [pc : {"idle"} \cup MainWriting \cup MainReading,
                sub : Subscriptions \cup {NoSubscription}, held : Versions]
  BY <1>1 DEF MainIdle
<1>3. worker \in [pc : WorkerPcs, doc : Versions, i : Nat \ {0},
                  sub : Subscriptions \cup {NoSubscription}]
  BY <1>1 DEF WorkerIdle, WorkerPcs
<1>4. TypeOK
  <2>1. subscriptions \in Seq(Subscriptions) /\ events \in Seq(EventKinds)
    OBVIOUS
  <2>2. seen \in [Subscriptions -> Versions]
    BY <1>1
  <2>3. manifest \in Versions /\ running \in BOOLEAN /\ readers \subseteq Threads
        /\ handlers \subseteq Subscriptions /\ late \subseteq Subscriptions
    BY <1>1
  <2>4. QED
    BY <1>2, <1>3, <2>1, <2>2, <2>3 DEF TypeOK
<1>5. ReadersAreInside /\ FetchedIsMember /\ WorkerHolds /\ MainHolds
  BY DEF ReadersAreInside, FetchedIsMember, WorkerHolds, MainHolds,
         MainIdle, WorkerIdle, MainReading
<1>6. SeenIsKnown /\ NoManifestLost
  BY SourceAssumption DEF SeenIsKnown, NoManifestLost
<1>7. QED
  BY <1>4, <1>5, <1>6 DEF IInv

-----------------------------------------------------------------------------
(* Typing: every action keeps TypeOK.                                      *)

MainRecords ==
  [pc : {"idle"} \cup MainWriting \cup MainReading,
   sub : Subscriptions \cup {NoSubscription}, held : Versions]
WorkerRecords ==
  [pc : WorkerPcs, doc : Versions, i : Nat \ {0},
   sub : Subscriptions \cup {NoSubscription}]

LEMMA IdleType == /\ NoManifest \in Versions
                  /\ MainIdle \in MainRecords
                  /\ WorkerIdle \in WorkerRecords
<1>1. NoManifest \in Versions
  BY SourceAssumption DEF Versions, NoManifest
<1>2. QED
  BY <1>1 DEF MainIdle, WorkerIdle, MainRecords, WorkerRecords, WorkerPcs

LEMMA AppendType ==
  ASSUME NEW S, NEW q \in Seq(S), NEW e \in S
  PROVE  Append(q, e) \in Seq(S)
  OBVIOUS

LEMMA EventType ==
  ASSUME events \in Seq(EventKinds), NEW kind \in EventKinds, Queue(kind)
  PROVE  events' \in Seq(EventKinds)
  BY AppendType DEF Queue

LEMMA TypeInv == TypeOK /\ MainHolds /\ [Next]_vars => TypeOK'
<1> SUFFICES ASSUME TypeOK, MainHolds, [Next]_vars PROVE TypeOK'
  OBVIOUS
<1> USE IdleType
<1>t. /\ main \in MainRecords /\ worker \in WorkerRecords
      /\ subscriptions \in Seq(Subscriptions) /\ events \in Seq(EventKinds)
      /\ seen \in [Subscriptions -> Versions] /\ late \subseteq Subscriptions
      /\ handlers \subseteq Subscriptions /\ readers \subseteq Threads
      /\ manifest \in Versions /\ running \in BOOLEAN
  BY DEF TypeOK, MainRecords, WorkerRecords
<1>d. /\ main' \in MainRecords /\ worker' \in WorkerRecords
      /\ subscriptions' \in Seq(Subscriptions) /\ events' \in Seq(EventKinds)
      /\ seen' \in [Subscriptions -> Versions] /\ late' \subseteq Subscriptions
      /\ handlers' \subseteq Subscriptions /\ readers' \subseteq Threads
      /\ manifest' \in Versions /\ running' \in BOOLEAN
      => TypeOK'
  BY DEF TypeOK, MainRecords, WorkerRecords
<1>1. ASSUME NEW s \in Subscriptions, NEW pc \in {"add", "remove"},
             main' = [MainIdle EXCEPT !.pc = pc, !.sub = s]
      PROVE  main' \in MainRecords
  BY <1>1 DEF MainRecords, MainIdle, MainWriting
<1>2. ASSUME NEW s \in Subscriptions, AddSubscription(s)
      PROVE  TypeOK'
  BY <1>t, <1>d, <1>1, <1>2 DEF AddSubscription, delivery
<1>3. ASSUME NEW s \in Subscriptions, RemoveSubscription(s)
      PROVE  TypeOK'
  BY <1>t, <1>d, <1>1, <1>3 DEF RemoveSubscription, delivery
<1>4. ASSUME NEW s \in Subscriptions, SetHandlers(s)
      PROVE  TypeOK'
  BY <1>t, <1>d, <1>4 DEF SetHandlers
<1>5. ASSUME NEW pc \in {"notify_started", "notify_stopped"}, Notify(pc)
      PROVE  TypeOK'
  <2>1. main' \in MainRecords
    BY <1>5 DEF Notify, MainRecords, MainIdle, MainWriting
  <2>2. QED
    BY <1>t, <1>d, <1>5, <2>1 DEF Notify, delivery
<1>6. ASSUME NEW kind \in {"muted", "unmuted", "reset"}, NotifyUnlocked(kind)
      PROVE  TypeOK'
  <2>1. kind \in EventKinds /\ Queue(kind)
    BY <1>6 DEF NotifyUnlocked, EventKinds
  <2>2. QED
    BY <1>t, <1>d, <1>6, <2>1, EventType DEF NotifyUnlocked, delivery
<1>7. CASE EmitEvent
  BY <1>t, <1>d, <1>7 DEF EmitEvent, delivery
<1>8. CASE AddLocked
  <2>1. main.sub \in Subscriptions
    BY <1>8 DEF AddLocked, MainHolds
  <2>2. subscriptions' \in Seq(Subscriptions)
    BY <1>t, <1>8, <2>1, AppendType DEF AddLocked
  <2>3. "unmuted" \in EventKinds
    BY DEF EventKinds
  <2>4. events' \in Seq(EventKinds)
    BY <1>t, <1>8, <2>3, EventType DEF AddLocked
  <2>5. main' \in MainRecords
    BY <1>t, <1>8 DEF AddLocked, AfterAdd, MainRecords, MainReading
  <2>6. late' \subseteq Subscriptions
    BY <1>t, <1>8, <2>1 DEF AddLocked
  <2>7. QED
    BY <1>t, <1>d, <1>8, <2>2, <2>4, <2>5, <2>6 DEF AddLocked
<1>9. CASE AddReaderLock
  <2>1. main' \in MainRecords
    BY <1>t, <1>9 DEF AddReaderLock, MainRecords, MainReading
  <2>2. QED
    BY <1>t, <1>d, <1>9, <2>1 DEF AddReaderLock, ReaderLock, Threads, delivery
<1>10. CASE AddRecheck
  <2>1. main.held \in Versions
    BY <1>t DEF MainRecords
  <2>2. seen' \in [Subscriptions -> Versions] /\ late' \subseteq Subscriptions
    BY <1>t, <1>10, <2>1 DEF AddRecheck, HandManifest
  <2>3. QED
    BY <1>t, <1>d, <1>10, <2>2 DEF AddRecheck
<1>11. CASE RemoveLocked
  <2>1. main.sub \in Subscriptions
    BY <1>11 DEF RemoveLocked, MainHolds
  <2>2. subscriptions' \in Seq(Subscriptions)
    BY <1>t, <1>11, <2>1, RemoveFastEntry DEF RemoveLocked
  <2>3. "muted" \in EventKinds
    BY DEF EventKinds
  <2>4. events' \in Seq(EventKinds)
    BY <1>t, <1>11, <2>3, EventType DEF RemoveLocked
  <2>5. seen' \in [Subscriptions -> Versions] /\ late' \subseteq Subscriptions
    BY <1>t, <1>11 DEF RemoveLocked
  <2>6. QED
    BY <1>t, <1>d, <1>11, <2>2, <2>4, <2>5 DEF RemoveLocked
<1>12. CASE NotifyStartedLocked
  <2>1. <<"started", "muted">> \in Seq(EventKinds)
        /\ <<"started">> \in Seq(EventKinds)
    BY DEF EventKinds
  <2>2. PICK q \in Seq(EventKinds) : events' = events \o q
    BY <1>12, <2>1 DEF NotifyStartedLocked
  <2>3. events' \in Seq(EventKinds)
    BY <1>t, <2>2
  <2>4. QED
    BY <1>t, <1>d, <1>12, <2>3 DEF NotifyStartedLocked, delivery
<1>13. CASE NotifyStoppedLocked
  <2>1. "stopped" \in EventKinds
    BY DEF EventKinds
  <2>2. events' \in Seq(EventKinds)
    BY <1>t, <1>13, <2>1, EventType DEF NotifyStoppedLocked
  <2>3. QED
    BY <1>t, <1>d, <1>13, <2>2 DEF NotifyStoppedLocked, delivery
<1>14. CASE DeliverManifest
  <2>1. manifest + 1 \in Versions
    BY <1>t, <1>14, SourceAssumption DEF DeliverManifest, Versions
  <2>2. worker' \in WorkerRecords
    BY <1>14, <2>1 DEF DeliverManifest, WorkerRecords, WorkerIdle, WorkerPcs
  <2>3. QED
    BY <1>t, <1>d, <1>14, <2>2 DEF DeliverManifest, delivery
<1>15. CASE DeliverSample
  <2>1. worker' \in WorkerRecords
    BY <1>15 DEF DeliverSample, WorkerRecords, WorkerIdle, WorkerPcs
  <2>2. QED
    BY <1>t, <1>d, <1>15, <2>1 DEF DeliverSample, delivery
<1>16. CASE PublishLocked
  <2>1. worker.doc \in Versions
    BY <1>t DEF WorkerRecords
  <2>2. worker' \in WorkerRecords
    BY <1>t, <1>16 DEF PublishLocked, WorkerRecords, WorkerPcs
  <2>3. QED
    BY <1>t, <1>d, <1>16, <2>1, <2>2 DEF PublishLocked, delivery
<1>17. CASE WorkerReaderLock
  <2>1. worker' \in WorkerRecords
    BY <1>t, <1>17 DEF WorkerReaderLock, WorkerRecords, WorkerPcs
  <2>2. QED
    BY <1>t, <1>d, <1>17, <2>1
       DEF WorkerReaderLock, ReaderLock, Threads, delivery
<1>18. CASE FetchEntry
  <2>1. worker.i \in 1 .. Len(subscriptions)
    BY <1>t, <1>18 DEF FetchEntry, WorkerRecords
  <2>2. PICK s \in Subscriptions : s = subscriptions[worker.i]
    BY <1>t, <2>1
  <2>3. worker' \in WorkerRecords
    BY <1>t, <1>18, <2>2 DEF FetchEntry, WorkerRecords, WorkerPcs
  <2>4. QED
    BY <1>t, <1>d, <1>18, <2>3 DEF FetchEntry, delivery
<1>19. CASE HandToEntry
  <2>1. PICK n \in Nat \ {0} : n = worker.i + 1
    BY <1>t DEF WorkerRecords
  <2>2. worker' = [worker EXCEPT !.pc = IF @ = "m_hand" THEN "m_walk"
                                                       ELSE "s_walk",
                                 !.i = n, !.sub = NoSubscription]
    BY <1>19, <2>1 DEF HandToEntry
  <2>3. worker' \in WorkerRecords
    BY <1>t, <2>2 DEF WorkerRecords, WorkerPcs
  <2>4. worker.doc \in Versions
    BY <1>t DEF WorkerRecords
  <2>5. seen' \in [Subscriptions -> Versions] /\ late' \subseteq Subscriptions
    BY <1>t, <1>19, <2>4 DEF HandToEntry, HandManifest
  <2>6. QED
    BY <1>t, <1>d, <1>19, <2>3, <2>5 DEF HandToEntry
<1>20. CASE EndWalk
  BY <1>t, <1>d, <1>20 DEF EndWalk, delivery
<1>21. CASE UNCHANGED vars
  BY <1>t, <1>d, <1>21 DEF vars, delivery
<1>22. QED
  BY <1>2, <1>3, <1>4, <1>5, <1>6, <1>7, <1>8, <1>9, <1>10, <1>11, <1>12,
     <1>13, <1>14, <1>15, <1>16, <1>17, <1>18, <1>19, <1>20, <1>21
     DEF Next, MainStep, WorkerStep
-----------------------------------------------------------------------------
(* The locks, and what a thread holds.                                     *)

LEMMA ReadersInv ==
  IInv /\ [Next]_vars => ReadersAreInside'
<1> SUFFICES ASSUME IInv, [Next]_vars PROVE ReadersAreInside'
  OBVIOUS
<1> USE DEF ReadersAreInside, MainIdle, WorkerIdle, MainRecords, WorkerRecords
<1>t. main \in MainRecords /\ worker \in WorkerRecords /\ manifest \in Nat
      /\ subscriptions \in Seq(Subscriptions)
  BY SourceAssumption DEF IInv, TypeOK, MainRecords, WorkerRecords, Versions
<1>i. ReadersAreInside
  BY DEF IInv
<1>1. ASSUME NEW s \in Subscriptions, AddSubscription(s)
      PROVE  ReadersAreInside'
  BY <1>t, <1>i, <1>1 DEF AddSubscription, delivery
<1>2. ASSUME NEW s \in Subscriptions, RemoveSubscription(s)
      PROVE  ReadersAreInside'
  BY <1>t, <1>i, <1>2 DEF RemoveSubscription, delivery
<1>3. ASSUME NEW s \in Subscriptions, SetHandlers(s)
      PROVE  ReadersAreInside'
  BY <1>t, <1>i, <1>3 DEF SetHandlers
<1>4. ASSUME NEW pc \in {"notify_started", "notify_stopped"}, Notify(pc)
      PROVE  ReadersAreInside'
  BY <1>t, <1>i, <1>4 DEF Notify, delivery
<1>5. ASSUME NEW kind \in {"muted", "unmuted", "reset"}, NotifyUnlocked(kind)
      PROVE  ReadersAreInside'
  BY <1>t, <1>i, <1>5 DEF NotifyUnlocked, delivery
<1>6. CASE AddLocked
  BY <1>t, <1>i, <1>6 DEF AddLocked, AfterAdd, WriterSection, delivery
<1>7. CASE AddReaderLock
  BY <1>t, <1>i, <1>7 DEF AddReaderLock, ReaderLock, delivery
<1>8. CASE AddRecheck
  BY <1>t, <1>i, <1>8 DEF AddRecheck, delivery
<1>9. CASE RemoveLocked
  BY <1>t, <1>i, <1>9 DEF RemoveLocked, RemoveSection, WriterSection, delivery
<1>10. CASE NotifyStartedLocked
  BY <1>t, <1>i, <1>10 DEF NotifyStartedLocked, WriterSection, delivery
<1>11. CASE NotifyStoppedLocked
  BY <1>t, <1>i, <1>11 DEF NotifyStoppedLocked, WriterSection, delivery
<1>12. CASE EmitEvent
  BY <1>t, <1>i, <1>12 DEF EmitEvent, delivery
<1>13. CASE DeliverManifest
  BY <1>t, <1>i, <1>13 DEF DeliverManifest, delivery
<1>14. CASE DeliverSample
  BY <1>t, <1>i, <1>14 DEF DeliverSample, delivery
<1>15. CASE PublishLocked
  BY <1>t, <1>i, <1>15 DEF PublishLocked, WriterSection, delivery
<1>16. CASE WorkerReaderLock
  BY <1>t, <1>i, <1>16 DEF WorkerReaderLock, ReaderLock, delivery
<1>17. CASE FetchEntry
  BY <1>t, <1>i, <1>17 DEF FetchEntry, delivery
<1>18. CASE HandToEntry
  BY <1>t, <1>i, <1>18 DEF HandToEntry, delivery
<1>19. CASE EndWalk
  BY <1>t, <1>i, <1>19 DEF EndWalk, delivery
<1>20. CASE UNCHANGED vars
  BY <1>t, <1>i, <1>20 DEF vars, delivery
<1>21. QED
  BY <1>1, <1>2, <1>3, <1>4, <1>5, <1>6, <1>7, <1>8, <1>9, <1>10, <1>11, <1>12, <1>13, <1>14, <1>15, <1>16, <1>17, <1>18, <1>19, <1>20
     DEF Next, MainStep, WorkerStep

LEMMA WorkerInv ==
  IInv /\ [Next]_vars => WorkerHolds'
<1> SUFFICES ASSUME IInv, [Next]_vars PROVE WorkerHolds'
  OBVIOUS
<1> USE DEF WorkerHolds, WorkerIdle, WorkerRecords, NoManifest
<1>t. main \in MainRecords /\ worker \in WorkerRecords /\ manifest \in Nat
      /\ subscriptions \in Seq(Subscriptions)
  BY SourceAssumption DEF IInv, TypeOK, MainRecords, WorkerRecords, Versions
<1>i. WorkerHolds
  BY DEF IInv
<1>1. ASSUME NEW s \in Subscriptions, AddSubscription(s)
      PROVE  WorkerHolds'
  BY <1>t, <1>i, <1>1 DEF AddSubscription, delivery
<1>2. ASSUME NEW s \in Subscriptions, RemoveSubscription(s)
      PROVE  WorkerHolds'
  BY <1>t, <1>i, <1>2 DEF RemoveSubscription, delivery
<1>3. ASSUME NEW s \in Subscriptions, SetHandlers(s)
      PROVE  WorkerHolds'
  BY <1>t, <1>i, <1>3 DEF SetHandlers
<1>4. ASSUME NEW pc \in {"notify_started", "notify_stopped"}, Notify(pc)
      PROVE  WorkerHolds'
  BY <1>t, <1>i, <1>4 DEF Notify, delivery
<1>5. ASSUME NEW kind \in {"muted", "unmuted", "reset"}, NotifyUnlocked(kind)
      PROVE  WorkerHolds'
  BY <1>t, <1>i, <1>5 DEF NotifyUnlocked, delivery
<1>6. CASE AddLocked
  BY <1>t, <1>i, <1>6 DEF AddLocked, AfterAdd, WriterSection, delivery
<1>7. CASE AddReaderLock
  BY <1>t, <1>i, <1>7 DEF AddReaderLock, ReaderLock, delivery
<1>8. CASE AddRecheck
  BY <1>t, <1>i, <1>8 DEF AddRecheck, delivery
<1>9. CASE RemoveLocked
  BY <1>t, <1>i, <1>9 DEF RemoveLocked, RemoveSection, WriterSection, delivery
<1>10. CASE NotifyStartedLocked
  BY <1>t, <1>i, <1>10 DEF NotifyStartedLocked, WriterSection, delivery
<1>11. CASE NotifyStoppedLocked
  BY <1>t, <1>i, <1>11 DEF NotifyStoppedLocked, WriterSection, delivery
<1>12. CASE EmitEvent
  BY <1>t, <1>i, <1>12 DEF EmitEvent, delivery
<1>13. CASE DeliverManifest
  BY <1>t, <1>i, <1>13 DEF DeliverManifest, delivery
<1>14. CASE DeliverSample
  BY <1>t, <1>i, <1>14 DEF DeliverSample, delivery
<1>15. CASE PublishLocked
  BY <1>t, <1>i, <1>15 DEF PublishLocked, WriterSection, delivery
<1>16. CASE WorkerReaderLock
  BY <1>t, <1>i, <1>16 DEF WorkerReaderLock, ReaderLock, delivery
<1>17. CASE FetchEntry
  BY <1>t, <1>i, <1>17 DEF FetchEntry, delivery
<1>18. CASE HandToEntry
  BY <1>t, <1>i, <1>18 DEF HandToEntry, delivery
<1>19. CASE EndWalk
  BY <1>t, <1>i, <1>19 DEF EndWalk, delivery
<1>20. CASE UNCHANGED vars
  BY <1>t, <1>i, <1>20 DEF vars, delivery
<1>21. QED
  BY <1>1, <1>2, <1>3, <1>4, <1>5, <1>6, <1>7, <1>8, <1>9, <1>10, <1>11, <1>12, <1>13, <1>14, <1>15, <1>16, <1>17, <1>18, <1>19, <1>20
     DEF Next, MainStep, WorkerStep

LEMMA FetchedInv ==
  IInv /\ [Next]_vars => FetchedIsMember'
<1> SUFFICES ASSUME IInv, [Next]_vars PROVE FetchedIsMember'
  OBVIOUS
<1> USE DEF FetchedIsMember, WorkerIdle, WorkerRecords
<1>t. main \in MainRecords /\ worker \in WorkerRecords /\ manifest \in Nat
      /\ subscriptions \in Seq(Subscriptions)
  BY SourceAssumption DEF IInv, TypeOK, MainRecords, WorkerRecords, Versions
<1>i. FetchedIsMember /\ ReadersAreInside
  BY DEF IInv
<1>1. ASSUME NEW s \in Subscriptions, AddSubscription(s)
      PROVE  FetchedIsMember'
  BY <1>t, <1>i, <1>1 DEF AddSubscription, delivery
<1>2. ASSUME NEW s \in Subscriptions, RemoveSubscription(s)
      PROVE  FetchedIsMember'
  BY <1>t, <1>i, <1>2 DEF RemoveSubscription, delivery
<1>3. ASSUME NEW s \in Subscriptions, SetHandlers(s)
      PROVE  FetchedIsMember'
  BY <1>t, <1>i, <1>3 DEF SetHandlers
<1>4. ASSUME NEW pc \in {"notify_started", "notify_stopped"}, Notify(pc)
      PROVE  FetchedIsMember'
  BY <1>t, <1>i, <1>4 DEF Notify, delivery
<1>5. ASSUME NEW kind \in {"muted", "unmuted", "reset"}, NotifyUnlocked(kind)
      PROVE  FetchedIsMember'
  BY <1>t, <1>i, <1>5 DEF NotifyUnlocked, delivery
<1>6. CASE AddLocked
  BY <1>t, <1>i, <1>6 DEF AddLocked, AfterAdd, WriterSection, delivery
<1>7. CASE AddReaderLock
  BY <1>t, <1>i, <1>7 DEF AddReaderLock, ReaderLock, delivery
<1>8. CASE AddRecheck
  BY <1>t, <1>i, <1>8 DEF AddRecheck, delivery
<1>9. CASE RemoveLocked
  <2>1. worker.pc \notin {"m_hand", "s_hand"}
    BY <1>t, <1>i, <1>9 DEF RemoveLocked, RemoveSection, WriterSection, ReadersAreInside
  <2>2. QED
    BY <2>1, <1>9 DEF RemoveLocked
<1>10. CASE NotifyStartedLocked
  BY <1>t, <1>i, <1>10 DEF NotifyStartedLocked, WriterSection, delivery
<1>11. CASE NotifyStoppedLocked
  BY <1>t, <1>i, <1>11 DEF NotifyStoppedLocked, WriterSection, delivery
<1>12. CASE EmitEvent
  BY <1>t, <1>i, <1>12 DEF EmitEvent, delivery
<1>13. CASE DeliverManifest
  BY <1>t, <1>i, <1>13 DEF DeliverManifest, delivery
<1>14. CASE DeliverSample
  BY <1>t, <1>i, <1>14 DEF DeliverSample, delivery
<1>15. CASE PublishLocked
  BY <1>t, <1>i, <1>15 DEF PublishLocked, WriterSection, delivery
<1>16. CASE WorkerReaderLock
  BY <1>t, <1>i, <1>16 DEF WorkerReaderLock, ReaderLock, delivery
<1>17. CASE FetchEntry
  BY <1>t, <1>i, <1>17 DEF FetchEntry, delivery
<1>18. CASE HandToEntry
  BY <1>t, <1>i, <1>18 DEF HandToEntry, delivery
<1>19. CASE EndWalk
  BY <1>t, <1>i, <1>19 DEF EndWalk, delivery
<1>20. CASE UNCHANGED vars
  BY <1>t, <1>i, <1>20 DEF vars, delivery
<1>21. QED
  BY <1>1, <1>2, <1>3, <1>4, <1>5, <1>6, <1>7, <1>8, <1>9, <1>10, <1>11, <1>12, <1>13, <1>14, <1>15, <1>16, <1>17, <1>18, <1>19, <1>20
     DEF Next, MainStep, WorkerStep

LEMMA MainInv ==
  IInv /\ [Next]_vars => MainHolds'
<1> SUFFICES ASSUME IInv, [Next]_vars PROVE MainHolds'
  OBVIOUS
<1> USE DEF MainHolds, MainReading
<1>t. /\ main \in MainRecords /\ manifest \in Nat
      /\ subscriptions \in Seq(Subscriptions)
  BY SourceAssumption DEF IInv, TypeOK, MainRecords, Versions
<1>i. MainHolds /\ WorkerHolds
  BY DEF IInv
<1>1. CASE AddLocked
  <2>1. main.sub \in Subscriptions
    BY <1>i, <1>1 DEF AddLocked
  <2>2. main.sub \in Members'
    BY <1>t, <1>1, <2>1, AppendEntry DEF AddLocked, Members
  <2>3. main' = MainIdle \/ /\ manifest # NoManifest
                            /\ main'.sub = main.sub
                            /\ main'.held = manifest
                            /\ main'.pc = "announce"
    BY <1>t, <1>1 DEF AddLocked, AfterAdd, MainRecords
  <2>4. manifest' = manifest
    BY <1>1 DEF AddLocked
  <2>5. QED
    BY <1>t, <2>2, <2>3, <2>4 DEF MainIdle
<1>2. CASE AddReaderLock
  BY <1>t, <1>i, <1>2 DEF AddReaderLock, MainRecords, Members
<1>3. CASE PublishLocked
  <2>1. manifest' = manifest + 1 /\ main' = main /\ Members' = Members
    BY <1>i, <1>3 DEF PublishLocked, WorkerHolds, Members
  <2>2. main.pc \in MainReading => main.held \in Nat
    BY <1>t, SourceAssumption DEF MainRecords, Versions
  <2>3. QED
    BY <1>t, <1>i, <2>1, <2>2
<1>4. CASE \/ AddRecheck \/ RemoveLocked
           \/ NotifyStartedLocked \/ NotifyStoppedLocked
  BY <1>4 DEF AddRecheck, RemoveLocked, NotifyStartedLocked,
              NotifyStoppedLocked, MainIdle
<1>5. ASSUME NEW s \in Subscriptions,
             AddSubscription(s) \/ RemoveSubscription(s)
      PROVE  MainHolds'
  BY <1>5 DEF AddSubscription, RemoveSubscription, MainIdle
<1>6. ASSUME NEW pc \in {"notify_started", "notify_stopped"}, Notify(pc)
      PROVE  MainHolds'
  BY <1>6 DEF Notify, MainIdle
<1>7. ASSUME UNCHANGED <<main, subscriptions, manifest>>
      PROVE  MainHolds'
  BY <1>i, <1>7 DEF Members
<1>8. QED
  BY <1>1, <1>2, <1>3, <1>4, <1>5, <1>6, <1>7
     DEF Next, MainStep, WorkerStep, SetHandlers, NotifyUnlocked, EmitEvent,
         DeliverManifest, DeliverSample, WorkerReaderLock, FetchEntry,
         HandToEntry, EndWalk, vars

-----------------------------------------------------------------------------
(* What the handlers have seen.                                            *)

LEMMA SeenInv ==
  IInv /\ [Next]_vars => SeenIsKnown'
<1> SUFFICES ASSUME IInv, [Next]_vars, NEW s \in Subscriptions
             PROVE  /\ seen'[s] <= manifest'
                    /\ seen'[s] # NoManifest => s \in Members' \cap handlers'
                    /\ seen'[s] \in {NoManifest, manifest'} \/ Unreached(s)'
  BY DEF SeenIsKnown
<1> DEFINE Goal == /\ seen'[s] <= manifest'
                   /\ seen'[s] # NoManifest => s \in Members' \cap handlers'
                   /\ \/ seen'[s] \in {NoManifest, manifest'}
                      \/ Unreached(s)'
<1>t. /\ main \in MainRecords /\ worker \in WorkerRecords
      /\ manifest \in Nat /\ seen \in [Subscriptions -> Nat]
      /\ subscriptions \in Seq(Subscriptions)
  BY SourceAssumption DEF IInv, TypeOK, MainRecords, WorkerRecords, Versions
<1>i. ReadersAreInside /\ FetchedIsMember /\ WorkerHolds /\ MainHolds
  BY DEF IInv
<1>s. /\ seen[s] <= manifest
      /\ seen[s] # NoManifest => s \in Members \cap handlers
      /\ seen[s] \in {NoManifest, manifest} \/ Unreached(s)
  BY DEF IInv, SeenIsKnown
<1>1. ASSUME UNCHANGED <<manifest, subscriptions, worker, handlers, seen>>
      PROVE  Goal
  BY <1>s, <1>1 DEF Unreached, Members
<1>2. ASSUME NEW r \in Subscriptions, SetHandlers(r)
      PROVE  Goal
  BY <1>t, <1>s, <1>2 DEF SetHandlers, Unreached, Members, NoManifest
<1>3. CASE AddLocked
  <2>1. main.sub \in Subscriptions
    BY <1>i, <1>3 DEF AddLocked, MainHolds
  <2>2. Members \subseteq Members'
    BY <1>t, <1>3, <2>1, AppendEntry DEF AddLocked, Members
  <2>3. /\ Len(subscriptions') = Len(subscriptions) + 1
        /\ \A i \in 1 .. Len(subscriptions) :
             subscriptions'[i] = subscriptions[i]
    BY <1>t, <1>3, <2>1 DEF AddLocked
  <2>4. Unreached(s) => Unreached(s)'
    BY <1>t, <1>3, <2>3 DEF AddLocked, Unreached, WorkerRecords
  <2>5. QED
    BY <1>s, <1>3, <2>2, <2>4 DEF AddLocked
<1>4. CASE AddRecheck
  <2>1. \/ seen'[s] = seen[s]
        \/ /\ seen'[s] = manifest
           /\ s \in Members \cap handlers
    BY <1>t, <1>i, <1>4
       DEF AddRecheck, HandManifest, StillCurrent, MainHolds, MainReading
  <2>2. Unreached(s)' = Unreached(s) /\ Members' = Members
        /\ UNCHANGED <<manifest, handlers>>
    BY <1>4 DEF AddRecheck, Unreached, Members
  <2>3. QED
    BY <1>t, <1>s, <2>1, <2>2
<1>5. CASE RemoveLocked
  <2>1. main.sub \in Subscriptions
    BY <1>i, <1>5 DEF RemoveLocked, MainHolds
  <2>2. Members \ {main.sub} \subseteq Members'
    BY <1>t, <1>5, <2>1, RemoveFastEntry DEF RemoveLocked, Members
  <2>3. worker.pc \notin {"m_walk", "m_hand"} /\ UNCHANGED worker
    BY <1>i, <1>5 DEF RemoveLocked, RemoveSection, WriterSection, ReadersAreInside
  <2>4. Unreached(s)' = Unreached(s)
    BY <2>3 DEF Unreached
  <2>5. seen'[s] = NoManifest \/ (seen'[s] = seen[s] /\ (s \in Members => s \in Members'))
    BY <1>t, <1>5, <2>1, <2>2 DEF RemoveLocked
  <2>6. UNCHANGED <<manifest, handlers>>
    BY <1>5 DEF RemoveLocked
  <2>7. QED
    BY <1>t, <1>s, <2>4, <2>5, <2>6 DEF NoManifest
<1>6. CASE PublishLocked
  <2>1. manifest' = manifest + 1 /\ worker'.pc = "m_lock"
        /\ Members' = Members /\ UNCHANGED <<seen, handlers>>
    BY <1>t, <1>i, <1>6
       DEF PublishLocked, WorkerHolds, WorkerRecords, Members, delivery
  <2>2. Unreached(s)'
    BY <2>1 DEF Unreached
  <2>3. QED
    BY <1>t, <1>s, <2>1, <2>2
<1>7. CASE WorkerReaderLock
  <2>1. /\ worker.pc = "m_lock" => worker'.pc = "m_walk"
        /\ worker'.i = 1
        /\ UNCHANGED <<manifest, subscriptions, seen, handlers>>
    BY <1>t, <1>i, <1>7
       DEF WorkerReaderLock, WorkerHolds, WorkerRecords, delivery
  <2>2. s \in Members => \E i \in 1 .. Len(subscriptions) : subscriptions[i] = s
    BY <1>t, MemberEntries
  <2>3. worker.pc = "m_lock" /\ s \in Members => Unreached(s)'
    BY <2>1, <2>2 DEF Unreached
  <2>4. worker.pc \notin {"m_walk", "m_hand"}
    BY <1>7 DEF WorkerReaderLock
  <2>5. QED
    BY <1>s, <2>1, <2>3, <2>4 DEF Unreached, Members
<1>8. CASE FetchEntry
  <2>1. /\ worker.pc = "m_walk" => worker'.pc = "m_hand"
        /\ worker.pc \in {"m_walk", "s_walk"}
        /\ worker'.i = worker.i
        /\ UNCHANGED <<manifest, subscriptions, seen, handlers>>
    BY <1>t, <1>8 DEF FetchEntry, WorkerRecords, delivery
  <2>2. QED
    BY <1>s, <2>1 DEF Unreached, Members
<1>9. CASE HandToEntry
  <2>1. /\ worker.pc = "m_hand" => worker'.pc = "m_walk"
        /\ worker.pc \in {"m_hand", "s_hand"}
        /\ worker'.i = worker.i + 1
        /\ UNCHANGED <<manifest, subscriptions, handlers>>
    BY <1>t, <1>9 DEF HandToEntry, WorkerRecords
  <2>2. /\ worker.i \in 1 .. Len(subscriptions)
        /\ subscriptions[worker.i] = worker.sub
    BY <1>t, <1>i, <2>1 DEF FetchedIsMember, WorkerRecords
  <2>3. CASE worker.pc = "m_hand" /\ worker.sub = s /\ s \in handlers
    <3>1. seen'[s] = manifest /\ s \in Members
      BY <1>t, <1>i, <1>9, <2>2, <2>3, MemberEntries
         DEF HandToEntry, HandManifest, WorkerHolds
    <3>2. QED
      BY <1>t, <2>1, <2>3, <3>1 DEF Members
  <2>4. CASE ~(worker.pc = "m_hand" /\ worker.sub = s /\ s \in handlers)
    <3>1. seen'[s] = seen[s]
      BY <1>t, <1>9, <2>4 DEF HandToEntry, HandManifest
    <3>2. ASSUME Unreached(s), seen[s] # NoManifest
          PROVE  Unreached(s)'
      <4>1. worker.pc = "m_hand" /\ worker.sub # s
        BY <1>s, <2>1, <2>4, <3>2 DEF Unreached
      <4>2. PICK i \in worker.i .. Len(subscriptions) : subscriptions[i] = s
        BY <2>1, <3>2 DEF Unreached
      <4>3. i \in worker.i + 1 .. Len(subscriptions)
        BY <1>t, <2>2, <4>1, <4>2
      <4>4. QED
        BY <2>1, <4>1, <4>2, <4>3 DEF Unreached
    <3>3. QED
      BY <1>s, <2>1, <3>1, <3>2 DEF Members
  <2>5. QED
    BY <2>3, <2>4
<1>10. CASE EndWalk
  <2>1. ~Unreached(s)
    BY <1>t, <1>10 DEF EndWalk, Unreached, WorkerRecords
  <2>2. QED
    BY <1>s, <1>10, <2>1 DEF EndWalk, delivery, Members
<1>11. CASE DeliverManifest \/ DeliverSample
  <2>1. ~Unreached(s)
    BY <1>11 DEF DeliverManifest, DeliverSample, Unreached
  <2>2. QED
    BY <1>s, <1>11, <2>1 DEF DeliverManifest, DeliverSample, delivery, Members
<1>12. QED
  BY <1>1, <1>2, <1>3, <1>4, <1>5, <1>6, <1>7, <1>8, <1>9, <1>10, <1>11
     DEF Next, MainStep, WorkerStep, AddSubscription, RemoveSubscription,
         Notify, NotifyUnlocked, EmitEvent, AddReaderLock,
         NotifyStartedLocked, NotifyStoppedLocked, vars, delivery

LEMMA LostInv ==
  IInv /\ [Next]_vars => NoManifestLost'
<1> SUFFICES ASSUME IInv, [Next]_vars,
                    NEW s \in (Members' \cap handlers') \ late'
             PROVE  seen'[s] = manifest' \/ ToBeHanded(s)'
  BY DEF NoManifestLost
<1> DEFINE Goal == seen'[s] = manifest' \/ ToBeHanded(s)'
<1>t. /\ main \in MainRecords /\ worker \in WorkerRecords
      /\ manifest \in Nat /\ seen \in [Subscriptions -> Nat]
      /\ subscriptions \in Seq(Subscriptions)
      /\ handlers \subseteq Subscriptions
  BY SourceAssumption DEF IInv, TypeOK, MainRecords, WorkerRecords, Versions
<1>i. ReadersAreInside /\ FetchedIsMember /\ WorkerHolds /\ MainHolds
      /\ SeenIsKnown
  BY DEF IInv
<1>s. s \in (Members \cap handlers) \ late =>
        seen[s] = manifest \/ ToBeHanded(s)
  BY DEF IInv, NoManifestLost
<1>1. ASSUME UNCHANGED <<manifest, subscriptions, worker, main, delivery>>
      PROVE  Goal
  BY <1>s, <1>1 DEF ToBeHanded, Unreached, Members, delivery
<1>2. ASSUME UNCHANGED <<manifest, subscriptions, worker, delivery>>,
             main.pc \notin MainReading
      PROVE  Goal
  BY <1>s, <1>2 DEF ToBeHanded, Unreached, Members, delivery
<1>3. ASSUME NEW r \in Subscriptions, SetHandlers(r)
      PROVE  Goal
  <2>1. s \in (Members \cap handlers) \ late /\ r # s
    BY <1>3 DEF SetHandlers, Members
  <2>2. QED
    BY <1>t, <1>s, <1>3, <2>1
       DEF SetHandlers, ToBeHanded, Unreached, Members
<1>4. CASE AddLocked
  <2>1. main.sub \in Subscriptions
    BY <1>i, <1>4 DEF AddLocked, MainHolds
  <2>2. Members' = Members \cup {main.sub}
    BY <1>t, <1>4, <2>1, AppendEntry DEF AddLocked, Members
  <2>3. /\ Len(subscriptions') = Len(subscriptions) + 1
        /\ \A i \in 1 .. Len(subscriptions) :
             subscriptions'[i] = subscriptions[i]
    BY <1>t, <1>4, <2>1 DEF AddLocked
  <2>4. Unreached(s) => Unreached(s)'
    BY <1>t, <1>4, <2>3 DEF AddLocked, Unreached, WorkerRecords
  <2>5. CASE s = main.sub
    <3>1. CASE manifest = NoManifest
      BY <1>t, <1>i, <1>4, <2>1, <2>5, <3>1
         DEF AddLocked, SeenIsKnown, NoManifest
    <3>2. CASE manifest # NoManifest
      BY <1>t, <1>4, <2>5, <3>2
         DEF AddLocked, AfterAdd, ToBeHanded, MainReading, MainRecords
    <3>3. QED
      BY <3>1, <3>2
  <2>6. CASE s # main.sub
    <3>1. s \in (Members \cap handlers) \ late
      BY <1>4, <2>2, <2>6 DEF AddLocked
    <3>2. main.pc \notin MainReading
      BY <1>4 DEF AddLocked, MainReading
    <3>3. QED
      BY <1>s, <1>4, <2>4, <3>1, <3>2 DEF AddLocked, ToBeHanded
  <2>7. QED
    BY <2>5, <2>6
<1>5. CASE AddReaderLock
  <2>1. /\ main'.pc = "recheck" /\ main'.sub = main.sub
        /\ main'.held = main.held
        /\ UNCHANGED <<manifest, subscriptions, worker, delivery>>
    BY <1>t, <1>5 DEF AddReaderLock, MainRecords
  <2>2. QED
    BY <1>s, <2>1 DEF ToBeHanded, Unreached, Members, MainReading, delivery
<1>6. CASE AddRecheck
  <2>1. Unreached(s)' = Unreached(s) /\ Members' = Members
        /\ UNCHANGED <<manifest, handlers>>
    BY <1>6 DEF AddRecheck, Unreached, Members
  <2>2. CASE s = main.sub /\ manifest = main.held
    BY <1>t, <1>6, <2>1, <2>2 DEF AddRecheck, HandManifest, StillCurrent
  <2>3. CASE ~(s = main.sub /\ manifest = main.held)
    <3>1. s \notin late /\ seen'[s] = seen[s]
      BY <1>t, <1>6, <2>3 DEF AddRecheck, HandManifest, StillCurrent
    <3>2. QED
      BY <1>s, <2>1, <2>3, <3>1 DEF ToBeHanded
  <2>4. QED
    BY <2>2, <2>3
<1>7. CASE RemoveLocked
  <2>1. main.sub \in Subscriptions
    BY <1>i, <1>7 DEF RemoveLocked, MainHolds
  <2>2. Members' \subseteq Members
    BY <1>t, <1>7, <2>1, RemoveFastEntry DEF RemoveLocked, Members
  <2>3. worker.pc \notin {"m_walk", "m_hand"} /\ UNCHANGED worker
        /\ main.pc \notin MainReading
    BY <1>i, <1>7 DEF RemoveLocked, RemoveSection, WriterSection, ReadersAreInside, MainReading
  <2>4. Unreached(s)' = Unreached(s)
    BY <2>3 DEF Unreached
  <2>5. /\ s \in (Members \cap handlers) \ late
        /\ seen'[s] = seen[s]
        /\ UNCHANGED manifest
    BY <1>t, <1>7, <2>1, <2>2 DEF RemoveLocked
  <2>6. QED
    BY <1>s, <2>3, <2>4, <2>5 DEF ToBeHanded
<1>8. CASE PublishLocked
  BY <1>t, <1>8 DEF PublishLocked, ToBeHanded, Unreached, WorkerRecords
<1>9. CASE WorkerReaderLock
  <2>1. /\ worker.pc = "m_lock" => worker'.pc = "m_walk"
        /\ worker'.i = 1
        /\ worker.pc \notin {"m_walk", "m_hand"}
        /\ UNCHANGED <<manifest, subscriptions, main, delivery>>
    BY <1>t, <1>i, <1>9
       DEF WorkerReaderLock, WorkerHolds, WorkerRecords, delivery
  <2>2. s \in Members /\ Members' = Members
    BY <2>1 DEF Members
  <2>3. \E i \in 1 .. Len(subscriptions) : subscriptions[i] = s
    BY <1>t, <2>2, MemberEntries
  <2>4. Unreached(s) => Unreached(s)'
    BY <2>1, <2>3 DEF Unreached
  <2>5. QED
    BY <1>s, <2>1, <2>2, <2>4 DEF ToBeHanded, delivery
<1>10. CASE FetchEntry
  <2>1. /\ worker.pc = "m_walk" => worker'.pc = "m_hand"
        /\ worker.pc \in {"m_walk", "s_walk"}
        /\ worker'.i = worker.i
        /\ UNCHANGED <<manifest, subscriptions, main, delivery>>
    BY <1>t, <1>10 DEF FetchEntry, WorkerRecords, delivery
  <2>2. QED
    BY <1>s, <2>1 DEF ToBeHanded, Unreached, Members, delivery
<1>11. CASE HandToEntry
  <2>1. /\ worker.pc = "m_hand" => worker'.pc = "m_walk"
        /\ worker.pc \in {"m_hand", "s_hand"}
        /\ worker'.i = worker.i + 1
        /\ UNCHANGED <<manifest, subscriptions, main, handlers>>
    BY <1>t, <1>11 DEF HandToEntry, WorkerRecords
  <2>2. /\ worker.i \in 1 .. Len(subscriptions)
        /\ subscriptions[worker.i] = worker.sub
    BY <1>t, <1>i, <2>1 DEF FetchedIsMember, WorkerRecords
  <2>3. s \in Members \cap handlers
    BY <2>1 DEF Members
  <2>4. CASE worker.pc = "m_hand" /\ worker.sub = s
    BY <1>t, <1>i, <1>11, <2>1, <2>3, <2>4
       DEF HandToEntry, HandManifest, WorkerHolds
  <2>5. CASE ~(worker.pc = "m_hand" /\ worker.sub = s)
    <3>1. s \notin late /\ seen'[s] = seen[s]
      BY <1>t, <1>11, <2>5 DEF HandToEntry, HandManifest
    <3>2. ASSUME Unreached(s)
          PROVE  Unreached(s)'
      <4>1. worker.pc = "m_hand" /\ worker.sub # s
        BY <2>1, <2>5, <3>2 DEF Unreached
      <4>2. PICK i \in worker.i .. Len(subscriptions) : subscriptions[i] = s
        BY <2>1, <3>2 DEF Unreached
      <4>3. i \in worker.i + 1 .. Len(subscriptions)
        BY <1>t, <2>2, <4>1, <4>2
      <4>4. QED
        BY <2>1, <4>1, <4>2, <4>3 DEF Unreached
    <3>3. QED
      BY <1>s, <2>1, <2>3, <3>1, <3>2 DEF ToBeHanded
  <2>6. QED
    BY <2>4, <2>5
<1>12. CASE EndWalk
  <2>1. ~Unreached(s)
    BY <1>t, <1>12 DEF EndWalk, Unreached, WorkerRecords
  <2>2. QED
    BY <1>s, <1>12, <2>1 DEF EndWalk, delivery, Members, ToBeHanded
<1>13. CASE DeliverManifest \/ DeliverSample
  <2>1. ~Unreached(s)
    BY <1>13 DEF DeliverManifest, DeliverSample, Unreached
  <2>2. QED
    BY <1>s, <1>13, <2>1
       DEF DeliverManifest, DeliverSample, delivery, Members, ToBeHanded
<1>14. QED
  BY <1>1, <1>2, <1>3, <1>4, <1>5, <1>6, <1>7, <1>8, <1>9, <1>10, <1>11,
     <1>12, <1>13
     DEF Next, MainStep, WorkerStep, AddSubscription, RemoveSubscription,
         Notify, NotifyUnlocked, EmitEvent, NotifyStartedLocked,
         NotifyStoppedLocked, vars, delivery, MainReading

-----------------------------------------------------------------------------
LEMMA NextInv == IInv /\ [Next]_vars => IInv'
<1>1. IInv => TypeOK /\ MainHolds
  BY DEF IInv
<1>2. QED
  BY <1>1, TypeInv, ReadersInv, FetchedInv, WorkerInv, MainInv, SeenInv,
     LostInv DEF IInv

(***************************************************************************)
(* The locking of pka-source.c keeps its invariant: what each thread holds *)
(* agrees with the source, whatever the order of their steps.              *)
(***************************************************************************)
THEOREM SourceInvariant == Spec => []IInv
  BY InitInv, NextInv, PTL DEF Spec

(***************************************************************************)
(* The source's variables keep their types.                                *)
(***************************************************************************)
THEOREM SourceTypes == Spec => []TypeOK
<1>1. IInv => TypeOK
  BY DEF IInv
<1>2. QED
  BY <1>1, SourceInvariant, PTL

(***************************************************************************)
(* Once pka_source_remove_subscription has returned, the sampling thread   *)
(* hands nothing to the entry it removed.                                  *)
(***************************************************************************)
THEOREM NoDeliveryAfterRemove == Spec => []FetchedIsMember
<1>1. IInv => FetchedIsMember
  BY DEF IInv
<1>2. QED
  BY <1>1, SourceInvariant, PTL

(***************************************************************************)
(* No handler is given a sample encoded with a manifest other than the     *)
(* last one it was given: a handler is behind only while the sampling      *)
(* thread is still delivering the manifest, and it delivers no sample then.*)
(***************************************************************************)
THEOREM SamplesMatchManifest == Spec => []NeverWrongManifest
<1>1. IInv => NeverWrongManifest
  <2> SUFFICES ASSUME IInv, worker.pc = "s_hand", worker.sub \in handlers
               PROVE  seen[worker.sub] \in {NoManifest, manifest}
    BY DEF NeverWrongManifest
  <2>1. ~Unreached(worker.sub)
    BY DEF Unreached
  <2>2. worker.sub \in Subscriptions
    BY DEF IInv, TypeOK
  <2>3. QED
    BY <2>1, <2>2 DEF IInv, SeenIsKnown
<1>2. QED
  BY <1>1, SourceInvariant, PTL

(***************************************************************************)
(* A subscription whose handler was set before it joined has the current   *)
(* manifest, or one of the two threads will still hand it over.            *)
(***************************************************************************)
THEOREM ManifestIsHandedOver == Spec => []NoManifestLost
<1>1. IInv => NoManifestLost
  BY DEF IInv
<1>2. QED
  BY <1>1, SourceInvariant, PTL

(***************************************************************************)
(* No step replaces what a handler has seen by an older manifest.          *)
(***************************************************************************)
THEOREM ManifestsStayInOrder == Spec => ManifestsInOrder
<1>1. ASSUME IInv, [Next]_vars
      PROVE  [\A s \in Subscriptions :
                seen'[s] # NoManifest => seen'[s] >= seen[s]]_vars
  <2> SUFFICES ASSUME NEW s \in Subscriptions, seen'[s] # NoManifest
               PROVE  seen'[s] >= seen[s]
    OBVIOUS
  <2>1. seen \in [Subscriptions -> Nat] /\ manifest \in Nat
        /\ seen[s] <= manifest
    BY <1>1, SourceAssumption DEF IInv, TypeOK, SeenIsKnown, Versions
  <2>2. seen'[s] = seen[s] \/ seen'[s] = NoManifest \/ seen'[s] = manifest
    <3>1. CASE AddRecheck
      BY <2>1, <3>1 DEF AddRecheck, HandManifest, StillCurrent
    <3>2. CASE HandToEntry
      BY <1>1, <2>1, <3>2 DEF HandToEntry, HandManifest, IInv, WorkerHolds
    <3>3. CASE RemoveLocked
      BY <2>1, <3>3 DEF RemoveLocked
    <3>4. ASSUME NEW r \in Subscriptions, SetHandlers(r)
          PROVE  seen'[s] = seen[s] \/ seen'[s] = NoManifest
      BY <2>1, <3>4 DEF SetHandlers
    <3>5. CASE UNCHANGED seen
      BY <3>5
    <3>6. QED
      BY <1>1, <3>1, <3>2, <3>3, <3>4, <3>5
         DEF Next, MainStep, WorkerStep, AddSubscription, RemoveSubscription,
             Notify, NotifyUnlocked, EmitEvent, AddLocked, AddReaderLock,
             NotifyStartedLocked, NotifyStoppedLocked, DeliverManifest,
             DeliverSample, PublishLocked, WorkerReaderLock, FetchEntry,
             EndWalk, vars, delivery
  <2>3. QED
    BY <2>1, <2>2
<1>2. QED
  BY <1>1, SourceInvariant, PTL DEF Spec, ManifestsInOrder
=============================================================================
