--------------------------- MODULE PkDeliveryProofs ---------------------------
(***************************************************************************)
(* Proofs about PkDelivery, for any subscriptions and sources, any number  *)
(* of manifests and of replaced handlers, and queues of any length: what   *)
(* arrives finds its handler, a sample is decoded with the manifest it was *)
(* encoded with, and by a handler that has been called with that one.      *)
(***************************************************************************)
EXTENDS PkDelivery, SequenceTheorems, TLAPS

-----------------------------------------------------------------------------
(* What is on its way, read in its order.                                  *)

IsManifest(m, s, x) ==
  m.member = "SendManifest" /\ m.sub = s /\ m.source = x
IsSample(m, s, x) ==
  m.member = "SendSample" /\ m.sub = s /\ m.source = x

\* A manifest v of source x for s is among the messages of q from j to n.
HasManifest(q, j, n, s, x, v) ==
  \E k \in j .. n : IsManifest(q[k], s, x) /\ q[k].version = v

\* Whoever has manifest cur and is given the first n messages of q has v, or
\* none.
Reads(q, n, cur, s, x, v) ==
  /\ \A j \in 1 .. n :
       IsManifest(q[j], s, x) =>
         q[j].version = v \/ HasManifest(q, j + 1, n, s, x, v)
  /\ cur \in {0, v} \/ HasManifest(q, 1, n, s, x, v)

LEMMA ReadsBefore ==
  ASSUME NEW q \in Seq(Messages), NEW m \in Messages, NEW n \in 0 .. Len(q),
         NEW cur, NEW s, NEW x, NEW v, Reads(q, n, cur, s, x, v)
  PROVE  Reads(Append(q, m), n, cur, s, x, v)
<1>1. \A j \in 1 .. n : Append(q, m)[j] = q[j]
  BY AppendProperties, LenProperties
<1>2. \A j \in Nat \ {0} : HasManifest(q, j, n, s, x, v)
                            => HasManifest(Append(q, m), j, n, s, x, v)
  BY <1>1, LenProperties DEF HasManifest
<1>3. n \in Nat
  BY LenProperties
<1> QED
  BY <1>1, <1>2, <1>3 DEF Reads

LEMMA ReadsAppended ==
  ASSUME NEW q \in Seq(Messages), NEW m \in Messages,
         NEW cur, NEW s, NEW x, NEW v,
         IF IsManifest(m, s, x) THEN m.version = v
         ELSE Reads(q, Len(q), cur, s, x, v)
  PROVE  Reads(Append(q, m), Len(q) + 1, cur, s, x, v)
<1> DEFINE n == Len(q)
           p == Append(q, m)
<1>1. /\ n \in Nat
      /\ \A j \in 1 .. n : p[j] = q[j]
      /\ p[n + 1] = m
  BY AppendProperties, LenProperties
<1>2. IF IsManifest(m, s, x) THEN m.version = v ELSE Reads(q, n, cur, s, x, v)
  OBVIOUS
<1> HIDE DEF n, p
<1>3. \A j \in 1 .. n + 1 : j = n + 1 \/ (j \in 1 .. n /\ j + 1 \in 1 .. n + 1)
  BY <1>1
<1>4. 1 \in 1 .. n + 1 /\ n + 1 \in 1 .. n + 1
  BY <1>1
<1>5. CASE IsManifest(m, s, x)
  <2>1. \A j \in 1 .. n + 1 : HasManifest(p, j, n + 1, s, x, v)
    BY <1>1, <1>2, <1>5 DEF HasManifest
  <2>2. Reads(p, n + 1, cur, s, x, v)
    BY <1>1, <1>2, <1>3, <1>4, <1>5, <2>1 DEF Reads
  <2> QED
    BY <2>2 DEF n, p
<1>6. CASE ~IsManifest(m, s, x)
  <2>1. \A j \in Nat \ {0} : HasManifest(q, j, n, s, x, v)
                              => HasManifest(p, j, n + 1, s, x, v)
    BY <1>1 DEF HasManifest
  <2>2. Reads(p, n + 1, cur, s, x, v)
    <3>1. ASSUME NEW j \in 1 .. n + 1, IsManifest(p[j], s, x)
          PROVE  p[j].version = v \/ HasManifest(p, j + 1, n + 1, s, x, v)
      <4>1. j \in 1 .. n /\ p[j] = q[j]
        BY <1>1, <1>3, <1>6, <3>1
      <4>2. q[j].version = v \/ HasManifest(q, j + 1, n, s, x, v)
        BY <1>2, <1>6, <3>1, <4>1 DEF Reads
      <4>3. j + 1 \in Nat \ {0}
        BY <4>1
      <4> QED
        BY <2>1, <4>1, <4>2, <4>3
    <3>2. cur \in {0, v} \/ HasManifest(p, 1, n + 1, s, x, v)
      BY <1>2, <1>6, <2>1 DEF Reads
    <3> QED
      BY <3>1, <3>2 DEF Reads
  <2> QED
    BY <2>2 DEF n, p
<1> QED
  BY <1>5, <1>6

LEMMA ReadsTail ==
  ASSUME NEW q \in Seq(Messages), q # <<>>, NEW n \in 1 .. Len(q),
         NEW cur, NEW s, NEW x, NEW v, Reads(q, n, cur, s, x, v)
  PROVE  Reads(Tail(q), n - 1,
               IF IsManifest(Head(q), s, x) THEN Head(q).version ELSE cur,
               s, x, v)
<1>1. /\ Len(q) \in Nat \ {0} /\ n \in Nat \ {0} /\ n <= Len(q)
      /\ \A i \in 1 .. n - 1 : Tail(q)[i] = q[i + 1]
      /\ Head(q) = q[1]
  BY HeadTailProperties, EmptySeq, LenProperties
<1>2. ASSUME NEW j \in Nat \ {0, 1}, HasManifest(q, j, n, s, x, v)
      PROVE  HasManifest(Tail(q), j - 1, n - 1, s, x, v)
  <2>1. PICK k \in j .. n : IsManifest(q[k], s, x) /\ q[k].version = v
    BY <1>2 DEF HasManifest
  <2>2. k - 1 \in j - 1 .. n - 1 /\ k - 1 \in 1 .. n - 1 /\ (k - 1) + 1 = k
    BY <1>1
  <2>3. Tail(q)[k - 1] = q[k]
    BY <1>1, <2>2
  <2> QED
    BY <2>1, <2>2, <2>3 DEF HasManifest
<1>3. ASSUME NEW i \in 1 .. n - 1, IsManifest(Tail(q)[i], s, x)
      PROVE  \/ Tail(q)[i].version = v
             \/ HasManifest(Tail(q), i + 1, n - 1, s, x, v)
  <2>1. i + 1 \in 1 .. n /\ i \in Nat \ {0} /\ Tail(q)[i] = q[i + 1]
    BY <1>1
  <2>2. q[i + 1].version = v \/ HasManifest(q, (i + 1) + 1, n, s, x, v)
    BY <2>1, <1>3 DEF Reads
  <2>3. (i + 1) + 1 \in Nat \ {0, 1} /\ ((i + 1) + 1) - 1 = i + 1
    BY <2>1
  <2> QED
    BY <1>2, <2>1, <2>2, <2>3
<1>4. CASE IsManifest(Head(q), s, x)
  <2>1. q[1].version = v \/ HasManifest(q, 2, n, s, x, v)
    BY <1>1, <1>4 DEF Reads
  <2>2. q[1].version = v \/ HasManifest(Tail(q), 1, n - 1, s, x, v)
    BY <1>2, <2>1
  <2> QED
    BY <1>1, <1>3, <1>4, <2>2 DEF Reads
<1>5. CASE ~IsManifest(Head(q), s, x)
  <2>1. HasManifest(q, 1, n, s, x, v) => HasManifest(q, 2, n, s, x, v)
    <3>1. \A k \in 1 .. n : k = 1 \/ k \in 2 .. n
      BY <1>1
    <3> QED
      BY <1>1, <1>5, <3>1 DEF HasManifest
  <2>2. cur \in {0, v} \/ HasManifest(Tail(q), 1, n - 1, s, x, v)
    BY <1>2, <2>1 DEF Reads
  <2> QED
    BY <1>1, <1>3, <1>5, <2>2 DEF Reads
<1> QED
  BY <1>4, <1>5

LEMMA ReadsFromNone ==
  ASSUME NEW q, NEW n, NEW cur, NEW s, NEW x, NEW v, Reads(q, n, cur, s, x, v)
  PROVE  Reads(q, n, 0, s, x, v)
  BY DEF Reads

-----------------------------------------------------------------------------
(* The invariant.                                                          *)

BusMessages == {SetDeliveryPath} \cup {SetHandler(s) : s \in Subscription}
LoopStates ==
  {Idle}
  \cup [pc : {"keep", "tell", "manifest"}, message : Messages, handler : Nat]
  \cup [pc : {"sample"}, message : Messages, manifest : Version]
WalkStates ==
  {Idle}
  \cup [pc : {"walk"}, member : {"SendManifest", "SendSample"},
        source : Source, version : Version, left : SUBSET Subscription]
  \cup [pc : {"dispatch"}, member : {"SendManifest", "SendSample"},
        source : Source, version : Version, left : SUBSET Subscription,
        sub : Subscription, handler : Nat]

Types ==
  /\ client \in BOOLEAN
  /\ handlers \in [Subscription -> Nat] /\ table \in [Subscription -> Nat]
  /\ manifests \in [Subscription -> [Source -> Version]]
  /\ told \in [Subscription -> [Source -> Version]]
  /\ published \in [Source -> Version]
  /\ closures \subseteq Subscription
  /\ bus \in Seq(BusMessages) /\ wire \in Seq(Messages) /\ out \in Seq(Messages)
  /\ setter \in {NoCall} \cup [sub : Subscription, pc : {"inserting", "inserted"}]
  /\ loop \in LoopStates /\ walk \in WalkStates

\* What the agent has not written yet comes after what it has.
Queue == wire \o out

\* The agent has heard of a subscription's handler only after the client has
\* put it into its table and registered its path.
Known(s) == s \in paths /\ handlers[s] > 0

HandlersAreKnown ==
  /\ ~client => paths = {}
  /\ app # NoCall => app.sub \in Subscription /\ handlers[app.sub] > 0
  /\ \A i \in 1 .. Len(bus) : bus[i].member = "SetHandler" => Known(bus[i].sub)
  /\ setter # NoCall => setter.sub \in Subscription /\ Known(setter.sub)
  /\ \A s \in closures : Known(s)

\* Nothing is sent to a subscription whose handler the agent has not set.
SentWhenSet ==
  /\ walk.pc = "dispatch" => walk.sub \in closures
  /\ \A i \in 1 .. Len(Queue) : Queue[i].sub \in closures
  /\ loop.pc \in {"keep", "tell"} => loop.message.sub \in closures
  /\ \A s \in Subscription \ closures : manifests[s] = NoVersions

\* The manifest that the client has, or is about to keep.
Current(s, x) ==
  IF loop.pc = "keep" /\ loop.message.sub = s /\ loop.message.source = x
  THEN loop.message.version ELSE manifests[s][x]

\* The sampling thread has yet to come to s with the manifest of x.
Owed(s, x) ==
  /\ walk.pc \in {"walk", "dispatch"}
  /\ walk.member = "SendManifest" /\ walk.source = x
  /\ s \in walk.left \/ (walk.pc = "dispatch" /\ walk.sub = s)

\* A sample on its way finds its manifest with the client, or before it; and
\* so would the next one.
ManifestsGoBefore ==
  \A s \in Subscription, x \in Source :
    <<s, x>> \notin missed =>
      /\ \A i \in 1 .. Len(Queue) :
           IsSample(Queue[i], s, x) =>
             Reads(Queue, i, Current(s, x), s, x, Queue[i].version)
      /\ ~Owed(s, x) =>
           Reads(Queue, Len(Queue), Current(s, x), s, x, published[x])

WalksWithLast ==
  walk.pc \in {"walk", "dispatch"} => walk.version = published[walk.source]

\* The program has been told of what the client keeps, or is about to be.
KeptIsTold ==
  /\ \A s \in Subscription, x \in Source :
       \/ manifests[s][x] = told[s][x]
       \/ /\ loop.pc = "tell"
          /\ loop.message.sub = s /\ loop.message.source = x
          /\ handlers[s] = loop.handler
  /\ loop.pc = "tell" /\ ~Replaced =>
       manifests[loop.message.sub][loop.message.source] = loop.message.version
  /\ loop.pc \in {"keep", "tell"} => loop.handler <= handlers[loop.message.sub]

DeliveryInv ==
  /\ Types
  /\ HandlersAreKnown
  /\ SentWhenSet
  /\ ManifestsGoBefore
  /\ WalksWithLast
  /\ KeptIsTold
  /\ ToldBeforeSampled
  /\ DecodedWithItsManifest

LEMMA InitInv == DeliveryInit => DeliveryInv
<1> SUFFICES ASSUME DeliveryInit PROVE DeliveryInv
  OBVIOUS
<1> USE DEF DeliveryInit, Init, AgentInit
<1>1. 0 \in Version /\ NoVersions \in [Source -> Version]
  BY HandlersAssumption DEF Version, NoVersions
<1>2. wire = <<>> /\ out = <<>> /\ bus = <<>> /\ Queue = <<>> /\ Len(Queue) = 0
  BY EmptySeq, ConcatEmptySeq DEF Queue
<1>3. /\ loop = Idle /\ walk = Idle
      /\ loop.pc = "idle" /\ walk.pc = "idle" /\ app = NoCall /\ setter = NoCall
  BY DEF Idle
<1>4. Types
  BY <1>1, <1>2, <1>3, EmptySeq DEF Types, LoopStates, WalkStates
<1>5. HandlersAreKnown /\ SentWhenSet /\ WalksWithLast
  BY <1>2, <1>3 DEF HandlersAreKnown, SentWhenSet, WalksWithLast
<1>6. ManifestsGoBefore
  <2>1. \A s \in Subscription, x \in Source :
          Reads(Queue, Len(Queue), Current(s, x), s, x, published[x])
    BY <1>2, <1>3 DEF Reads, Current, NoVersions
  <2> QED
    BY <1>2, <2>1 DEF ManifestsGoBefore
<1>7. KeptIsTold /\ ToldBeforeSampled /\ DecodedWithItsManifest
  BY <1>3 DEF KeptIsTold, ToldBeforeSampled, DecodedWithItsManifest
<1> QED
  BY <1>4, <1>5, <1>6, <1>7 DEF DeliveryInv

-----------------------------------------------------------------------------
(* Types.                                                                  *)

LEMMA LoopFields ==
  ASSUME Types
  PROVE  /\ loop.pc \in {"idle", "keep", "tell", "manifest", "sample"}
         /\ loop.pc \in {"keep", "tell", "manifest"} =>
              loop \in [pc : {"keep", "tell", "manifest"}, message : Messages,
                       handler : Nat]
         /\ loop.pc = "sample" =>
              loop \in [pc : {"sample"}, message : Messages, manifest : Version]
  BY DEF Types, LoopStates, Idle

LEMMA WalkFields ==
  ASSUME Types
  PROVE  /\ walk.pc \in {"idle", "walk", "dispatch"}
         /\ walk.pc = "idle" => walk = Idle
         /\ walk.pc \in {"walk", "dispatch"} =>
              /\ walk.member \in {"SendManifest", "SendSample"}
              /\ walk.source \in Source /\ walk.version \in Version
              /\ walk.left \subseteq Subscription
         /\ walk.pc = "dispatch" =>
              walk.sub \in Subscription /\ walk.handler \in Nat
  BY DEF Types, WalkStates, Idle

LEMMA WireHead ==
  ASSUME Types, wire # <<>>
  PROVE  /\ Head(wire) \in Messages /\ Tail(wire) \in Seq(Messages)
         /\ Queue \in Seq(Messages) /\ Queue # <<>>
         /\ Head(Queue) = Head(wire) /\ Tail(Queue) = Tail(wire) \o out
<1>1. wire \in Seq(Messages) /\ out \in Seq(Messages)
  BY DEF Types
<1>2. /\ Head(wire) \in Messages /\ Tail(wire) \in Seq(Messages)
      /\ Len(Tail(wire)) = Len(wire) - 1
      /\ \A i \in 1 .. Len(Tail(wire)) : Tail(wire)[i] = wire[i + 1]
  BY <1>1, HeadTailProperties
<1>3. /\ Queue \in Seq(Messages)
      /\ Len(Queue) = Len(wire) + Len(out)
      /\ \A i \in 1 .. Len(wire) + Len(out) :
           Queue[i] = IF i <= Len(wire) THEN wire[i] ELSE out[i - Len(wire)]
  BY <1>1, ConcatProperties DEF Queue
<1>4. Len(wire) \in Nat \ {0} /\ Len(out) \in Nat
  BY <1>1, EmptySeq, LenProperties
<1>5. Queue # <<>> /\ Head(Queue) = Head(wire)
  <2>1. Queue # <<>>
    BY <1>3, <1>4, EmptySeq
  <2>2. Head(Queue) = Queue[1] /\ Head(wire) = wire[1]
    OBVIOUS
  <2> QED
    BY <2>1, <2>2, <1>3, <1>4
<1>6. Tail(Queue) = Tail(wire) \o out
  <2> DEFINE l == Tail(Queue)
             r == Tail(wire) \o out
  <2>1. /\ l \in Seq(Messages) /\ Len(l) = Len(Queue) - 1
        /\ \A i \in 1 .. Len(l) : l[i] = Queue[i + 1]
    BY <1>3, <1>5, HeadTailProperties
  <2>2. /\ r \in Seq(Messages) /\ Len(r) = Len(Tail(wire)) + Len(out)
        /\ \A i \in 1 .. Len(Tail(wire)) + Len(out) :
             r[i] = IF i <= Len(Tail(wire)) THEN Tail(wire)[i]
                    ELSE out[i - Len(Tail(wire))]
    BY <1>1, <1>2, ConcatProperties
  <2> HIDE DEF l, r
  <2>3. Len(l) = Len(r)
    BY <1>2, <1>3, <1>4, <2>1, <2>2
  <2>4. ASSUME NEW i \in 1 .. Len(l) PROVE l[i] = r[i]
    <3>1. /\ i \in Nat \ {0} /\ i <= Len(wire) + Len(out) - 1
          /\ l[i] = Queue[i + 1] /\ i + 1 \in 1 .. Len(wire) + Len(out)
          /\ i \in 1 .. Len(Tail(wire)) + Len(out)
      BY <1>2, <1>3, <1>4, <2>1
    <3>2. CASE i <= Len(wire) - 1
      <4>1. i \in 1 .. Len(Tail(wire)) /\ i + 1 <= Len(wire)
        BY <1>2, <1>4, <3>1, <3>2
      <4>2. r[i] = Tail(wire)[i] /\ Tail(wire)[i] = wire[i + 1]
        BY <1>2, <2>2, <3>1, <4>1
      <4> QED
        BY <1>3, <3>1, <4>1, <4>2
    <3>3. CASE ~(i <= Len(wire) - 1)
      <4>1. ~(i + 1 <= Len(wire)) /\ ~(i <= Len(Tail(wire)))
            /\ (i + 1) - Len(wire) = i - Len(Tail(wire))
        BY <1>2, <1>4, <3>1, <3>3
      <4>2. r[i] = out[i - Len(Tail(wire))]
        BY <2>2, <3>1, <4>1
      <4>3. Queue[i + 1] = out[(i + 1) - Len(wire)]
        BY <1>3, <3>1, <4>1
      <4> QED
        BY <3>1, <4>1, <4>2, <4>3
    <3> QED
      BY <3>2, <3>3
  <2>5. l = r
    BY <2>1, <2>2, <2>3, <2>4, SeqEqual
  <2> QED
    BY <2>5 DEF l, r
<1> QED
  BY <1>2, <1>3, <1>5, <1>6

LEMMA MessageSent ==
  ASSUME Types, walk.pc = "dispatch", NEW n \in 0 .. Len(out) + 1,
         SendTo(walk.sub, n)
  PROVE  /\ Message(walk.sub) \in Messages
         /\ wire' \in Seq(Messages) /\ out' \in Seq(Messages)
         /\ Queue' = Append(Queue, Message(walk.sub))
<1> DEFINE m == Message(walk.sub)
           q == Append(out, m)
           a == SubSeq(q, 1, n)
           b == SubSeq(q, n + 1, Len(q))
<1>1. m \in Messages
  BY WalkFields DEF Message, Messages
<1>2. wire \in Seq(Messages) /\ out \in Seq(Messages)
  BY DEF Types
<1>3. wire' = wire \o a /\ out' = b
  BY DEF SendTo
<1> HIDE DEF m
<1>4. /\ q \in Seq(Messages) /\ Len(q) = Len(out) + 1 /\ q = out \o <<m>>
  BY <1>1, <1>2, AppendProperties, AppendIsConcat
<1> HIDE DEF q
<1>5. Len(out) \in Nat /\ Len(q) \in Nat /\ n \in Nat /\ n <= Len(q)
      /\ \A i \in 1 .. Len(q) : q[i] \in Messages
  BY <1>2, <1>4, LenProperties, ElementOfSeq
<1>6. a \in Seq(Messages) /\ b \in Seq(Messages)
  <2>1. \A i \in 1 .. n : q[i] \in Messages
    BY <1>5
  <2>2. \A i \in n + 1 .. Len(q) : q[i] \in Messages
    BY <1>5
  <2> QED
    BY <1>5, <2>1, <2>2, SubSeqProperties
<1>7. a \o b = q
  <2>1. 1 \in 1 .. Len(q) + 1 /\ n \in 1 - 1 .. Len(q) /\ Len(q) \in n .. Len(q)
    BY <1>5
  <2>2. a \o b = SubSeq(q, 1, Len(q))
    BY <1>4, <2>1, ConcatAdjacentSubSeq
  <2> QED
    BY <1>4, <2>2, SubSeqFull
<1> HIDE DEF a, b
<1>8. wire' \in Seq(Messages) /\ out' \in Seq(Messages)
  BY <1>2, <1>3, <1>6, ConcatProperties
<1>9. Queue' = wire \o (out \o <<m>>)
  <2>1. Queue' = (wire \o a) \o b
    BY <1>3 DEF Queue
  <2>2. \A u, v, w \in Seq(Messages) : (u \o v) \o w = u \o (v \o w)
    BY ConcatAssociative
  <2> QED
    <3>1. (wire \o a) \o b = wire \o (a \o b)
      BY <2>2, <1>2, <1>6, Zenon
    <3>2. a \o b = out \o <<m>>
      BY <1>4, <1>7, Zenon
    <3> QED
      BY <2>1, <3>1, <3>2, Zenon
<1>10. wire \o (out \o <<m>>) = Append(Queue, m)
  <2>1. <<m>> \in Seq(Messages)
    BY <1>1
  <2>2. wire \o (out \o <<m>>) = Queue \o <<m>>
    BY <1>2, <2>1, ConcatAssociative DEF Queue
  <2>3. Queue \in Seq(Messages)
    BY <1>2, ConcatProperties DEF Queue
  <2> QED
    BY <1>1, <2>2, <2>3, AppendIsConcat
<1> QED
  BY <1>1, <1>8, <1>9, <1>10 DEF m

LEMMA RemainingTypes ==
  ASSUME Types, walk.pc \in {"walk", "dispatch"}, NEW left \in SUBSET Subscription
  PROVE  /\ Remaining(left) \in WalkStates
         /\ left = {} => Remaining(left) = Idle
         /\ left # {} => Remaining(left) = [pc |-> "walk", member |-> walk.member,
              source |-> walk.source, version |-> walk.version, left |-> left]
  BY WalkFields DEF Remaining, WalkStates

LEMMA WithVersion ==
  ASSUME NEW f \in [Subscription -> [Source -> Version]],
         NEW s \in Subscription, NEW x \in Source, NEW v \in Version
  PROVE  /\ [f EXCEPT ![s][x] = v] \in [Subscription -> [Source -> Version]]
         /\ [f EXCEPT ![s][x] = v][s][x] = v
         /\ \A t \in Subscription, y \in Source :
              t # s \/ y # x => [f EXCEPT ![s][x] = v][t][y] = f[t][y]
  OBVIOUS

LEMMA NextTypes ==
  ASSUME Types, HandlersAreKnown, Next
  PROVE  Types'
<1> USE DEF clientVars, linkVars, historyVars, agentVars, workerVars, LoopVars
<1>1. Version = 0 .. MaxVersion /\ MaxVersion \in Nat
  BY HandlersAssumption DEF Version
<1>2. /\ wire \in Seq(Messages) /\ out \in Seq(Messages)
      /\ bus \in Seq(BusMessages)
      /\ manifests \in [Subscription -> [Source -> Version]]
      /\ told \in [Subscription -> [Source -> Version]]
      /\ published \in [Source -> Version]
  BY DEF Types
<1>3. NoVersions \in [Source -> Version]
  BY <1>1 DEF NoVersions
<1>4. CASE pk_connection_dbus_connect_finish /\ UNCHANGED <<agentVars, workerVars>>
  <2>1. SetDeliveryPath \in BusMessages
    BY DEF BusMessages
  <2>2. bus' \in Seq(BusMessages)
    <3>1. Append(bus, SetDeliveryPath) \in Seq(BusMessages)
      BY <1>2, <2>1, AppendProperties
    <3> QED
      BY <1>2, <1>4, <3>1 DEF pk_connection_dbus_connect_finish
  <2> QED
    BY <1>4, <2>2 DEF pk_connection_dbus_connect_finish, Types
<1>5. ASSUME NEW s \in Subscription, set_handlers_async(s),
             UNCHANGED <<agentVars, workerVars>>
      PROVE  Types'
  BY <1>2, <1>3, <1>5 DEF set_handlers_async, NewTree, Types
<1>6. CASE AnnounceHandler /\ UNCHANGED <<agentVars, workerVars>>
  <2>1. app.sub \in Subscription
    BY <1>6 DEF AnnounceHandler, HandlersAreKnown
  <2>2. SetHandler(app.sub) \in BusMessages
    BY <2>1 DEF BusMessages
  <2>3. bus' \in Seq(BusMessages)
    <3>1. Append(bus, SetHandler(app.sub)) \in Seq(BusMessages)
      BY <1>2, <2>2, AppendProperties
    <3> QED
      BY <1>2, <1>6, <3>1 DEF AnnounceHandler
  <2> QED
    BY <1>6, <2>3 DEF AnnounceHandler, Types
<1>7. CASE pk_connection_dbus_handle_connection /\ UNCHANGED <<agentVars, workerVars>>
  BY <1>7 DEF pk_connection_dbus_handle_connection, Types
<1>8. CASE RejectMessage /\ UNCHANGED <<agentVars, workerVars>>
  BY <1>8, WireHead DEF RejectMessage, Receive, Types
<1>9. CASE /\ \/ pk_connection_dbus_dispatch_manifest
              \/ pk_connection_dbus_dispatch_sample
           /\ UNCHANGED <<agentVars, workerVars>>
  <2>1. wire # <<>> /\ wire' = Tail(wire)
    BY <1>9 DEF pk_connection_dbus_dispatch_manifest,
         pk_connection_dbus_dispatch_sample, Receive
  <2>2. Head(wire) \in Messages /\ wire' \in Seq(Messages)
    BY <2>1, WireHead
  <2>3. /\ Head(wire).sub \in Subscription /\ Head(wire).source \in Source
    BY <2>2 DEF Messages
  <2>4. /\ handlers[Head(wire).sub] \in Nat
        /\ manifests[Head(wire).sub][Head(wire).source] \in Version
    BY <2>3 DEF Types
  <2>5. loop' \in LoopStates
    BY <1>9, <2>2, <2>4 DEF pk_connection_dbus_dispatch_manifest,
         pk_connection_dbus_dispatch_sample, LoopStates
  <2> QED
    BY <1>9, <2>2, <2>5 DEF pk_connection_dbus_dispatch_manifest,
         pk_connection_dbus_dispatch_sample, Receive, Types
<1>10. CASE (KeepManifest \/ TellManifest) /\ UNCHANGED <<agentVars, workerVars>>
  <2>1. loop \in [pc : {"keep", "tell", "manifest"}, message : Messages,
                 handler : Nat]
    BY <1>10, LoopFields DEF KeepManifest, TellManifest
  <2>2. loop.message \in Messages
    BY <2>1
  <2>3. /\ loop.message.sub \in Subscription /\ loop.message.source \in Source
        /\ loop.message.version \in Version
    BY <2>2 DEF Messages
  <2>4. loop' \in LoopStates
    BY <1>10, <2>1 DEF KeepManifest, TellManifest, AfterKeeping, LoopStates
  <2>5. /\ manifests' \in [Subscription -> [Source -> Version]]
        /\ told' \in [Subscription -> [Source -> Version]]
    <3>1. CASE KeepManifest
      BY <1>2, <2>3, <3>1, WithVersion DEF KeepManifest, KeptVersion, historyVars
    <3>2. CASE TellManifest
      BY <1>2, <2>3, <3>2, WithVersion DEF TellManifest
    <3> QED
      BY <1>10, <3>1, <3>2
  <2> QED
    BY <1>10, <2>4, <2>5 DEF KeepManifest, TellManifest, Types
<1>11. CASE (UseFreedHandler \/ CallbackReturns) /\ UNCHANGED <<agentVars, workerVars>>
  BY <1>11 DEF UseFreedHandler, CallbackReturns, Types, LoopStates
<1>12. CASE \/ pka_listener_dbus_set_delivery_path
            \/ RefuseHandler
            \/ InsertHandler
  <2>1. bus # <<>> /\ bus' = Tail(bus)
    BY <1>12 DEF pka_listener_dbus_set_delivery_path, RefuseHandler,
         InsertHandler, Serve
  <2>2. Head(bus) \in BusMessages /\ bus' \in Seq(BusMessages)
    BY <1>2, <2>1, HeadTailProperties
  <2>3. CASE pka_listener_dbus_set_delivery_path \/ RefuseHandler
    BY <2>2, <2>3 DEF pka_listener_dbus_set_delivery_path, RefuseHandler, Serve, Types
  <2>4. CASE InsertHandler
    <3>1. Head(bus).sub \in Subscription
      BY <2>2, <2>4 DEF InsertHandler, Serve, BusMessages, SetHandler,
           SetDeliveryPath
    <3>2. /\ table' \in [Subscription -> Nat]
          /\ setter' \in [sub : Subscription, pc : {"inserting", "inserted"}]
      BY <2>4, <3>1 DEF InsertHandler, Types
    <3> QED
      BY <2>2, <2>4, <3>2 DEF InsertHandler, Serve, Types
  <2> QED
    BY <1>12, <2>3, <2>4
<1>13. CASE HandlerInserted \/ pka_subscription_set_handlers
  <2>1. setter' \in {NoCall} \cup [sub : Subscription, pc : {"inserting", "inserted"}]
    BY <1>13 DEF HandlerInserted, pka_subscription_set_handlers, Types
  <2> QED
    BY <1>13, <2>1 DEF HandlerInserted, pka_subscription_set_handlers, HandlersAreKnown,
       Types
<1>14. ASSUME NEW x \in Source, PublishManifest(x) \/ TakeSample(x)
       PROVE  Types'
  <2>1. published' \in [Source -> Version]
    <3>1. CASE PublishManifest(x)
      <4>1. published[x] + 1 \in Version
        BY <1>1, <1>2, <3>1 DEF PublishManifest
      <4> QED
        BY <1>2, <3>1, <4>1 DEF PublishManifest
    <3>2. CASE TakeSample(x)
      BY <1>2, <3>2 DEF TakeSample
    <3> QED
      BY <1>14, <3>1, <3>2
  <2>2. walk' \in WalkStates
    BY <1>2, <1>14, <2>1 DEF PublishManifest, TakeSample, Deliver, WalkStates
  <2> QED
    BY <1>14, <2>1, <2>2
       DEF PublishManifest, TakeSample, Deliver, workerUnchanged, Types
<1>15. ASSUME NEW s \in Subscription, SkipUnhandled(s) \/ WarnNoHandler(s)
       PROVE  Types'
  <2>1. walk.pc = "walk" /\ walk' = Remaining(walk.left \ {s})
    BY <1>15 DEF SkipUnhandled, WarnNoHandler, LeavesOut
  <2>2. walk' \in WalkStates
    BY <2>1, WalkFields, RemainingTypes
  <2> QED
    BY <1>15, <2>2
       DEF SkipUnhandled, WarnNoHandler, LeavesOut, workerUnchanged, Types
<1>16. ASSUME NEW s \in Subscription, pka_listener_dbus_dispatch(s)
       PROVE  Types'
  <2>1. table[s] \in Nat
    BY DEF Types
  <2>2. walk' \in WalkStates
    BY <1>16, <2>1, WalkFields DEF pka_listener_dbus_dispatch, WalkStates
  <2> QED
    BY <1>16, <2>2 DEF pka_listener_dbus_dispatch, workerUnchanged, Types
<1>17. ASSUME NEW n \in 0 .. Len(out) + 1, SendMessage(n)
       PROVE  Types'
  <2>1. wire' \in Seq(Messages) /\ out' \in Seq(Messages)
    BY <1>17, MessageSent DEF SendMessage
  <2>2. walk' \in WalkStates
    BY <1>17, WalkFields, RemainingTypes DEF SendMessage
  <2> QED
    BY <1>17, <2>1, <2>2 DEF SendMessage, workerUnchanged, Types
<1>18. CASE SendWithFreedHandler \/ UNCHANGED vars
  BY <1>18 DEF SendWithFreedHandler, workerUnchanged, vars, Types
<1> QED
  BY <1>4, <1>5, <1>6, <1>7, <1>8, <1>9, <1>10, <1>11, <1>12, <1>13, <1>14,
     <1>15, <1>16, <1>17, <1>18
     DEF Next, Client, Application, Loop, AgentMain, Dispatch, Sources

-----------------------------------------------------------------------------
(* What the agent knows of.                                                *)

\* What neither deliveries nor the sampling thread change.
LEMMA KnownUnchanged ==
  ASSUME HandlersAreKnown,
         UNCHANGED <<client, paths, app, handlers, bus, setter, closures>>
  PROVE  HandlersAreKnown'
  BY DEF HandlersAreKnown, Known

LEMMA BusHead ==
  ASSUME Types, HandlersAreKnown, bus # <<>>, bus' = Tail(bus)
  PROVE  /\ Head(bus).member = "SetHandler" =>
              Head(bus).sub \in Subscription /\ Known(Head(bus).sub)
         /\ \A i \in 1 .. Len(bus') :
              bus'[i].member = "SetHandler" => Known(bus'[i].sub)
<1>1. bus \in Seq(BusMessages) /\ Len(bus) \in Nat \ {0}
  BY LenProperties, EmptySeq DEF Types
<1>2. /\ Head(bus) = bus[1] /\ Len(bus') = Len(bus) - 1
      /\ \A i \in 1 .. Len(bus') : bus'[i] = bus[i + 1]
  BY <1>1, HeadTailProperties
<1>3. \A i \in 1 .. Len(bus) : bus[i].member = "SetHandler" => Known(bus[i].sub)
  BY DEF HandlersAreKnown
<1>4. 1 \in 1 .. Len(bus) /\ \A i \in 1 .. Len(bus') : i + 1 \in 1 .. Len(bus)
  BY <1>1, <1>2
<1>5. bus[1] \in BusMessages
  BY <1>1, <1>4, ElementOfSeq
<1>6. bus[1].member = "SetHandler" => bus[1].sub \in Subscription
  BY <1>5 DEF BusMessages, SetHandler, SetDeliveryPath
<1> QED
  BY <1>2, <1>3, <1>4, <1>6

LEMMA ApplicationKnown ==
  ASSUME Types, HandlersAreKnown, Application, UNCHANGED <<agentVars, workerVars>>
  PROVE  HandlersAreKnown'
<1> USE DEF agentVars, workerVars, linkVars, historyVars
<1>1. bus \in Seq(BusMessages) /\ Len(bus) \in Nat
  BY LenProperties DEF Types
<1>2. \A i \in 1 .. Len(bus) : bus[i] \in BusMessages
  BY <1>1, ElementOfSeq
<1>3. \A i \in 1 .. Len(bus) :
        bus[i].member = "SetHandler" => bus[i].sub \in Subscription
  BY <1>2 DEF BusMessages, SetHandler, SetDeliveryPath
<1>4. CASE pk_connection_dbus_connect_finish
  <2>1. /\ UNCHANGED <<client, paths, app, handlers, setter, closures>>
        /\ bus' = bus \/ bus' = Append(bus, SetDeliveryPath)
    BY <1>4 DEF pk_connection_dbus_connect_finish
  <2>2. SetDeliveryPath \in BusMessages /\ SetDeliveryPath.member # "SetHandler"
    BY DEF SetDeliveryPath, BusMessages
  <2>3. \A i \in 1 .. Len(bus') : bus'[i].member = "SetHandler" => Known(bus'[i].sub)
    <3>1. CASE bus' = bus
      BY <3>1 DEF HandlersAreKnown
    <3>2. CASE bus' = Append(bus, SetDeliveryPath)
      <4>1. /\ Len(bus') = Len(bus) + 1 /\ bus'[Len(bus) + 1] = SetDeliveryPath
            /\ \A i \in 1 .. Len(bus) : bus'[i] = bus[i]
        BY <1>1, <2>2, <3>2, AppendProperties
      <4>2. \A i \in 1 .. Len(bus) + 1 : i \in 1 .. Len(bus) \/ i = Len(bus) + 1
        BY <1>1
      <4> QED
        BY <2>2, <4>1, <4>2 DEF HandlersAreKnown
    <3> QED
      BY <2>1, <3>1, <3>2
  <2> QED
    BY <2>1, <2>3 DEF HandlersAreKnown, Known
<1>5. ASSUME NEW s \in Subscription, set_handlers_async(s)
      PROVE  HandlersAreKnown'
  <2>1. /\ UNCHANGED <<client, paths, bus, setter, closures>>
        /\ app' = [sub |-> s]
        /\ handlers' = [handlers EXCEPT ![s] = handlers[s] + 1]
        /\ handlers \in [Subscription -> Nat] /\ closures \subseteq Subscription
    BY <1>5 DEF set_handlers_async, Types
  <2>2. handlers'[s] > 0 /\ \A t \in Subscription : handlers[t] > 0 => handlers'[t] > 0
    BY <2>1
  <2>3. \A t \in Subscription : Known(t) => t \in paths /\ handlers'[t] > 0
    BY <2>2 DEF Known
  <2> QED
    BY <1>3, <2>1, <2>2, <2>3 DEF HandlersAreKnown, Known
<1>6. CASE AnnounceHandler
  <2> DEFINE m == SetHandler(app.sub)
  <2>1. /\ UNCHANGED <<client, handlers, setter, closures>> /\ app' = NoCall
        /\ app.sub \in Subscription /\ handlers[app.sub] > 0
        /\ m \in BusMessages /\ m.sub = app.sub
    BY <1>6 DEF AnnounceHandler, HandlersAreKnown, BusMessages, SetHandler
  <2>2. CASE ~client
    <3>1. UNCHANGED <<paths, bus>>
      BY <1>6, <2>2 DEF AnnounceHandler
    <3> QED
      BY <2>1, <3>1 DEF HandlersAreKnown, Known
  <2>3. CASE client
    <3>1. paths' = paths \cup {app.sub} /\ bus' = Append(bus, m)
      BY <1>6, <2>3 DEF AnnounceHandler, Registered
    <3> HIDE DEF m
    <3>2. /\ Len(bus') = Len(bus) + 1 /\ bus'[Len(bus) + 1] = m
          /\ \A i \in 1 .. Len(bus) : bus'[i] = bus[i]
      BY <1>1, <2>1, <3>1, AppendProperties
    <3>3. \A i \in 1 .. Len(bus) + 1 : i \in 1 .. Len(bus) \/ i = Len(bus) + 1
      BY <1>1
    <3> QED
      BY <2>1, <2>3, <3>1, <3>2, <3>3 DEF HandlersAreKnown, Known
  <2> QED
    BY <2>2, <2>3
<1> QED
  BY <1>4, <1>5, <1>6 DEF Application

LEMMA NextKnown ==
  ASSUME Types, HandlersAreKnown, Next
  PROVE  HandlersAreKnown'
<1> USE DEF clientVars, linkVars, historyVars, agentVars, workerVars, LoopVars
<1>1. CASE Application /\ UNCHANGED <<agentVars, workerVars>>
  BY <1>1, ApplicationKnown
<1>2. CASE pk_connection_dbus_handle_connection /\ UNCHANGED <<agentVars, workerVars>>
  <2>1. paths = {} /\ closures \subseteq Subscription
    BY <1>2 DEF pk_connection_dbus_handle_connection, HandlersAreKnown, Types
  <2> QED
    BY <1>2, <2>1 DEF pk_connection_dbus_handle_connection, HandlersAreKnown, Known
<1>3. CASE /\ \/ RejectMessage \/ pk_connection_dbus_dispatch_manifest
              \/ pk_connection_dbus_dispatch_sample
           /\ UNCHANGED <<agentVars, workerVars>>
  BY <1>3, KnownUnchanged DEF RejectMessage, pk_connection_dbus_dispatch_manifest,
     pk_connection_dbus_dispatch_sample, Receive
<1>4. CASE /\ KeepManifest \/ TellManifest \/ UseFreedHandler \/ CallbackReturns
           /\ UNCHANGED <<agentVars, workerVars>>
  BY <1>4, KnownUnchanged DEF KeepManifest, TellManifest, UseFreedHandler,
     CallbackReturns
<1>5. CASE \/ pka_listener_dbus_set_delivery_path
           \/ RefuseHandler
           \/ InsertHandler
  <2>1. /\ UNCHANGED <<client, paths, app, handlers, closures>>
        /\ bus # <<>> /\ bus' = Tail(bus)
        /\ \/ setter' = setter
           \/ Head(bus).member = "SetHandler" /\ setter'.sub = Head(bus).sub
    BY <1>5 DEF pka_listener_dbus_set_delivery_path, RefuseHandler,
       InsertHandler, Serve
  <2> QED
    BY <2>1, BusHead DEF HandlersAreKnown, Known
<1>6. CASE HandlerInserted \/ pka_subscription_set_handlers
  <2>1. /\ UNCHANGED <<client, paths, app, handlers, bus>>
        /\ setter # NoCall
        /\ setter' = NoCall \/ setter' = [setter EXCEPT !.pc = "inserted"]
        /\ closures' \subseteq closures \cup {setter.sub}
    BY <1>6 DEF HandlerInserted, pka_subscription_set_handlers
  <2>2. setter' # NoCall => setter'.sub = setter.sub
    BY <2>1 DEF Types
  <2> QED
    BY <2>1, <2>2 DEF HandlersAreKnown, Known
<1>7. CASE Dispatch \/ Sources
  BY <1>7, KnownUnchanged DEF Dispatch, Sources, PublishManifest, TakeSample,
     Deliver, SkipUnhandled, WarnNoHandler, LeavesOut, pka_listener_dbus_dispatch,
     SendMessage, SendWithFreedHandler, workerUnchanged
<1>8. CASE UNCHANGED vars
  BY <1>8, KnownUnchanged DEF vars
<1> QED
  BY <1>1, <1>2, <1>3, <1>4, <1>5, <1>6, <1>7, <1>8
     DEF Next, Client, Loop, AgentMain

-----------------------------------------------------------------------------
(* What a step does to what is on its way: nothing, it takes the first     *)
(* message, or it adds one.                                                *)

LEMMA QueueIs ==
  ASSUME Types
  PROVE  Queue \in Seq(Messages) /\ Len(Queue) \in Nat
  BY ConcatProperties, LenProperties DEF Types, Queue

LEMMA SameQueue ==
  ASSUME ManifestsGoBefore, Queue' = Queue, missed \subseteq missed',
         \A s \in Subscription, x \in Source :
           <<s, x>> \notin missed' =>
             /\ Current(s, x)' \in {0, Current(s, x)}
             /\ \/ Owed(s, x)'
                \/ /\ published'[x] = published[x]
                   /\ \/ ~Owed(s, x)
                      \/ Reads(Queue, Len(Queue), Current(s, x), s, x, published[x])
  PROVE  ManifestsGoBefore'
<1> SUFFICES ASSUME NEW s \in Subscription, NEW x \in Source,
                    <<s, x>> \notin missed'
             PROVE  /\ \A i \in 1 .. Len(Queue) :
                         IsSample(Queue[i], s, x) =>
                           Reads(Queue, i, Current(s, x)', s, x, Queue[i].version)
                    /\ ~Owed(s, x)' =>
                         Reads(Queue, Len(Queue), Current(s, x)', s, x, published'[x])
  BY DEF ManifestsGoBefore
<1>1. <<s, x>> \notin missed
  OBVIOUS
<1>2. /\ \A i \in 1 .. Len(Queue) :
           IsSample(Queue[i], s, x) =>
             Reads(Queue, i, Current(s, x), s, x, Queue[i].version)
      /\ ~Owed(s, x) =>
           Reads(Queue, Len(Queue), Current(s, x), s, x, published[x])
  BY <1>1 DEF ManifestsGoBefore
<1>3. Current(s, x)' = 0 \/ Current(s, x)' = Current(s, x)
  OBVIOUS
<1>4. ASSUME NEW i, NEW v, Reads(Queue, i, Current(s, x), s, x, v)
      PROVE  Reads(Queue, i, Current(s, x)', s, x, v)
  BY <1>3, <1>4, ReadsFromNone
<1> QED
  BY <1>2, <1>4

LEMMA FirstTaken ==
  ASSUME Types, ManifestsGoBefore, wire # <<>>, wire' = Tail(wire), out' = out,
         missed \subseteq missed', walk' = walk, published' = published,
         \A s \in Subscription, x \in Source :
           <<s, x>> \notin missed' =>
             Current(s, x)' = IF IsManifest(Head(wire), s, x)
                              THEN Head(wire).version ELSE Current(s, x)
  PROVE  ManifestsGoBefore'
<1>1. /\ Queue \in Seq(Messages) /\ Queue # <<>> /\ Head(Queue) = Head(wire)
      /\ Queue' = Tail(Queue)
  BY WireHead DEF Queue
<1>2. /\ Len(Queue) \in Nat \ {0} /\ Len(Tail(Queue)) = Len(Queue) - 1
      /\ \A i \in 1 .. Len(Tail(Queue)) : Tail(Queue)[i] = Queue[i + 1]
  BY <1>1, HeadTailProperties, EmptySeq, LenProperties
<1> SUFFICES ASSUME NEW s \in Subscription, NEW x \in Source,
                    <<s, x>> \notin missed'
             PROVE  LET q == Tail(Queue) IN
                    /\ \A i \in 1 .. Len(q) :
                         IsSample(q[i], s, x) =>
                           Reads(q, i, Current(s, x)', s, x, q[i].version)
                    /\ ~Owed(s, x) =>
                         Reads(q, Len(q), Current(s, x)', s, x, published[x])
  BY <1>1 DEF ManifestsGoBefore, Owed
<1>3. <<s, x>> \notin missed
  OBVIOUS
<1>4. Current(s, x)' = IF IsManifest(Head(Queue), s, x)
                       THEN Head(Queue).version ELSE Current(s, x)
  BY <1>1
<1>5. ASSUME NEW n \in 1 .. Len(Queue), NEW v,
             Reads(Queue, n, Current(s, x), s, x, v)
      PROVE  Reads(Tail(Queue), n - 1, Current(s, x)', s, x, v)
  BY <1>1, <1>4, <1>5, ReadsTail
<1>6. ASSUME NEW i \in 1 .. Len(Tail(Queue)), IsSample(Tail(Queue)[i], s, x)
      PROVE  Reads(Tail(Queue), i, Current(s, x)', s, x, Tail(Queue)[i].version)
  <2>1. i + 1 \in 1 .. Len(Queue) /\ (i + 1) - 1 = i /\ Tail(Queue)[i] = Queue[i + 1]
    BY <1>2
  <2>2. Reads(Queue, i + 1, Current(s, x), s, x, Queue[i + 1].version)
    BY <1>3, <1>6, <2>1 DEF ManifestsGoBefore
  <2>3. Reads(Tail(Queue), (i + 1) - 1, Current(s, x)', s, x, Queue[i + 1].version)
    BY <1>5, <2>1, <2>2
  <2> QED
    BY <2>1, <2>3
<1>7. ASSUME ~Owed(s, x)
      PROVE  Reads(Tail(Queue), Len(Tail(Queue)), Current(s, x)', s, x, published[x])
  <2>1. Reads(Queue, Len(Queue), Current(s, x), s, x, published[x])
    BY <1>3, <1>7 DEF ManifestsGoBefore
  <2>2. Len(Queue) \in 1 .. Len(Queue)
    BY <1>2
  <2> QED
    BY <1>2, <1>5, <2>1, <2>2
<1> QED
  BY <1>6, <1>7

LEMMA OneAdded ==
  ASSUME Types, ManifestsGoBefore, WalksWithLast, walk.pc = "dispatch",
         Message(walk.sub) \in Messages,
         Queue' = Append(Queue, Message(walk.sub)),
         walk' = Remaining(walk.left),
         UNCHANGED <<loop, manifests, published, missed>>
  PROVE  ManifestsGoBefore'
<1> DEFINE q == Queue
           n == Len(Queue)
           m == Message(walk.sub)
           p == Append(q, m)
<1>1. q \in Seq(Messages) /\ n \in Nat /\ n = Len(q) /\ m \in Messages
  BY QueueIs
<1>2. /\ m.sub = walk.sub /\ m.source = walk.source
      /\ m.member = walk.member /\ m.version = published[walk.source]
  BY DEF Message, WalksWithLast
<1>3. Queue' = p /\ \A s, x : Current(s, x)' = Current(s, x)
  BY DEF Current
<1> HIDE DEF q, n, m
<1>4. /\ Len(p) = n + 1 /\ p[n + 1] = m /\ \A i \in 1 .. n : p[i] = q[i]
  BY <1>1, AppendProperties
<1>5. \A i \in 1 .. n + 1 : i = n + 1 \/ (i \in 1 .. n /\ i \in 0 .. n)
  BY <1>1
<1> HIDE DEF p
<1> SUFFICES ASSUME NEW s \in Subscription, NEW x \in Source,
                    <<s, x>> \notin missed
             PROVE  /\ \A i \in 1 .. n + 1 :
                         IsSample(p[i], s, x) =>
                           Reads(p, i, Current(s, x), s, x, p[i].version)
                    /\ ~Owed(s, x)' =>
                         Reads(p, n + 1, Current(s, x), s, x, published[x])
  BY <1>3, <1>4 DEF ManifestsGoBefore
<1>6. /\ \A i \in 1 .. n :
           IsSample(q[i], s, x) => Reads(q, i, Current(s, x), s, x, q[i].version)
      /\ ~Owed(s, x) => Reads(q, n, Current(s, x), s, x, published[x])
  BY DEF ManifestsGoBefore, q, n
<1>7. ASSUME NEW i \in 1 .. n, IsSample(q[i], s, x)
      PROVE  Reads(p, i, Current(s, x), s, x, q[i].version)
  <2>1. i \in 0 .. Len(q)
    BY <1>1
  <2> QED
    BY <1>1, <1>6, <1>7, <2>1, ReadsBefore DEF p
<1>8. ASSUME IF IsManifest(m, s, x) THEN m.version = published[x]
             ELSE Reads(q, n, Current(s, x), s, x, published[x])
      PROVE  Reads(p, n + 1, Current(s, x), s, x, published[x])
  BY <1>1, <1>8, ReadsAppended DEF p
<1>9. CASE Owed(s, x) /\ ~Owed(s, x)'
  <2>1. walk.member = "SendManifest" /\ walk.source = x
    BY <1>9 DEF Owed
  <2>2. s \notin walk.left
    <3>1. ASSUME s \in walk.left PROVE Owed(s, x)'
      BY <2>1, <3>1 DEF Owed, Remaining
    <3> QED
      BY <1>9, <3>1
  <2>3. IsManifest(m, s, x) /\ m.version = published[x]
    BY <1>2, <1>9, <2>1, <2>2 DEF Owed, IsManifest
  <2>4. ~IsSample(m, s, x)
    BY <2>3 DEF IsManifest, IsSample
  <2> QED
    BY <1>4, <1>5, <1>7, <1>8, <2>3, <2>4
<1>10. CASE ~Owed(s, x)
  <2>1. ~IsManifest(m, s, x)
    BY <1>2, <1>10 DEF Owed, IsManifest
  <2>2. Reads(p, n + 1, Current(s, x), s, x, published[x])
    BY <1>6, <1>8, <1>10, <2>1
  <2>3. IsSample(m, s, x) => m.version = published[x]
    BY <1>2 DEF IsSample
  <2> QED
    BY <1>4, <1>5, <1>7, <2>2, <2>3
<1>11. CASE Owed(s, x) /\ Owed(s, x)'
  <2>1. ~IsSample(m, s, x)
    BY <1>2, <1>11 DEF Owed, IsSample
  <2> QED
    BY <1>4, <1>5, <1>7, <1>11, <2>1
<1> QED
  BY <1>9, <1>10, <1>11

-----------------------------------------------------------------------------
(* Nothing is sent before its time.                                        *)

\* What may be taken from the queue, or changed around it, without a loss.
LEMMA SentStill ==
  ASSUME Types, SentWhenSet, closures \subseteq closures', closures' \subseteq Subscription,
         walk'.pc = "dispatch" => walk'.sub \in closures,
         \/ Queue' = Queue
         \/ wire # <<>> /\ wire' = Tail(wire) /\ out' = out
         \/ \E m \in Messages : m.sub \in closures /\ Queue' = Append(Queue, m),
         loop'.pc \in {"keep", "tell"} => loop'.message.sub \in closures,
         \A s \in Subscription \ closures : manifests'[s] = NoVersions
  PROVE  SentWhenSet'
<1>1. Queue \in Seq(Messages) /\ Len(Queue) \in Nat
  BY QueueIs
<1>2. \A i \in 1 .. Len(Queue) : Queue[i].sub \in closures
  BY DEF SentWhenSet
<1>3. \A i \in 1 .. Len(Queue') : Queue'[i].sub \in closures
  <2>1. CASE Queue' = Queue
    BY <1>2, <2>1
  <2>2. CASE wire # <<>> /\ wire' = Tail(wire) /\ out' = out
    <3>1. Queue' = Tail(Queue) /\ Queue # <<>>
      BY <2>2, WireHead DEF Queue
    <3>2. /\ Len(Queue') = Len(Queue) - 1
          /\ \A i \in 1 .. Len(Queue') : Queue'[i] = Queue[i + 1]
      BY <1>1, <3>1, HeadTailProperties
    <3>3. \A i \in 1 .. Len(Queue') : i + 1 \in 1 .. Len(Queue)
      BY <1>1, <3>2
    <3> QED
      BY <1>2, <3>2, <3>3
  <2>3. ASSUME NEW m \in Messages, m.sub \in closures, Queue' = Append(Queue, m)
        PROVE  \A i \in 1 .. Len(Queue') : Queue'[i].sub \in closures
    <3>1. /\ Len(Queue') = Len(Queue) + 1 /\ Queue'[Len(Queue) + 1] = m
          /\ \A i \in 1 .. Len(Queue) : Queue'[i] = Queue[i]
      BY <1>1, <2>3, AppendProperties
    <3>2. \A i \in 1 .. Len(Queue) + 1 : i \in 1 .. Len(Queue) \/ i = Len(Queue) + 1
      BY <1>1
    <3> QED
      BY <1>2, <2>3, <3>1, <3>2
  <2> QED
    BY <2>1, <2>2, <2>3
<1> QED
  BY <1>3 DEF SentWhenSet

\* The head of the queue is for a subscription whose handler is known.
LEMMA HeadIsSet ==
  ASSUME Types, SentWhenSet, wire # <<>>
  PROVE  Head(wire).sub \in closures
<1>1. Queue \in Seq(Messages) /\ Queue # <<>> /\ Head(Queue) = Head(wire)
  BY WireHead
<1>2. 1 \in 1 .. Len(Queue) /\ Head(Queue) = Queue[1]
  BY <1>1, EmptySeq, LenProperties
<1> QED
  BY <1>1, <1>2 DEF SentWhenSet

LEMMA NextSent ==
  ASSUME Types, SentWhenSet, Next
  PROVE  SentWhenSet'
<1> USE DEF clientVars, linkVars, historyVars, agentVars, workerVars, LoopVars
<1>1. closures \subseteq Subscription
  BY DEF Types
<1>2. /\ walk.pc = "dispatch" => walk.sub \in closures
      /\ loop.pc \in {"keep", "tell"} => loop.message.sub \in closures
      /\ \A s \in Subscription \ closures : manifests[s] = NoVersions
  BY DEF SentWhenSet
<1>3. wire' = wire /\ out' = out => Queue' = Queue
  BY DEF Queue
<1>4. CASE Application /\ UNCHANGED <<agentVars, workerVars>>
  <2>1. UNCHANGED <<wire, out, closures, walk, loop>>
    BY <1>4 DEF Application, pk_connection_dbus_connect_finish,
       set_handlers_async, AnnounceHandler
  <2>2. ASSUME NEW s \in Subscription \ closures PROVE manifests'[s] = NoVersions
    <3>1. CASE manifests' = manifests
      BY <1>2, <3>1
    <3>2. ASSUME NEW t \in Subscription, set_handlers_async(t)
          PROVE  manifests'[s] = NoVersions
      BY <1>2, <3>2 DEF set_handlers_async, NewTree, Types
    <3> QED
      BY <1>4, <3>1, <3>2 DEF Application, pk_connection_dbus_connect_finish,
         AnnounceHandler
  <2> QED
    BY <1>1, <1>2, <1>3, <2>1, <2>2, SentStill
<1>5. CASE /\ \/ RejectMessage \/ pk_connection_dbus_dispatch_manifest
              \/ pk_connection_dbus_dispatch_sample
           /\ UNCHANGED <<agentVars, workerVars>>
  <2>1. /\ wire # <<>> /\ wire' = Tail(wire)
        /\ UNCHANGED <<out, closures, walk, manifests>>
        /\ \/ loop' = loop
           \/ loop'.pc = "sample"
           \/ loop'.pc = "keep" /\ loop'.message = Head(wire)
    BY <1>5 DEF RejectMessage, pk_connection_dbus_dispatch_manifest,
       pk_connection_dbus_dispatch_sample, Receive
  <2> QED
    BY <1>1, <1>2, <2>1, HeadIsSet, SentStill
<1>6. CASE /\ \/ pk_connection_dbus_handle_connection \/ UseFreedHandler
              \/ KeepManifest \/ TellManifest \/ CallbackReturns
           /\ UNCHANGED <<agentVars, workerVars>>
  <2>1. UNCHANGED <<wire, out, closures, walk>>
    BY <1>6 DEF pk_connection_dbus_handle_connection, KeepManifest, TellManifest,
       UseFreedHandler, CallbackReturns
  <2>2. loop'.pc \in {"keep", "tell"} => loop'.message.sub \in closures
    BY <1>2, <1>6, LoopFields DEF pk_connection_dbus_handle_connection,
       KeepManifest, AfterKeeping, TellManifest, UseFreedHandler, CallbackReturns, Idle
  <2>3. ASSUME NEW s \in Subscription \ closures PROVE manifests'[s] = NoVersions
    <3>1. CASE manifests' = manifests
      BY <1>2, <3>1
    <3>2. CASE KeepManifest
      <4>1. loop.message.sub # s
        BY <1>2, <3>2 DEF KeepManifest
      <4> QED
        BY <1>2, <3>2, <4>1 DEF KeepManifest, Types
    <3> QED
      BY <1>6, <3>1, <3>2 DEF pk_connection_dbus_handle_connection, TellManifest,
         UseFreedHandler, CallbackReturns
  <2> QED
    BY <1>1, <1>2, <1>3, <2>1, <2>2, <2>3, SentStill
<1>7. CASE AgentMain
  <2>1. /\ UNCHANGED <<wire, out, walk, loop, manifests>>
        /\ \/ closures' = closures
           \/ setter # NoCall /\ closures' = closures \cup {setter.sub}
    BY <1>7 DEF AgentMain, pka_listener_dbus_set_delivery_path, RefuseHandler,
       InsertHandler, Serve, HandlerInserted, pka_subscription_set_handlers
  <2>2. setter # NoCall => setter.sub \in Subscription
    BY DEF Types
  <2> QED
    BY <1>1, <1>2, <1>3, <2>1, <2>2, SentStill
<1>8. CASE Sources \/ \E s \in Subscription : SkipUnhandled(s) \/ WarnNoHandler(s)
  <2>1. UNCHANGED <<wire, out, closures, loop, manifests>>
    BY <1>8 DEF Sources, PublishManifest, TakeSample, Deliver, SkipUnhandled,
       WarnNoHandler, LeavesOut, workerUnchanged
  <2>2. walk'.pc # "dispatch"
    BY <1>8 DEF Sources, PublishManifest, TakeSample, Deliver, SkipUnhandled,
       WarnNoHandler, LeavesOut, Remaining, Idle
  <2> QED
    BY <1>1, <1>2, <1>3, <2>1, <2>2, SentStill
<1>9. ASSUME NEW s \in Subscription, pka_listener_dbus_dispatch(s)
      PROVE  SentWhenSet'
  <2>1. UNCHANGED <<wire, out, closures, loop, manifests>>
    BY <1>9 DEF pka_listener_dbus_dispatch, workerUnchanged
  <2>2. walk'.sub = s /\ s \in closures
    BY <1>9 DEF pka_listener_dbus_dispatch
  <2> QED
    BY <1>1, <1>2, <1>3, <2>1, <2>2, SentStill
<1>10. ASSUME NEW n \in 0 .. Len(out) + 1, SendMessage(n)
       PROVE  SentWhenSet'
  <2>1. UNCHANGED <<closures, loop, manifests>> /\ walk.sub \in closures
    BY <1>2, <1>10 DEF SendMessage, workerUnchanged
  <2>2. walk'.pc # "dispatch"
    BY <1>10 DEF SendMessage, Remaining, Idle
  <2>3. Message(walk.sub) \in Messages /\ Queue' = Append(Queue, Message(walk.sub))
    BY <1>10, MessageSent DEF SendMessage
  <2>4. Message(walk.sub).sub = walk.sub
    BY DEF Message
  <2> QED
    BY <1>1, <1>2, <2>1, <2>2, <2>3, <2>4, SentStill
<1>11. CASE SendWithFreedHandler \/ UNCHANGED vars
  <2>1. UNCHANGED <<wire, out, closures, walk, loop, manifests>>
    BY <1>11 DEF SendWithFreedHandler, workerUnchanged, vars
  <2> QED
    BY <1>1, <1>2, <1>3, <2>1, SentStill
<1> QED
  BY <1>4, <1>5, <1>6, <1>7, <1>8, <1>9, <1>10, <1>11
     DEF Next, Client, Loop, Dispatch

-----------------------------------------------------------------------------
(* Manifests go before.                                                    *)

\* Steps that touch neither the queue nor what is owed nor what is kept.
LEMMA QueueUntouched ==
  ASSUME ManifestsGoBefore, UNCHANGED <<wire, out, walk, published>>,
         missed \subseteq missed',
         \A s \in Subscription, x \in Source :
           Current(s, x)' \in {0, Current(s, x)}
  PROVE  ManifestsGoBefore'
<1>1. Queue' = Queue
  BY DEF Queue
<1>2. ASSUME NEW s \in Subscription, NEW x \in Source
      PROVE  Owed(s, x)' \/ (published'[x] = published[x] /\ ~Owed(s, x))
  BY DEF Owed
<1> QED
  BY <1>1, <1>2, SameQueue

LEMMA ApplicationQueue ==
  ASSUME Types, ManifestsGoBefore, Application, UNCHANGED <<agentVars, workerVars>>
  PROVE  ManifestsGoBefore'
<1> USE DEF agentVars, workerVars, linkVars, historyVars
<1>1. UNCHANGED <<wire, out, walk, published, missed, loop>>
  BY DEF Application, pk_connection_dbus_connect_finish, set_handlers_async,
     AnnounceHandler
<1>2. ASSUME NEW s \in Subscription, NEW x \in Source
      PROVE  manifests'[s][x] \in {0, manifests[s][x]}
  <2>1. CASE manifests' = manifests
    BY <2>1
  <2>2. ASSUME NEW t \in Subscription, set_handlers_async(t)
        PROVE  manifests'[s][x] \in {0, manifests[s][x]}
    <3>1. /\ manifests' = [manifests EXCEPT ![t] = NoVersions]
          /\ manifests \in [Subscription -> [Source -> Version]]
      BY <2>2 DEF set_handlers_async, NewTree, Types
    <3>2. manifests'[s] = IF s = t THEN NoVersions ELSE manifests[s]
      BY <3>1
    <3> QED
      BY <3>2 DEF NoVersions
  <2> QED
    BY <2>1, <2>2 DEF Application, pk_connection_dbus_connect_finish,
       AnnounceHandler
<1>3. \A s \in Subscription, x \in Source : Current(s, x)' \in {0, Current(s, x)}
  BY <1>1, <1>2 DEF Current
<1> QED
  BY <1>1, <1>3, QueueUntouched

LEMMA LoopQueue ==
  ASSUME Types, ManifestsGoBefore, Loop, UNCHANGED <<agentVars, workerVars>>
  PROVE  ManifestsGoBefore'
<1> USE DEF agentVars, workerVars, linkVars, historyVars, LoopVars, clientVars
<1>1. CASE \/ pk_connection_dbus_handle_connection
           \/ TellManifest
           \/ UseFreedHandler
           \/ CallbackReturns
  <2>1. UNCHANGED <<wire, out, walk, published, missed, manifests>>
    BY <1>1 DEF pk_connection_dbus_handle_connection, TellManifest,
       UseFreedHandler, CallbackReturns
  <2>2. loop' = loop \/ (loop.pc # "keep" /\ loop'.pc # "keep")
    BY <1>1, LoopFields DEF pk_connection_dbus_handle_connection, TellManifest,
       UseFreedHandler, CallbackReturns, Idle
  <2>3. \A s \in Subscription, x \in Source : Current(s, x)' = Current(s, x)
    BY <2>1, <2>2 DEF Current
  <2> QED
    BY <2>1, <2>3, QueueUntouched
<1>2. CASE KeepManifest
  <2> DEFINE m == loop.message
  <2>1. UNCHANGED <<wire, out, walk, published, missed>>
    BY <1>2 DEF KeepManifest
  <2>2. /\ m.sub \in Subscription /\ m.source \in Source /\ m.version \in Version
        /\ loop'.pc = "tell"
    BY <1>2, LoopFields DEF KeepManifest, AfterKeeping, Messages
  <2>3. /\ manifests \in [Subscription -> [Source -> Version]]
        /\ manifests' = [manifests EXCEPT ![m.sub][m.source] = m.version]
    BY <1>2 DEF KeepManifest, KeptVersion, Types
  <2>4. loop.pc = "keep"
    BY <1>2 DEF KeepManifest
  <2> HIDE DEF m
  <2>5. /\ manifests'[m.sub][m.source] = m.version
        /\ \A s \in Subscription, x \in Source :
             s # m.sub \/ x # m.source => manifests'[s][x] = manifests[s][x]
    BY <2>2, <2>3, WithVersion
  <2>6. \A s \in Subscription, x \in Source : Current(s, x)' = Current(s, x)
    BY <2>2, <2>4, <2>5 DEF Current, m
  <2> QED
    BY <2>1, <2>6, QueueUntouched
<1>3. CASE \/ RejectMessage
           \/ pk_connection_dbus_dispatch_manifest
           \/ pk_connection_dbus_dispatch_sample
  <2>1. /\ wire # <<>> /\ wire' = Tail(wire)
        /\ UNCHANGED <<out, walk, published, manifests>>
        /\ missed \subseteq missed' /\ loop.pc = "idle"
    BY <1>3 DEF RejectMessage, pk_connection_dbus_dispatch_manifest,
       pk_connection_dbus_dispatch_sample, Receive, Idle
  <2>2. Head(wire) \in Messages
    BY <2>1, WireHead
  <2>3. ASSUME NEW s \in Subscription, NEW x \in Source, <<s, x>> \notin missed'
        PROVE  Current(s, x)' = IF IsManifest(Head(wire), s, x)
                                THEN Head(wire).version ELSE Current(s, x)
    <3>1. CASE RejectMessage
      <4>1. ~IsManifest(Head(wire), s, x)
        BY <2>3, <3>1 DEF RejectMessage, Lost, IsManifest
      <4>2. loop' = loop
        BY <3>1 DEF RejectMessage
      <4> QED
        BY <2>1, <4>1, <4>2 DEF Current
    <3>2. CASE pk_connection_dbus_dispatch_manifest
      <4>1. /\ Head(wire).member = "SendManifest"
            /\ loop'.pc = "keep" /\ loop'.message = Head(wire)
        BY <3>2 DEF pk_connection_dbus_dispatch_manifest, Receive
      <4> QED
        BY <2>1, <4>1 DEF Current, IsManifest
    <3>3. CASE pk_connection_dbus_dispatch_sample
      <4>1. Head(wire).member = "SendSample" /\ loop'.pc = "sample"
        BY <3>3 DEF pk_connection_dbus_dispatch_sample, Receive
      <4> QED
        BY <2>1, <4>1 DEF Current, IsManifest
    <3> QED
      BY <1>3, <3>1, <3>2, <3>3
  <2> QED
    BY <2>1, <2>3, FirstTaken
<1> QED
  BY <1>1, <1>2, <1>3 DEF Loop

LEMMA WorkerQueue ==
  ASSUME Types, SentWhenSet, ManifestsGoBefore, WalksWithLast, Sources \/ Dispatch
  PROVE  ManifestsGoBefore'
<1> USE DEF agentVars, clientVars
<1>1. published \in [Source -> Version]
  BY DEF Types
<1>2. wire' = wire /\ out' = out => Queue' = Queue
  BY DEF Queue
<1>3. loop' = loop /\ manifests' = manifests =>
        \A s \in Subscription, x \in Source : Current(s, x)' = Current(s, x)
  BY DEF Current
<1>4. ASSUME NEW x \in Source, PublishManifest(x)
      PROVE  ManifestsGoBefore'
  <2>1. /\ UNCHANGED <<wire, out, missed, loop, manifests>>
        /\ \A y \in Source : y # x => published'[y] = published[y]
        /\ walk.pc = "idle"
        /\ walk'.pc = "walk" /\ walk'.member = "SendManifest"
        /\ walk'.source = x /\ walk'.left = Subscription
    BY <1>1, <1>4 DEF PublishManifest, Deliver, workerUnchanged, Idle
  <2>2. \A s \in Subscription, y \in Source :
          Owed(s, y)' \/ (published'[y] = published[y] /\ ~Owed(s, y))
    BY <2>1 DEF Owed
  <2> QED
    BY <1>2, <1>3, <2>1, <2>2, SameQueue
<1>5. ASSUME NEW x \in Source, TakeSample(x)
      PROVE  ManifestsGoBefore'
  <2>1. /\ UNCHANGED <<wire, out, missed, loop, manifests, published>>
        /\ walk.pc = "idle"
    BY <1>5 DEF TakeSample, Deliver, workerUnchanged, Idle
  <2>2. \A s \in Subscription, y \in Source : ~Owed(s, y)
    BY <2>1 DEF Owed
  <2> QED
    BY <1>2, <1>3, <2>1, <2>2, SameQueue
<1>6. ASSUME NEW s \in Subscription, SkipUnhandled(s)
      PROVE  ManifestsGoBefore'
  <2>1. /\ UNCHANGED <<wire, out, missed, loop, manifests, published>>
        /\ walk.pc = "walk" /\ walk' = Remaining(walk.left \ {s})
        /\ s \notin closures
    BY <1>6 DEF SkipUnhandled, workerUnchanged
  <2>2. \A t \in Subscription, y \in Source :
          Owed(t, y) /\ t # s => Owed(t, y)'
    BY <2>1 DEF Owed, Remaining
  <2>3. ASSUME NEW y \in Source
        PROVE  Reads(Queue, Len(Queue), Current(s, y), s, y, published[y])
    <3>1. \A i \in 1 .. Len(Queue) : Queue[i].sub # s
      BY <2>1 DEF SentWhenSet
    <3>2. Current(s, y) = 0
      BY <2>1 DEF SentWhenSet, Current, NoVersions
    <3> QED
      BY <3>1, <3>2 DEF Reads, IsManifest
  <2>4. ASSUME NEW t \in Subscription, NEW y \in Source
        PROVE  \/ Owed(t, y)'
               \/ ~Owed(t, y)
               \/ Reads(Queue, Len(Queue), Current(t, y), t, y, published[y])
    BY <2>2, <2>3
  <2> QED
    BY <1>2, <1>3, <2>1, <2>4, SameQueue
<1>7. ASSUME NEW s \in Subscription, WarnNoHandler(s)
      PROVE  ManifestsGoBefore'
  <2>1. /\ UNCHANGED <<wire, out, loop, manifests, published>>
        /\ walk.pc = "walk" /\ walk' = Remaining(walk.left \ {s})
        /\ missed' = missed \cup Lost(Message(s))
    BY <1>7 DEF WarnNoHandler, LeavesOut, workerUnchanged
  <2>2. \A t \in Subscription, y \in Source :
          Owed(t, y) /\ t # s => Owed(t, y)'
    BY <2>1 DEF Owed, Remaining
  <2>3. \A y \in Source : Owed(s, y) => <<s, y>> \in missed'
    BY <2>1 DEF Owed, Lost, Message
  <2> QED
    BY <1>2, <1>3, <2>1, <2>2, <2>3, SameQueue
<1>8. ASSUME NEW s \in Subscription, pka_listener_dbus_dispatch(s)
      PROVE  ManifestsGoBefore'
  <2>1. /\ UNCHANGED <<wire, out, missed, loop, manifests, published>>
        /\ walk.pc = "walk" /\ walk'.pc = "dispatch"
        /\ walk'.member = walk.member /\ walk'.source = walk.source
        /\ walk'.left = walk.left \ {s} /\ walk'.sub = s
    BY <1>8 DEF pka_listener_dbus_dispatch, workerUnchanged
  <2>2. \A t \in Subscription, y \in Source : Owed(t, y) => Owed(t, y)'
    BY <2>1 DEF Owed
  <2> QED
    BY <1>2, <1>3, <2>1, <2>2, SameQueue
<1>9. ASSUME NEW n \in 0 .. Len(out) + 1, SendMessage(n)
      PROVE  ManifestsGoBefore'
  <2>1. /\ walk.pc = "dispatch" /\ SendTo(walk.sub, n)
        /\ walk' = Remaining(walk.left)
        /\ UNCHANGED <<loop, manifests, published, missed>>
    BY <1>9 DEF SendMessage, workerUnchanged
  <2>2. /\ Message(walk.sub) \in Messages
        /\ Queue' = Append(Queue, Message(walk.sub))
    BY <2>1, MessageSent
  <2> QED
    BY <2>1, <2>2, OneAdded
<1>10. CASE SendWithFreedHandler
  <2>1. UNCHANGED <<wire, out, walk, published, missed, loop, manifests>>
    BY <1>10 DEF SendWithFreedHandler, workerUnchanged, workerVars
  <2> QED
    BY <1>3, <2>1, QueueUntouched
<1> QED
  BY <1>4, <1>5, <1>6, <1>7, <1>8, <1>9, <1>10 DEF Sources, Dispatch

LEMMA NextQueue ==
  ASSUME Types, SentWhenSet, ManifestsGoBefore, WalksWithLast, Next
  PROVE  ManifestsGoBefore'
<1>1. CASE AgentMain \/ UNCHANGED vars
  <2>1. UNCHANGED <<wire, out, walk, published, missed, loop, manifests>>
    BY <1>1 DEF AgentMain, pka_listener_dbus_set_delivery_path, RefuseHandler,
       InsertHandler, Serve, HandlerInserted, pka_subscription_set_handlers, vars,
       clientVars, workerVars, linkVars, historyVars
  <2>2. \A s \in Subscription, x \in Source : Current(s, x)' = Current(s, x)
    BY <2>1 DEF Current
  <2> QED
    BY <2>1, <2>2, QueueUntouched
<1> QED
  BY <1>1, ApplicationQueue, LoopQueue, WorkerQueue DEF Next, Client

-----------------------------------------------------------------------------
(* What the sampling thread delivers, and what the program is called with. *)

LEMMA NextWalk ==
  ASSUME Types, WalksWithLast, Next
  PROVE  WalksWithLast'
<1> USE DEF clientVars, agentVars, workerVars
<1>1. ASSUME UNCHANGED <<walk, published>>
      PROVE  WalksWithLast'
  BY <1>1 DEF WalksWithLast
<1>2. CASE Client \/ AgentMain \/ SendWithFreedHandler \/ UNCHANGED vars
  BY <1>1, <1>2 DEF Client, AgentMain, pka_listener_dbus_set_delivery_path,
     RefuseHandler, InsertHandler, Serve, HandlerInserted,
     pka_subscription_set_handlers, SendWithFreedHandler, vars
<1>3. ASSUME NEW x \in Source, PublishManifest(x) \/ TakeSample(x)
      PROVE  WalksWithLast'
  BY <1>3 DEF PublishManifest, TakeSample, Deliver, WalksWithLast
<1>4. ASSUME NEW s \in Subscription,
             SkipUnhandled(s) \/ WarnNoHandler(s) \/ pka_listener_dbus_dispatch(s)
      PROVE  WalksWithLast'
  BY <1>4 DEF SkipUnhandled, WarnNoHandler, LeavesOut, pka_listener_dbus_dispatch,
     Remaining, Idle, WalksWithLast
<1>5. ASSUME NEW n \in 0 .. Len(out) + 1, SendMessage(n)
      PROVE  WalksWithLast'
  BY <1>5 DEF SendMessage, Remaining, Idle, WalksWithLast
<1> QED
  BY <1>2, <1>3, <1>4, <1>5 DEF Next, Dispatch, Sources

\* What the agent does leaves the client alone.
LEMMA AgentApart ==
  ASSUME Next, ~Client
  PROVE  UNCHANGED <<handlers, manifests, told, loop>> /\ missed \subseteq missed'
  BY DEF Next, AgentMain, pka_listener_dbus_set_delivery_path, RefuseHandler,
     InsertHandler, Serve, HandlerInserted, pka_subscription_set_handlers,
     Dispatch, SkipUnhandled, WarnNoHandler, LeavesOut, pka_listener_dbus_dispatch,
     SendMessage, SendWithFreedHandler, workerUnchanged, Sources, PublishManifest,
     TakeSample, Deliver, vars, clientVars, historyVars

LEMMA NextKept ==
  ASSUME Types, KeptIsTold, Next
  PROVE  KeptIsTold'
<1> USE DEF clientVars, linkVars, historyVars, LoopVars
<1>1. /\ handlers \in [Subscription -> Nat]
      /\ manifests \in [Subscription -> [Source -> Version]]
      /\ told \in [Subscription -> [Source -> Version]]
  BY DEF Types
<1>2. /\ loop.pc \in {"keep", "tell"} =>
           loop.message \in Messages /\ loop.handler \in Nat
      /\ \A m \in Messages : m.sub \in Subscription /\ m.source \in Source
                              /\ m.version \in Version
  BY LoopFields DEF Messages
<1>3. ASSUME UNCHANGED <<handlers, manifests, told>>,
             loop' = loop \/ (loop.pc # "tell" /\ loop'.pc \notin {"keep", "tell"})
      PROVE  KeptIsTold'
  BY <1>3 DEF KeptIsTold, Replaced
<1>4. CASE ~Client
  BY <1>3, <1>4, AgentApart
<1>5. CASE \/ pk_connection_dbus_connect_finish \/ AnnounceHandler
           \/ pk_connection_dbus_handle_connection \/ RejectMessage
           \/ UseFreedHandler \/ pk_connection_dbus_dispatch_sample
           \/ CallbackReturns
  BY <1>3, <1>5 DEF pk_connection_dbus_connect_finish, AnnounceHandler,
     pk_connection_dbus_handle_connection, RejectMessage, Receive, UseFreedHandler,
     pk_connection_dbus_dispatch_sample, CallbackReturns, Idle
<1>6. ASSUME NEW s \in Subscription, set_handlers_async(s)
      PROVE  KeptIsTold'
  <2>1. /\ handlers' = [handlers EXCEPT ![s] = handlers[s] + 1]
        /\ manifests' = [manifests EXCEPT ![s] = NoVersions]
        /\ told' = [told EXCEPT ![s] = NoVersions]
        /\ loop' = loop
    BY <1>6 DEF set_handlers_async, NewTree
  <2>2. /\ manifests'[s] = NoVersions /\ told'[s] = NoVersions
        /\ handlers'[s] = handlers[s] + 1 /\ handlers[s] \in Nat
        /\ \A t \in Subscription : t # s =>
             /\ manifests'[t] = manifests[t] /\ told'[t] = told[t]
             /\ handlers'[t] = handlers[t]
    BY <1>1, <2>1
  <2>3. ASSUME loop.pc \in {"keep", "tell"}
        PROVE  /\ loop.handler <= handlers'[loop.message.sub]
               /\ loop.message.sub = s => loop.handler # handlers'[s]
    BY <1>2, <2>2, <2>3 DEF KeptIsTold
  <2>4. ASSUME NEW t \in Subscription, NEW x \in Source
        PROVE  \/ manifests'[t][x] = told'[t][x]
               \/ /\ loop'.pc = "tell"
                  /\ loop'.message.sub = t /\ loop'.message.source = x
                  /\ handlers'[t] = loop'.handler
    BY <2>1, <2>2 DEF KeptIsTold
  <2>5. ASSUME loop.pc = "tell", loop.handler = handlers'[loop.message.sub]
        PROVE  manifests'[loop.message.sub][loop.message.source]
                 = loop.message.version
    BY <1>2, <2>2, <2>3, <2>5 DEF KeptIsTold, Replaced
  <2> QED
    BY <2>1, <2>3, <2>4, <2>5 DEF KeptIsTold, Replaced
<1>7. CASE pk_connection_dbus_dispatch_manifest
  <2>1. /\ UNCHANGED <<handlers, manifests, told>>
        /\ loop.pc = "idle" /\ loop'.pc = "keep"
        /\ loop'.handler = handlers[loop'.message.sub]
        /\ wire # <<>> /\ loop'.message = Head(wire)
    BY <1>7 DEF pk_connection_dbus_dispatch_manifest, Receive, Idle
  <2>2. handlers[loop'.message.sub] \in Nat
    BY <1>1, <1>2, <2>1, WireHead
  <2> QED
    BY <2>1, <2>2 DEF KeptIsTold, Replaced
<1>8. CASE KeepManifest \/ TellManifest
  <2> DEFINE m == loop.message
  <2>1. /\ m.sub \in Subscription /\ m.source \in Source /\ m.version \in Version
        /\ handlers[m.sub] = loop.handler /\ handlers' = handlers
        /\ loop.pc \in {"keep", "tell"}
    BY <1>2, <1>8 DEF KeepManifest, TellManifest, Replaced
  <2>2. CASE KeepManifest
    <3>1. /\ manifests' = [manifests EXCEPT ![m.sub][m.source] = m.version]
          /\ told' = told /\ loop.pc = "keep"
      BY <2>2 DEF KeepManifest, KeptVersion
    <3>2. loop'.pc = "tell" /\ loop'.message = m /\ loop'.handler = loop.handler
      BY <2>2, LoopFields DEF KeepManifest, AfterKeeping
    <3> HIDE DEF m
    <3>3. /\ manifests'[m.sub][m.source] = m.version
          /\ \A s \in Subscription, x \in Source :
               s # m.sub \/ x # m.source => manifests'[s][x] = manifests[s][x]
      BY <1>1, <2>1, <3>1, WithVersion
    <3>4. \A s \in Subscription, x \in Source : manifests[s][x] = told[s][x]
      BY <3>1 DEF KeptIsTold
    <3> QED
      BY <1>1, <2>1, <3>1, <3>2, <3>3, <3>4 DEF KeptIsTold, Replaced
  <2>3. CASE TellManifest
    <3>1. /\ told' = [told EXCEPT ![m.sub][m.source] = m.version]
          /\ manifests' = manifests /\ loop.pc = "tell"
      BY <2>3 DEF TellManifest
    <3>2. loop'.pc = "manifest"
      BY <2>3, LoopFields DEF TellManifest
    <3>3. manifests[m.sub][m.source] = m.version
      BY <2>1, <3>1 DEF KeptIsTold, Replaced
    <3>4. \A s \in Subscription, x \in Source :
            manifests[s][x] = told[s][x] \/ (s = m.sub /\ x = m.source)
      BY DEF KeptIsTold
    <3> HIDE DEF m
    <3>5. /\ told'[m.sub][m.source] = m.version
          /\ \A s \in Subscription, x \in Source :
               s # m.sub \/ x # m.source => told'[s][x] = told[s][x]
      BY <1>1, <2>1, <3>1, WithVersion
    <3> QED
      BY <3>1, <3>2, <3>3, <3>4, <3>5 DEF KeptIsTold
  <2> QED
    BY <1>8, <2>2, <2>3
<1> QED
  BY <1>4, <1>5, <1>6, <1>7, <1>8 DEF Client, Application, Loop

\* The sample a program is called with was the first message on the wire.
LEMMA NextSampled ==
  ASSUME Types, ManifestsGoBefore, KeptIsTold, ToldBeforeSampled,
         DecodedWithItsManifest, Next
  PROVE  ToldBeforeSampled' /\ DecodedWithItsManifest'
<1> USE DEF clientVars, linkVars, historyVars, LoopVars
<1>1. ASSUME loop'.pc # "sample"
      PROVE  ToldBeforeSampled' /\ DecodedWithItsManifest'
  BY <1>1 DEF ToldBeforeSampled, DecodedWithItsManifest
<1>2. ASSUME loop' = loop, told' = told, missed \subseteq missed'
      PROVE  ToldBeforeSampled' /\ DecodedWithItsManifest'
  BY <1>2 DEF ToldBeforeSampled, DecodedWithItsManifest
<1>3. CASE ~Client
  BY <1>2, <1>3, AgentApart
<1>4. CASE \/ pk_connection_dbus_connect_finish \/ AnnounceHandler
           \/ pk_connection_dbus_handle_connection \/ RejectMessage
           \/ UseFreedHandler
  BY <1>2, <1>4 DEF pk_connection_dbus_connect_finish, AnnounceHandler,
     pk_connection_dbus_handle_connection, RejectMessage, Receive, UseFreedHandler
<1>5. ASSUME NEW s \in Subscription, set_handlers_async(s)
      PROVE  ToldBeforeSampled' /\ DecodedWithItsManifest'
  BY <1>1, <1>5 DEF set_handlers_async
<1>6. CASE \/ pk_connection_dbus_dispatch_manifest \/ KeepManifest
           \/ TellManifest \/ CallbackReturns
  BY <1>1, <1>6, LoopFields DEF pk_connection_dbus_dispatch_manifest, KeepManifest,
     AfterKeeping, TellManifest, CallbackReturns, Idle
<1>7. CASE pk_connection_dbus_dispatch_sample
  <2> DEFINE m == Head(wire)
             v == manifests[m.sub][m.source]
  <2>1. /\ UNCHANGED <<manifests, told, missed>> /\ loop.pc = "idle"
        /\ wire # <<>> /\ m.member = "SendSample" /\ v # 0
        /\ loop'.pc = "sample" /\ loop'.message = m /\ loop'.manifest = v
    BY <1>7 DEF pk_connection_dbus_dispatch_sample, Receive, Idle
  <2>2. m \in Messages /\ Queue \in Seq(Messages) /\ Queue # <<>> /\ Head(Queue) = m
    BY <2>1, WireHead
  <2>3. m.sub \in Subscription /\ m.source \in Source
    BY <2>2 DEF Messages
  <2>4. Queue[1] = m /\ 1 \in 1 .. Len(Queue)
    BY <2>2, EmptySeq, LenProperties
  <2>5. Current(m.sub, m.source) = v
    BY <2>1 DEF Current
  <2> HIDE DEF m, v
  <2>6. ASSUME <<m.sub, m.source>> \notin missed
        PROVE  v = m.version
    <3>1. Reads(Queue, 1, v, m.sub, m.source, m.version)
      BY <2>1, <2>3, <2>4, <2>5, <2>6 DEF ManifestsGoBefore, IsSample
    <3>2. ~HasManifest(Queue, 1, 1, m.sub, m.source, m.version)
      BY <2>1, <2>4 DEF HasManifest, IsManifest
    <3> QED
      BY <2>1, <3>1, <3>2 DEF Reads
  <2>7. v = told[m.sub][m.source]
    BY <2>1, <2>3 DEF KeptIsTold, v
  <2> QED
    BY <2>1, <2>6, <2>7 DEF ToldBeforeSampled, DecodedWithItsManifest
<1> QED
  BY <1>3, <1>4, <1>5, <1>6, <1>7 DEF Client, Application, Loop

-----------------------------------------------------------------------------
(* The theorems.                                                           *)

LEMMA NextInv ==
  ASSUME DeliveryInv, [Next]_vars
  PROVE  DeliveryInv'
<1>1. CASE Next
  BY <1>1, NextTypes, NextKnown, NextSent, NextQueue, NextWalk, NextKept,
     NextSampled DEF DeliveryInv
<1>2. CASE UNCHANGED vars
  <2> USE <1>2 DEF vars, clientVars, linkVars, historyVars, agentVars, workerVars
  <2>1. Types'
    BY DEF DeliveryInv, Types
  <2>2. HandlersAreKnown'
    BY KnownUnchanged DEF DeliveryInv
  <2>3. Queue' = Queue /\ \A s, x : Current(s, x)' = Current(s, x)
    BY DEF Queue, Current
  <2>4. SentWhenSet'
    BY <2>3 DEF DeliveryInv, SentWhenSet
  <2>5. ManifestsGoBefore'
    BY <2>3, QueueUntouched DEF DeliveryInv
  <2>6. WalksWithLast' /\ KeptIsTold' /\ ToldBeforeSampled' /\ DecodedWithItsManifest'
    BY DEF DeliveryInv, WalksWithLast, KeptIsTold, Replaced, ToldBeforeSampled,
       DecodedWithItsManifest
  <2> QED
    BY <2>1, <2>2, <2>4, <2>5, <2>6 DEF DeliveryInv
<1> QED
  BY <1>1, <1>2

(* What holds of all the queues, tables and threads between a source and a *)
(* program's callbacks (pka-listener-dbus.c:3872-3936,                     *)
(* pk-connection-dbus.c:158-330).                                          *)
THEOREM DeliveryInvariant == Spec => []DeliveryInv
<1> QED
  BY InitInv, NextInv, PTL DEF Spec

(* A message that arrives finds its path registered and its handler in the *)
(* table (pk-connection-dbus.c:672, 8964-8985).                            *)
THEOREM ArrivalsAreHandled == Spec => []MessagesFindTheirHandler
<1>1. DeliveryInv => MessagesFindTheirHandler
  <2> SUFFICES ASSUME DeliveryInv, NEW i \in 1 .. Len(wire)
               PROVE  Known(wire[i].sub)
    BY DEF MessagesFindTheirHandler, Known
  <2>1. /\ wire \in Seq(Messages) /\ out \in Seq(Messages)
        /\ Len(wire) \in Nat /\ Len(out) \in Nat
    BY LenProperties DEF DeliveryInv, Types
  <2>2. /\ Len(Queue) = Len(wire) + Len(out)
        /\ \A j \in 1 .. Len(wire) + Len(out) :
             Queue[j] = IF j <= Len(wire) THEN wire[j] ELSE out[j - Len(wire)]
    BY <2>1, ConcatProperties DEF Queue
  <2>3. i \in 1 .. Len(wire) + Len(out) /\ i <= Len(wire)
    BY <2>1
  <2>4. Queue[i] = wire[i] /\ i \in 1 .. Len(Queue)
    BY <2>2, <2>3
  <2> QED
    BY <2>4 DEF DeliveryInv, SentWhenSet, HandlersAreKnown
<1> QED
  BY <1>1, DeliveryInvariant, PTL

(* A sample is decoded with the manifest it was encoded with, unless one   *)
(* of its source was lost (pk-connection-dbus.c:312-326).                  *)
THEOREM SamplesAreDecoded == Spec => []DecodedWithItsManifest
<1>1. DeliveryInv => DecodedWithItsManifest
  BY DEF DeliveryInv
<1> QED
  BY <1>1, DeliveryInvariant, PTL

(* A program has been called with the manifest of every sample it is       *)
(* called with (pk-connection-dbus.c:222-229).                             *)
THEOREM ManifestIsToldFirst == Spec => []ToldBeforeSampled
<1>1. DeliveryInv => ToldBeforeSampled
  BY DEF DeliveryInv
<1> QED
  BY <1>1, DeliveryInvariant, PTL
=============================================================================
