----------------------------- MODULE PkDelivery -----------------------------
(***************************************************************************)
(* Deliveries from end to end.  The agent's side is that of                *)
(* perfkit-agent/listeners/pka-listener-dbus.c: its main thread serves     *)
(* SetDeliveryPath and SetHandler, its sampling thread looks handlers up,  *)
(* without their lock, and sends what the sources deliver.  The client's   *)
(* side is PkHandlers.                                                     *)
(*                                                                         *)
(* What a source delivers is what PkaSource shows of it: it publishes a    *)
(* manifest and hands it to every subscription before anything else, and   *)
(* samples are encoded with the last one.  Every subscription observes     *)
(* every source.                                                           *)
(***************************************************************************)
EXTENDS PkHandlers

CONSTANTS
  MaxQueue      \* bound: messages the agent has not been able to write; one
                \* more may be on the wire

ASSUME DeliveryAssumption == MaxQueue \in Nat

VARIABLES
  table,      \* the agent's priv->handlers: a number by subscription
  old,        \* the keys of it that are in freed memory
  closures,   \* the subscriptions whose handlers have been set
  setter,     \* the SetHandler the main thread is in, or NoCall
  published,  \* the version of each source's manifest
  walk,       \* what the sampling thread delivers, and to whom it has yet to
  out         \* messages queued on the private connection

agentVars == <<table, old, closures, setter>>
workerVars == <<published, walk, out>>
vars == <<clientVars, linkVars, historyVars, agentVars, workerVars>>

AgentInit ==
  /\ table = [s \in Subscription |-> 0]
  /\ old = {} /\ closures = {}
  /\ setter = NoCall
  /\ published = NoVersions
  /\ walk = Idle
  /\ out = <<>>

-----------------------------------------------------------------------------
(* The main thread of the agent *)

Serve(member) ==
  /\ setter = NoCall
  /\ bus # <<>> /\ Head(bus).member = member
  /\ bus' = Tail(bus)
  /\ UNCHANGED clientVars /\ UNCHANGED workerVars
  /\ UNCHANGED <<wire, told, missed>>

(* The connection may fail to open: the caller gets an error.              *)
pka_listener_dbus_set_delivery_path ==
  /\ Serve("SetDeliveryPath")
  /\ opened' \in BOOLEAN
  /\ UNCHANGED agentVars /\ UNCHANGED undefined

(* A client that has no connection is refused.                             *)
RefuseHandler ==
  /\ Serve("SetHandler") /\ ~opened
  /\ UNCHANGED agentVars /\ UNCHANGED <<opened, undefined>>

(* SetHandler puts a handler into the table; the sampling thread may be in *)
(* a lookup meanwhile.  What was there before is freed,                    *)
InsertHandler ==
  /\ Serve("SetHandler") /\ opened
  /\ LET s == Head(bus).sub IN
     /\ table' = [table EXCEPT ![s] = @ + 1]
     /\ old' = StaleAfterInsert(table, old, s)
     /\ setter' = [sub |-> s, pc |-> "inserting"]
  /\ UNCHANGED <<closures, opened, undefined>>

HandlerInserted ==
  /\ setter # NoCall /\ setter.pc = "inserting"
  /\ setter' = [setter EXCEPT !.pc = "inserted"]
  /\ UNCHANGED <<table, old, closures>>
  /\ UNCHANGED clientVars /\ UNCHANGED workerVars
  /\ UNCHANGED linkVars /\ UNCHANGED historyVars

(* and sets the handlers of the subscription under its writer lock, which  *)
(* waits for a delivery to it.                                             *)
pka_subscription_set_handlers ==
  /\ setter # NoCall /\ setter.pc = "inserted"
  /\ walk.pc = "dispatch" => walk.sub # setter.sub
  /\ closures' = closures \union {setter.sub}
  /\ setter' = NoCall
  /\ UNCHANGED <<table, old>>
  /\ UNCHANGED clientVars /\ UNCHANGED workerVars
  /\ UNCHANGED linkVars /\ UNCHANGED historyVars

-----------------------------------------------------------------------------
(* The sampling thread *)

workerUnchanged ==
  /\ UNCHANGED clientVars /\ UNCHANGED agentVars
  /\ UNCHANGED <<bus, opened, told>>

Deliver(message, x, v) ==
  /\ walk = Idle
  /\ walk' = [pc |-> "walk", member |-> message, source |-> x, version |-> v,
              left |-> Subscription]
  /\ UNCHANGED <<out, wire, missed, undefined>>
  /\ workerUnchanged

PublishManifest(x) ==
  /\ published[x] < MaxVersion
  /\ published' = [published EXCEPT ![x] = @ + 1]
  /\ Deliver("SendManifest", x, published'[x])

TakeSample(x) ==
  /\ published[x] > 0
  /\ Deliver("SendSample", x, published[x])
  /\ UNCHANGED published

Message(s) == [member |-> walk.member, sub |-> s, source |-> walk.source,
               version |-> walk.version]

(* The walk over the subscriptions ends with the last one.                 *)
Remaining(left) ==
  IF left = {} THEN Idle
  ELSE [pc |-> "walk", member |-> walk.member, source |-> walk.source,
        version |-> walk.version, left |-> left]

(* A delivery that ends at s, lost if nothing is sent.                     *)
LeavesOut(s) ==
  /\ walk' = Remaining(walk.left \ {s})
  /\ missed' = missed \union Lost(Message(s))
  /\ UNCHANGED <<published, out, wire, undefined>>
  /\ workerUnchanged

SkipUnhandled(s) ==
  /\ walk.pc = "walk" /\ s \in walk.left
  /\ s \notin closures
  /\ walk' = Remaining(walk.left \ {s})
  /\ UNCHANGED <<published, out, wire, missed, undefined>>
  /\ workerUnchanged

(* The lookup is under no lock.  While the main thread inserts a handler   *)
(* the table may be growing, and the lookup look into the wrong array.     *)
LookupFails(s) ==
  \/ setter # NoCall /\ setter.pc = "inserting"
  \/ 0 \in Found(table, old, s)

WarnNoHandler(s) ==
  /\ walk.pc = "walk" /\ s \in walk.left
  /\ s \in closures /\ LookupFails(s)
  /\ LeavesOut(s)

pka_listener_dbus_dispatch(s) ==
  /\ walk.pc = "walk" /\ s \in walk.left
  /\ s \in closures
  /\ walk' = [pc |-> "dispatch", member |-> walk.member,
              source |-> walk.source, version |-> walk.version,
              left |-> walk.left \ {s}, sub |-> s, handler |-> table[s]]
  /\ UNCHANGED <<published, out, wire, missed, undefined>>
  /\ workerUnchanged

(* dbus_connection_send queues the message and writes what it can.  The    *)
(* agent does not run this connection in its main loop, so nothing is      *)
(* written at other times.                                                 *)
SendTo(s, n) ==
  LET queue == Append(out, Message(s)) IN
  /\ wire' = wire \o SubSeq(queue, 1, n)
  /\ out' = SubSeq(queue, n + 1, Len(queue))
  /\ Len(out') <= MaxQueue /\ Len(wire') <= MaxQueue + 1

SendMessage(n) ==
  /\ walk.pc = "dispatch" /\ table[walk.sub] = walk.handler
  /\ SendTo(walk.sub, n)
  /\ walk' = Remaining(walk.left)
  /\ UNCHANGED <<published, missed, undefined>>
  /\ workerUnchanged

(* The handler was replaced, and freed, since it was looked up.            *)
SendWithFreedHandler ==
  /\ walk.pc = "dispatch" /\ table[walk.sub] # walk.handler
  /\ undefined' = TRUE
  /\ UNCHANGED workerVars /\ UNCHANGED <<wire, missed>>
  /\ workerUnchanged

-----------------------------------------------------------------------------
AgentMain ==
  \/ pka_listener_dbus_set_delivery_path
  \/ RefuseHandler
  \/ InsertHandler
  \/ HandlerInserted
  \/ pka_subscription_set_handlers

Dispatch ==
  \/ \E s \in Subscription :
       SkipUnhandled(s) \/ WarnNoHandler(s) \/ pka_listener_dbus_dispatch(s)
  \/ \E n \in 0 .. Len(out) + 1 : SendMessage(n)
  \/ SendWithFreedHandler

Sources == \E x \in Source : PublishManifest(x) \/ TakeSample(x)

Client == (Application \/ Loop) /\ UNCHANGED <<agentVars, workerVars>>

(* Nothing is said of what happens once freed memory has been used.        *)
Next ==
  \/ ~undefined /\ (Client \/ AgentMain \/ Dispatch \/ Sources)
  \/ undefined /\ UNCHANGED vars

DeliveryInit == Init /\ AgentInit

(* Threads run on; a source that is started keeps sampling; a connection   *)
(* that is written to again and again is at some time written to the end.  *)
Fairness ==
  /\ WF_vars(~undefined /\ Loop /\ UNCHANGED <<agentVars, workerVars>>)
  /\ WF_vars(~undefined /\ AgentMain)
  /\ WF_vars(~undefined /\ Dispatch)
  /\ \A x \in Source : SF_vars(~undefined /\ TakeSample(x))
  /\ SF_vars(~undefined /\ SendMessage(Len(out) + 1))

Spec == DeliveryInit /\ [][Next]_vars /\ Fairness

-----------------------------------------------------------------------------
(* Properties *)

Messages == [member : {"SendManifest", "SendSample"}, sub : Subscription,
             source : Source, version : Version]

(* Type invariant.                                                         *)
TypeOK ==
  /\ state \in {"INITIAL", "CONNECTED"}
  /\ client \in BOOLEAN /\ opened \in BOOLEAN /\ undefined \in BOOLEAN
  /\ handlers \in [Subscription -> Nat] /\ table \in [Subscription -> Nat]
  /\ manifests \in [Subscription -> [Source -> Version]]
  /\ told \in [Subscription -> [Source -> Version]]
  /\ published \in [Source -> Version]
  /\ stale \subseteq Subscription /\ paths \subseteq Subscription
  /\ old \subseteq Subscription /\ closures \subseteq Subscription
  /\ missed \subseteq Subscription \X Source
  /\ wire \in Seq(Messages) /\ out \in Seq(Messages)

(* A message that arrives at the client finds its path registered and its  *)
(* handler in the table: the agent can know of a handler only after both,  *)
(* whenever it connects (pk-connection-dbus.c:672, 8964-8985).             *)
MessagesFindTheirHandler ==
  \A i \in 1 .. Len(wire) :
    wire[i].sub \in paths /\ handlers[wire[i].sub] > 0

(* A sample is decoded with the manifest it was encoded with, unless a     *)
(* manifest of its source was lost on the way                              *)
(* (pk-connection-dbus.c:312-326, pka-listener-dbus.c:3897).               *)
DecodedWithItsManifest ==
  loop.pc = "sample" =>
    \/ loop.manifest = loop.message.version
    \/ <<loop.message.sub, loop.message.source>> \in missed

(* A program has been called with the manifest of every sample it is       *)
(* called with, by the handler in place (pk-connection-dbus.c:222-229).    *)
ToldBeforeSampled ==
  loop.pc = "sample" =>
    loop.manifest = told[loop.message.sub][loop.message.source]

Sent(s, x, v) ==
  \E m \in {out[i] : i \in 1 .. Len(out)} \union
          {wire[i] : i \in 1 .. Len(wire)} :
    m = SendManifest(s, x, v)

(* A source's last manifest, once the agent has sent it, reaches the       *)
(* program, although the agent writes only while it sends                  *)
(* (pka-listener-dbus.c:1532, 3912), unless the handler was replaced or    *)
(* the manifest lost.                                                      *)
ManifestReachesProgram ==
  \A s \in Subscription, x \in Source :
    Sent(s, x, MaxVersion) ~> \/ told[s][x] = MaxVersion
                              \/ <<s, x>> \in missed
                              \/ handlers[s] > 1 \/ undefined

(* What the comment at pk-connection-dbus.c:156-159 says of handlers, that *)
(* only the main loop touches them: the one it has looked up stays.        *)
HandlerStaysLookedUp ==
  loop.pc \in {"keep", "tell"} => handlers[loop.message.sub] = loop.handler
=============================================================================
