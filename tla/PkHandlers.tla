----------------------------- MODULE PkHandlers -----------------------------
(***************************************************************************)
(* The client's end of the delivery of manifests and samples:              *)
(* perfkit/connections/pk-connection-dbus.c.  A program connects, which    *)
(* tells the agent where to connect back to, and sets the handlers of its  *)
(* subscriptions; the main loop accepts the agent's private connection and *)
(* dispatches what comes over it to the handlers.                          *)
(*                                                                         *)
(* Two threads: the application's, which makes the calls, and the one that *)
(* runs the main loop.  What a manifest says is its version; a sample      *)
(* carries the version it was encoded with, which a decoder cannot see.    *)
(***************************************************************************)
EXTENDS Naturals, Sequences, FiniteSets

CONSTANTS
  Subscription,
  Source,
  MaxVersion,   \* bound: manifests of a source
  MaxHandlers   \* bound: how often the handlers of a subscription are set

ASSUME HandlersAssumption ==
  MaxVersion \in Nat /\ MaxHandlers \in [Subscription -> Nat]

VARIABLES
  state,      \* priv->state
  client,     \* priv->client: the agent's connection has been accepted
  handlers,   \* priv->handlers: Handler.id by subscription, 0 for none
  manifests,  \* Handler.manifests of that handler: versions, 0 for none
  stale,      \* the keys of the table that are in freed memory
  paths,      \* object paths registered on priv->client
  app,        \* the subscription whose handler the application has put into
              \* the table and not yet announced, or NoCall
  loop,       \* what the main loop dispatches
  bus,        \* messages to the agent on the session bus
  wire,       \* messages on the private connection
  opened,     \* the agent has opened the private connection
  told,       \* history: the version a handler was last called with
  missed,     \* history: manifests that were sent to a subscription and lost
  undefined   \* freed memory has been used: anything may happen

clientVars == <<state, client, handlers, manifests, stale, paths, app, loop>>
linkVars == <<bus, wire, opened>>
historyVars == <<told, missed, undefined>>

Version == 0 .. MaxVersion
NoCall == [sub |-> 0]
Idle == [pc |-> "idle"]
NoVersions == [x \in Source |-> 0]

SetDeliveryPath == [member |-> "SetDeliveryPath"]
SetHandler(s) == [member |-> "SetHandler", sub |-> s]
SendManifest(s, x, v) ==
  [member |-> "SendManifest", sub |-> s, source |-> x, version |-> v]
SendSample(s, x, v) ==
  [member |-> "SendSample", sub |-> s, source |-> x, version |-> v]

Init ==
  /\ state = "INITIAL" /\ client = FALSE /\ opened = FALSE
  /\ handlers = [s \in Subscription |-> 0]
  /\ manifests = [s \in Subscription |-> NoVersions]
  /\ told = [s \in Subscription |-> NoVersions]
  /\ stale = {} /\ paths = {} /\ missed = {}
  /\ app = NoCall /\ loop = Idle
  /\ bus = <<>> /\ wire = <<>> /\ undefined = FALSE

-----------------------------------------------------------------------------
(* The application *)

(* The agent has answered Ping.  The state is CONNECTED from here on,      *)
(* whether or not a socket for deliveries can be opened; only if it can is *)
(* the agent told of it.                                                   *)
pk_connection_dbus_connect_finish ==
  /\ state = "INITIAL"
  /\ state' = "CONNECTED"
  /\ \/ bus' = Append(bus, SetDeliveryPath)
     \/ UNCHANGED bus
  /\ UNCHANGED <<client, handlers, manifests, stale, paths, app, loop>>
  /\ UNCHANGED <<wire, opened>> /\ UNCHANGED historyVars

(* g_hash_table_insert replaces the value and frees the old one, of which  *)
(* the key it keeps is a field.                                            *)
StaleAfterInsert(table, keys, s) ==
  IF table[s] = 0 THEN keys ELSE keys \union {s}

InheritsTree(s) == manifests[s]          \* faulty: the old handler's
NewTree(s) == NoVersions

(* subscription_set_handlers, up to the unlock of the handlers.  The       *)
(* writer waits for a callback, which runs under the reader lock.          *)
set_handlers_async(s) ==
  /\ app = NoCall
  /\ handlers[s] < MaxHandlers[s]
  /\ loop.pc \notin {"manifest", "sample"}
  /\ handlers' = [handlers EXCEPT ![s] = @ + 1]
  /\ manifests' = [manifests EXCEPT ![s] = NewTree(s)]
  /\ told' = [told EXCEPT ![s] = NoVersions]
  /\ stale' = StaleAfterInsert(handlers, stale, s)
  /\ app' = [sub |-> s]
  /\ UNCHANGED <<state, client, paths, loop, missed, undefined>>
  /\ UNCHANGED linkVars

ForgetsPath(s) == paths                  \* faulty: nothing is registered
Registered(s) == paths \union {s}

(* The rest of it, under priv->mutex: the agent is told of the handler if  *)
(* it has connected, and never if it has not.                              *)
AnnounceHandler ==
  /\ app # NoCall
  /\ IF client
     THEN /\ paths' = Registered(app.sub)
          /\ bus' = Append(bus, SetHandler(app.sub))
     ELSE UNCHANGED <<paths, bus>>
  /\ app' = NoCall
  /\ UNCHANGED <<state, client, handlers, manifests, stale, loop>>
  /\ UNCHANGED <<wire, opened>> /\ UNCHANGED historyVars

-----------------------------------------------------------------------------
(* The main loop *)

pk_connection_dbus_handle_connection ==
  /\ loop = Idle
  /\ opened /\ ~client
  /\ client' = TRUE
  /\ paths' = {s \in Subscription : handlers[s] > 0}
  /\ UNCHANGED <<state, handlers, manifests, stale, app, loop>>
  /\ UNCHANGED linkVars /\ UNCHANGED historyVars

(* What g_hash_table_lookup may return: with a key in freed memory, the    *)
(* handler or nothing.                                                     *)
Found(table, keys, s) ==
  {table[s]} \union (IF s \in keys THEN {0} ELSE {})

(* A manifest that was on its way and reaches no handler.                  *)
Lost(message) ==
  IF message.member = "SendManifest"
  THEN {<<message.sub, message.source>>} ELSE {}

(* handle_handler_message: the message is handled if its path is           *)
(* registered and the table has a handler for it.                          *)
Receive(member) ==
  /\ client /\ loop = Idle
  /\ wire # <<>> /\ Head(wire).member = member
  /\ wire' = Tail(wire)
  /\ UNCHANGED <<state, client, handlers, stale, paths, app, bus, opened>>

(* A message without a path, without a handler, or a sample of a source    *)
(* that this handler has had no manifest of.  The agent is sent an error,  *)
(* which it does not read.                                                 *)
Rejects(message) ==
  \/ message.sub \notin paths
  \/ 0 \in Found(handlers, stale, message.sub)
  \/ /\ message.member = "SendSample"
     /\ manifests[message.sub][message.source] = 0

RejectMessage ==
  /\ wire # <<>> /\ Rejects(Head(wire))
  /\ Receive(Head(wire).member)
  /\ missed' = missed \union Lost(Head(wire))
  /\ UNCHANGED <<manifests, loop, told, undefined>>

HandlerOf(message) ==
  /\ message.sub \in paths
  /\ handlers[message.sub] # 0

(* dispatch_manifest looks the handler up under the reader lock and gives  *)
(* the lock up,                                                            *)
pk_connection_dbus_dispatch_manifest ==
  /\ Receive("SendManifest")
  /\ HandlerOf(Head(wire))
  /\ loop' = [pc |-> "keep", message |-> Head(wire),
              handler |-> handlers[Head(wire).sub]]
  /\ UNCHANGED manifests /\ UNCHANGED historyVars

LoopVars == <<state, client, handlers, stale, paths, app>>

Replaced == handlers[loop.message.sub] # loop.handler

\* faulty: as if g_tree_insert left a key alone that is there
KeepsFirst(m) == IF manifests[m.sub][m.source] = 0 THEN m.version
                 ELSE manifests[m.sub][m.source]
KeptVersion(m) == m.version

OnlyKeeps == Idle                        \* faulty: nobody is told
AfterKeeping == [loop EXCEPT !.pc = "tell"]

(* keeps the manifest under the writer lock,                               *)
KeepManifest ==
  /\ loop.pc = "keep" /\ ~Replaced
  /\ manifests' =
       [manifests EXCEPT ![loop.message.sub][loop.message.source] =
          KeptVersion(loop.message)]
  /\ loop' = AfterKeeping
  /\ UNCHANGED LoopVars /\ UNCHANGED linkVars /\ UNCHANGED historyVars

(* and calls the program under the reader lock.                            *)
TellManifest ==
  /\ loop.pc = "tell" /\ ~Replaced
  /\ told' = [told EXCEPT ![loop.message.sub][loop.message.source] =
                loop.message.version]
  /\ loop' = [loop EXCEPT !.pc = "manifest"]
  /\ UNCHANGED <<manifests, missed, undefined>>
  /\ UNCHANGED LoopVars /\ UNCHANGED linkVars

(* A handler that was replaced while no lock was held has been freed.      *)
UseFreedHandler ==
  /\ loop.pc \in {"keep", "tell"} /\ Replaced
  /\ undefined' = TRUE
  /\ UNCHANGED clientVars /\ UNCHANGED linkVars /\ UNCHANGED <<told, missed>>

(* dispatch_sample: the manifest is looked up by the source the sample     *)
(* names, and the program is called with both.                             *)
pk_connection_dbus_dispatch_sample ==
  /\ Receive("SendSample")
  /\ HandlerOf(Head(wire))
  /\ LET m == Head(wire) IN
     /\ manifests[m.sub][m.source] # 0
     /\ loop' = [pc |-> "sample", message |-> m,
                 manifest |-> manifests[m.sub][m.source]]
  /\ UNCHANGED manifests /\ UNCHANGED historyVars

CallbackReturns ==
  /\ loop.pc \in {"manifest", "sample"}
  /\ loop' = Idle
  /\ UNCHANGED manifests
  /\ UNCHANGED LoopVars /\ UNCHANGED linkVars /\ UNCHANGED historyVars

Loop ==
  \/ pk_connection_dbus_handle_connection
  \/ RejectMessage
  \/ pk_connection_dbus_dispatch_manifest
  \/ KeepManifest
  \/ TellManifest
  \/ UseFreedHandler
  \/ pk_connection_dbus_dispatch_sample
  \/ CallbackReturns

Application ==
  \/ pk_connection_dbus_connect_finish
  \/ \E s \in Subscription : set_handlers_async(s)
  \/ AnnounceHandler
=============================================================================
