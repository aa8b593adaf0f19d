-------------------------------- MODULE PkRpc --------------------------------
(***************************************************************************)
(* Programs that call the agent through the client library: what a call    *)
(* goes through in both processes and on the bus between them.             *)
(*                                                                         *)
(* A caller's call becomes a message (PkConnectionCalls, PkObjects,        *)
(* PkConnectionDBus).  The agent's main loop takes the messages of one     *)
(* connection in their order, those of several connections in any order,   *)
(* and works on one at a time (PkaListenerDBus, PkaListener, PkaAgent).    *)
(* The reply ends the caller's DBusPendingCall; a source on the caller's   *)
(* main loop then runs the _finish function.  libdbus ends a pending call  *)
(* with an error of its own when the agent is gone or 25 s have passed.    *)
(***************************************************************************)
EXTENDS PkObjects, PkConnectionDBus, PkaListenerDBus, PkaListener

CONSTANTS
  Callers,       \* connections with one call at a time
  Wanted,        \* Wanted[c]: the calls [op, in] that c may make
  Spawned,       \* what g_spawn_async may give: process numbers, and 0
  ExitStatuses,
  MaxCalls,      \* MaxCalls[c]: bound on the calls of c
  Setup          \* the calls [op, in] that were made before the start

\* MaxCalls and the numbers of processes are what they stand for, and nobody
\* calls what is not a procedure.
ASSUME RpcAssumption ==
  /\ \A c \in Callers : MaxCalls[c] \in Nat
  /\ \A c \in Callers : \A want \in Wanted[c] : IsCall(want)
  /\ Len(Setup) \in Nat /\ \A k \in 1..Len(Setup) : IsCall(Setup[k])
  /\ Spawned # {}

VARIABLES
  agent,  \* the agent's registries and objects
  paths,  \* the object paths that the listener has registered
  alive,  \* the agent owns the name org.perfkit.Agent
  bus,    \* bus[c]: the messages of c that the agent has not taken yet
  call,   \* call[c]: the call that c is in
  calls   \* calls[c]: how many calls c has made

vars == <<agent, paths, alive, bus, call, calls>>

(***************************************************************************)
(* A call.  It is `sent' until the reply is written, `replied' until the   *)
(* reply is read, which sets op_res and queues the callback, `notified'    *)
(* until _finish has run, and then `finished'.  `want' is what the caller  *)
(* meant; no code reads it.                                                *)
(***************************************************************************)
NotCalled                    == [stage |-> "none"]
Sent(want, slot)             == [stage |-> "sent", want |-> want, slot |-> slot]
Replied(cl, reply) == [stage |-> "replied", want |-> cl.want,
                       slot |-> cl.slot, reply |-> reply]
Finished(want, result) ==
  [stage |-> "finished", want |-> want, result |-> result]

NoReply        == Error("NoReply", NULL)
ServiceUnknown == Error("ServiceUnknown", NULL)
UnknownMethod  == Error("UnknownMethod", NULL)

\* What pka_manager_init and register_singletons leave.
Announced(p) == /\ p \in ToSet(Plugins)
                /\ PluginInfo[p].type # PKA_PLUGIN_LISTENER
FirstPaths == {ManagerPath} \cup {Path("Plugin", p) : p \in
                                    {p \in ToSet(Plugins) : Announced(p)}}

\* A procedure announces one object at most.
AllNotified(ps, notes) ==
  IF notes = <<>> THEN ps ELSE Notified(ps, Head(notes))
SetUp(s, want) ==
  LET r == Performed(s.agent, want.op, want.in, 0)
  IN  [agent |-> r.agent, paths |-> AllNotified(s.paths, r.notify)]
Started[k \in Nat] ==
  IF k = 0 THEN [agent |-> pka_manager_init, paths |-> FirstPaths]
  ELSE SetUp(Started[k - 1], Setup[k])
AtStart == Started[Len(Setup)]

Init ==
  /\ agent = AtStart.agent
  /\ paths = AtStart.paths
  /\ alive = TRUE
  /\ bus = [c \in Callers |-> <<>>]
  /\ call = [c \in Callers |-> NotCalled]
  /\ calls = [c \in Callers |-> 0]
-----------------------------------------------------------------------------
(***************************************************************************)
(* The caller.                                                             *)
(***************************************************************************)
Free(c) == /\ call[c].stage \in {"none", "finished"}
           /\ calls[c] < MaxCalls[c]

\* An _async function.  Without an agent the bus answers.
Invoke(c, want) ==
  /\ Free(c)
  /\ LET rpc == Calls(want.op, want.in)
         cl  == Sent(want, rpc.slot)
     IN  IF alive
         THEN /\ bus' = [bus EXCEPT ![c] = Append(@,
                           [want |-> want, message |-> Request(rpc)])]
              /\ call' = [call EXCEPT ![c] = cl]
         ELSE /\ call' = [call EXCEPT ![c] = Replied(cl, ServiceUnknown)]
              /\ UNCHANGED bus
  /\ calls' = [calls EXCEPT ![c] = @ + 1]
  /\ UNCHANGED <<agent, paths, alive>>

\* A method of an object that the library has made: FALSE comes back, and the
\* error is not set.
InvokeMethod(c, want) ==
  /\ Free(c)
  /\ want.op \in Methods
  /\ MethodCalls(want.op, want.in, ConstructedWith(c)) = NoCall
  /\ call' = [call EXCEPT ![c] =
                Finished(want, [ok |-> FALSE, out |-> <<>>, error |-> NULL])]
  /\ calls' = [calls EXCEPT ![c] = @ + 1]
  /\ UNCHANGED <<agent, paths, alive, bus>>

\* pk_connection_dbus_notify.
ReplyArrives(c) ==
  /\ call[c].stage = "replied"
  /\ call' = [call EXCEPT ![c].stage = "notified"]
  /\ UNCHANGED <<agent, paths, alive, bus, calls>>

\* The reply timeout of libdbus: no reply has been read.
CallTimesOut(c) ==
  /\ call[c].stage \in {"sent", "replied"}
  /\ call' = [call EXCEPT ![c] =
                [Replied(@, NoReply) EXCEPT !.stage = "notified"]]
  /\ UNCHANGED <<agent, paths, alive, bus, calls>>

Finish(c) ==
  /\ call[c].stage = "notified"
  /\ call' = [call EXCEPT ![c] =
                Finished(@.want, Result(@.slot, @.reply))]
  /\ UNCHANGED <<agent, paths, alive, bus, calls>>

\* pk_connection_dbus_cancel, the handler of the cancellable's signal.  op_res
\* is set by the reply: before, g_assert(call) ends the program; after, the
\* call is complete and nothing is done.
pk_connection_dbus_cancel(c) ==
  /\ call[c].stage \in {"sent", "replied"}
  /\ call' = [call EXCEPT ![c] = [stage |-> "aborted"]]
  /\ UNCHANGED <<agent, paths, alive, bus, calls>>
-----------------------------------------------------------------------------
(***************************************************************************)
(* The agent.                                                              *)
(***************************************************************************)
\* faulty: what no branch took is handled without a reply
LeavesUnanswered(c, reply) ==
  call' = IF reply # UnknownMethod /\ call[c].stage = "sent" /\ Len(bus[c]) = 1
          THEN [call EXCEPT ![c] = Replied(@, reply)]
          ELSE call

\* What the _cb function replies is read by the caller that still waits for
\* it: a reply to a call that has timed out is dropped.
ReplyTo(c, reply) ==
  call' = IF call[c].stage = "sent" /\ Len(bus[c]) = 1
          THEN [call EXCEPT ![c] = Replied(@, reply)]
          ELSE call

\* One message.  libdbus answers for a path that is not registered, and for a
\* message that no branch took.
Serve(c) ==
  /\ alive
  /\ bus[c] # <<>>
  /\ bus' = [bus EXCEPT ![c] = Tail(@)]
  /\ LET message == Head(bus[c]).message
         rpc == IF message.path \in paths THEN Dispatched(message)
                ELSE NotYetHandled
     IN  IF rpc = NotYetHandled
         THEN ReplyTo(c, UnknownMethod) /\ UNCHANGED <<agent, paths>>
         ELSE \E spawned \in Spawned :
                LET r == Performed(agent, rpc.op, rpc.in, spawned)
                IN  /\ agent' = r.agent
                    /\ paths' = AllNotified(paths, r.notify)
                    /\ ReplyTo(c, Answered(rpc.op, r))
  /\ UNCHANGED <<alive, calls>>

InferiorExited(channel, status) ==
  /\ alive
  /\ channel \in DOMAIN agent.channels
  /\ agent.channels[channel].watched
  /\ agent' = pka_channel_inferior_exited(agent, channel, status)
  /\ UNCHANGED <<paths, alive, bus, call, calls>>

\* SIGINT: the main loop ends after the message it is at, and main goes
\* through the shutdown.  The bus answers for what was not taken, and for the
\* replies that were still to be written.
AgentQuits ==
  /\ alive
  /\ alive' = FALSE
  /\ agent' = pka_manager_shutdown(agent)
  /\ bus' = [c \in Callers |-> <<>>]
  /\ \E lost \in SUBSET {c \in Callers : call[c].stage = "replied"} :
       call' = [c \in Callers |->
                  IF call[c].stage = "sent" \/ c \in lost
                  THEN Replied(call[c], NoReply) ELSE call[c]]
  /\ UNCHANGED <<paths, calls>>
-----------------------------------------------------------------------------
Next ==
  \/ \E c \in Callers :
       \/ \E want \in Wanted[c] : Invoke(c, want) \/ InvokeMethod(c, want)
       \/ Serve(c)
       \/ ReplyArrives(c)
       \/ CallTimesOut(c)
       \/ Finish(c)
       \/ pk_connection_dbus_cancel(c)
  \/ \E channel \in DOMAIN agent.channels, status \in ExitStatuses :
       InferiorExited(channel, status)
  \/ AgentQuits

\* Main loops run: the agent's takes messages, a caller's reads the reply and
\* calls the callback.
Fairness ==
  /\ WF_vars(\E c \in Callers : Serve(c))
  /\ \A c \in Callers : WF_vars(ReplyArrives(c) \/ Finish(c))

Spec == Init /\ [][Next]_vars /\ Fairness
-----------------------------------------------------------------------------
\* Every variable keeps to its range; a call that was sent and not replied
\* to is the last of its connection.
TypeOK ==
  /\ alive \in BOOLEAN
  /\ \A c \in Callers :
       /\ calls[c] \in 0..MaxCalls[c]
       /\ call[c].stage \in {"none", "sent", "replied", "notified",
                             "finished", "aborted"}
       /\ call[c].stage = "sent" =>
            /\ bus[c] # <<>>
            /\ bus[c][Len(bus[c])].want = call[c].want
       /\ ~alive => bus[c] = <<>> /\ call[c].stage # "sent"

\* The object paths are those of the manager, of the plugins and of what is
\* in the registries (NOTIFY_LISTENERS, pka-manager.c:41): as long as the
\* agent runs, a call reaches every object that a get_ call lists, and none
\* that was removed.
PathsAreRegistries ==
  alive =>
    paths = FirstPaths
      \cup {Path("Channel", id) : id \in Registered(agent.channels)}
      \cup {Path("Source", id) : id \in Registered(agent.sources)}
      \cup {Path("Subscription", id) : id \in Registered(agent.subscriptions)}

\* What the agent answers has the types that its introspection data declare
\* for the member (pka-listener-dbus.c:84 and the five like it), which is what
\* programs that do not use the library go by.
AnswersAsDeclared ==
  \A c \in Callers :
    call[c].stage = "replied" /\ call[c].reply.type = "return" =>
      LET message == Request(Calls(call[c].want.op, call[c].want.in))
          args == call[c].reply.args
      IN  \E m \in Introspection[message.interface] :
            /\ m.member = message.member
            /\ m.out = [k \in DOMAIN args |-> args[k][1]]

\* A source that is attached to a channel is in that channel's array once and
\* in no other's, whatever calls were made in whatever order, the ones that
\* failed and the removals included (pka-channel.c:538).
AttachedOnce ==
  \A id \in DOMAIN agent.sources, ch \in DOMAIN agent.channels :
    LET places == {k \in DOMAIN agent.channels[ch].sources :
                     agent.channels[ch].sources[k] = id}
    IN  Cardinality(places) = IF agent.sources[id].channel = ch THEN 1 ELSE 0

\* The agent leaves no channel running behind (pka_manager_shutdown).
ShutdownStops ==
  ~alive => \A ch \in DOMAIN agent.channels :
              agent.channels[ch].state \notin {PKA_CHANNEL_RUNNING,
                                               PKA_CHANNEL_MUTED}

\* A call ends with a result, from the agent or from the bus, whatever the
\* other callers do and whenever the agent is ended, or its program ends by
\* cancelling it; the timeout is not needed for it.
CallsEnd ==
  \A c \in Callers :
    (call[c].stage = "sent") ~> (call[c].stage \in {"finished", "aborted"})
-----------------------------------------------------------------------------
(***************************************************************************)
(* To the callers this is AgentService, messages and all, but for what     *)
(* Instead and Disconnected name.                                          *)
(***************************************************************************)
Outcome(result) == [ok |-> result.ok, out |-> result.out]

Shown(cl) ==
  CASE cl.stage = "none" -> [stage |-> "idle"]
    [] cl.stage = "sent" -> [stage |-> "waiting", want |-> cl.want]
    [] cl.stage \in {"replied", "notified"} ->
         [stage |-> "answered", outcome |-> Outcome(Result(cl.slot, cl.reply))]
    [] cl.stage = "aborted" -> [stage |-> "ended"]
    [] cl.stage = "finished" ->
         [stage |-> "told", outcome |-> Outcome(cl.result)]
Meant(messages) == [k \in DOMAIN messages |-> messages[k].want]

askedBar == [c \in Callers |-> Shown(call[c])]
queueBar == [c \in Callers |-> Meant(bus[c])]

\* What the introspection data and the header promise where the agent's code
\* does something else: the buffer of a new subscription is the one that was
\* asked for, and pid_set is that of the channel that was asked.
Promised(a, op, in, spawned) ==
  CASE op = "manager_add_subscription" ->
         LET r == pka_manager_add_subscription(a)
             b == pka_subscription_set_buffer(r.agent, r.out[1], in[2], in[1])
         IN  [r EXCEPT !.agent = b.agent]
    [] op = "channel_get_pid_set" ->
         IfFound(pka_manager_find_channel(a, in[1]),
                 Ok(a, <<a.channels[in[1]].pid_set>>))
    [] OTHER -> Performed(a, op, in, spawned)

\* The exemptions.  Of these three calls the agent does not read the arguments
\* and takes 0 (pka-listener-dbus.c:1617 and 1709, pka-listener.c:781); and
\* a null string cannot be sent, so that a target or a directory once set
\* cannot be taken back.
Unread == {"manager_add_subscription", "manager_remove_channel",
           "channel_get_pid_set"}
SetStrings == {"channel_set_target", "channel_set_working_dir"}
Instead(want) ==
  IF want.op \in Unread THEN {[k \in DOMAIN want.in |-> 0]}
  ELSE IF want.op \in SetStrings /\ want.in[2] = NULL
  THEN {<<want.in[1], Empty>>}
  ELSE {}

\* The method of an object fails for want of a connection (pk-channel.c:2784).
Disconnected(want) ==
  /\ want.op \in Methods
  /\ \A c \in Callers :
       MethodCalls(want.op, want.in, ConstructedWith(c)) = NoCall

\* A caller is told the empty string or vector for one that is null.
Strings == {"manager_get_hostname", "manager_get_version",
            "channel_get_target", "channel_get_working_dir",
            "plugin_get_copyright", "plugin_get_description",
            "plugin_get_name", "plugin_get_version"}
Vectors == {"channel_get_args", "channel_get_env"}
Read(op, r) ==
  IF ~r.ok THEN [ok |-> FALSE, out |-> <<>>]
  ELSE [ok |-> TRUE,
        out |-> [k \in DOMAIN r.out |->
                   IF op \in Strings /\ r.out[k] = NULL THEN Empty
                   ELSE IF op \in Vectors /\ r.out[k] = NULL THEN <<>>
                   ELSE r.out[k]]]

Service == INSTANCE AgentService
             WITH asked <- askedBar, queue <- queueBar,
                  Performed <- Promised, Refused <- Disconnected,
                  FirstAgent <- AtStart.agent

\* Every behaviour is one of the service that the agent promises: through 52
\* pairs of a writer and a reader per direction, no argument and no result is
\* lost, swapped or read as another type, and a call that timed out is
\* performed at most once and in its turn.  Exempted by name are the three
\* calls of Unread, null strings (Instead), and the methods of the library's
\* objects, which make no call (Disconnected).
IsService == Service!Spec
=============================================================================
