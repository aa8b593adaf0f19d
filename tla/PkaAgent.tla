------------------------------- MODULE PkaAgent -------------------------------
(***************************************************************************)
(* What a remote call can read and change in the agent: the registries of  *)
(* perfkit-agent/pka-manager.c and the fields of its channels, sources and *)
(* subscriptions, with one operator per function that a call ends in.      *)
(*                                                                         *)
(* Everything here runs in the main thread, one call at a time.  An        *)
(* operator takes the agent and returns a result: the agent afterwards and *)
(* what was answered, or the error.  The threads that sample, and what a   *)
(* channel tells its sources, are PkaChannel, PkaSampling and PkaSource.   *)
(***************************************************************************)
EXTENDS Integers, SequencesExt, PkValues

CONSTANTS
  TmpDir,     \* g_get_tmp_dir()
  Plugins,    \* identifiers of the plugins that were loaded, in order
  PluginInfo  \* their type, copyright, description, name and version

PKA_PLUGIN_LISTENER == 1
PKA_PLUGIN_SOURCE   == 2
PKA_PLUGIN_ENCODER  == 3

PKA_CHANNEL_READY   == 1
PKA_CHANNEL_RUNNING == 2
PKA_CHANNEL_MUTED   == 3
PKA_CHANNEL_STOPPED == 4
PKA_CHANNEL_FAILED  == 5

ASSUME AgentAssumption ==
  \A p \in ToSet(Plugins) :
    PluginInfo[p].type \in {PKA_PLUGIN_LISTENER, PKA_PLUGIN_SOURCE,
                            PKA_PLUGIN_ENCODER}
-----------------------------------------------------------------------------
(***************************************************************************)
(* Results.  `notify' is what NOTIFY_LISTENERS says: the kind of object    *)
(* that came or went and its number.                                       *)
(***************************************************************************)
Ok(a, out) ==
  [agent |-> a, ok |-> TRUE, out |-> out, error |-> NULL, notify |-> <<>>]
Failed(a, error) ==
  [agent |-> a, ok |-> FALSE, out |-> <<>>, error |-> error, notify |-> <<>>]
Notify(result, event, object, id) ==
  [result EXCEPT !.notify = <<[event |-> event, object |-> object, id |-> id]>>]

\* An operation on an object that has to be found first.
IfFound(found, result) == IF found.ok THEN result ELSE found

\* Numbers are drawn from a sequence that starts at 0, one per kind; objects
\* are never given a number twice, and a removed one is only not registered.
Registered(objects) == {id \in DOMAIN objects : objects[id].registered}
NextId(objects)     == Cardinality(DOMAIN objects)
Append1(objects, o) == [id \in 0..NextId(objects) |->
                          IF id \in DOMAIN objects THEN objects[id] ELSE o]

\* g_list_prepend turns the order of the array around.
Listed(objects) == Reverse(SetToSortSeq(Registered(objects), <))

pka_channel_init(now) ==
  [registered |-> TRUE, state |-> PKA_CHANNEL_READY, target |-> NULL,
   working_dir |-> TmpDir, args |-> NULL, env |-> NULL, pid |-> 0,
   pid_set |-> FALSE, kill_pid |-> TRUE, exit_status |-> 0, sources |-> <<>>,
   watched |-> FALSE, created_at |-> now]

pka_subscription_new(now) ==
  [registered |-> TRUE, muted |-> TRUE, channels |-> {}, sources |-> {},
   timeout |-> 0, size |-> 0, created_at |-> now]

\* `now' stands for the clock; only its order matters, so it moves when
\* something is created.
pka_manager_init ==
  [channels |-> [id \in {} |-> NULL], sources |-> [id \in {} |-> NULL],
   subscriptions |-> [id \in {} |-> NULL], now |-> 0]
-----------------------------------------------------------------------------
(***************************************************************************)
(* pka-manager.c.  The finders give an error when nothing is registered    *)
(* under the number.                                                       *)
(***************************************************************************)
pka_manager_find_channel(a, id) ==
  IF id \in Registered(a.channels) THEN Ok(a, <<id>>)
  ELSE Failed(a, "Not authorized or invalid channel.")

pka_manager_find_source(a, id) ==
  IF id \in Registered(a.sources) THEN Ok(a, <<id>>)
  ELSE Failed(a, "Not authorized or invalid source.")

pka_manager_find_subscription(a, id) ==
  IF id \in Registered(a.subscriptions) THEN Ok(a, <<id>>)
  ELSE Failed(a, "Not authorized or invalid subscription.")

pka_manager_find_plugin(a, id) ==
  IF id \in ToSet(Plugins) THEN Ok(a, <<id>>)
  ELSE Failed(a, "The specified plugin could not be found.")

pka_manager_add_channel(a) ==
  LET id == NextId(a.channels)
      b  == [a EXCEPT !.channels = Append1(@, pka_channel_init(a.now)),
                      !.now = @ + 1]
  IN  Notify(Ok(b, <<id>>), "added", "Channel", id)

pka_manager_add_source(a, plugin) ==
  LET id == NextId(a.sources)
      s  == [registered |-> TRUE, plugin |-> plugin, channel |-> NULL]
  IN  IF PluginInfo[plugin].type # PKA_PLUGIN_SOURCE
      THEN Failed(a, "The specified plugin is not a source plugin.")
      ELSE Notify(Ok([a EXCEPT !.sources = Append1(@, s)], <<id>>),
                  "added", "Source", id)

pka_manager_add_subscription(a) ==
  LET id == NextId(a.subscriptions)
      b  == [a EXCEPT !.subscriptions =
                        Append1(@, pka_subscription_new(a.now)),
                      !.now = @ + 1]
  IN  Notify(Ok(b, <<id>>), "added", "Subscription", id)

pka_manager_get_channels(a)      == Listed(a.channels)
pka_manager_get_sources(a)       == Listed(a.sources)
pka_manager_get_subscriptions(a) == Listed(a.subscriptions)
pka_manager_get_plugins          == Reverse(Plugins)

\* The body that would remove the channel is under if (FALSE).
pka_manager_remove_channel(a, channel) == Ok(a, <<>>)

\* Channels and subscriptions keep the source, and it stays attached.
RemovesUnheard(a, source) ==            \* faulty: the listeners are not told
  Ok([a EXCEPT !.sources[source].registered = FALSE], <<>>)
pka_manager_remove_source(a, source) ==
  Notify(Ok([a EXCEPT !.sources[source].registered = FALSE], <<>>),
         "removed", "Source", source)

pka_manager_remove_subscription(a, subscription) ==
  Notify(Ok([a EXCEPT !.subscriptions[subscription].registered = FALSE],
            <<>>),
         "removed", "Subscription", subscription)
-----------------------------------------------------------------------------
(***************************************************************************)
(* pka-subscription.c.                                                     *)
(***************************************************************************)
pka_subscription_add_source(a, subscription, source) ==
  Ok([a EXCEPT !.subscriptions[subscription].sources = @ \cup {source}], <<>>)

pka_subscription_remove_source(a, subscription, source) ==
  Ok([a EXCEPT !.subscriptions[subscription].sources = @ \ {source}], <<>>)

pka_subscription_add_channel(a, subscription, channel) ==
  LET members == ToSet(a.channels[channel].sources)
  IN  Ok([a EXCEPT !.subscriptions[subscription].channels = @ \cup {channel},
                   !.subscriptions[subscription].sources = @ \cup members],
         <<>>)

pka_subscription_remove_channel(a, subscription, channel) ==
  LET members == ToSet(a.channels[channel].sources)
  IN  Ok([a EXCEPT !.subscriptions[subscription].channels = @ \ {channel},
                   !.subscriptions[subscription].sources = @ \ members],
         <<>>)

pka_subscription_set_state(a, subscription, muted) ==
  Ok([a EXCEPT !.subscriptions[subscription].muted = muted], <<>>)

\* drain is passed on and not looked at.
pka_subscription_mute(a, subscription, drain) ==
  pka_subscription_set_state(a, subscription, TRUE)
pka_subscription_unmute(a, subscription) ==
  pka_subscription_set_state(a, subscription, FALSE)

pka_subscription_set_buffer(a, subscription, timeout, size) ==
  Ok([a EXCEPT !.subscriptions[subscription].timeout = timeout,
               !.subscriptions[subscription].size = size], <<>>)

\* The tree is walked in the order of the numbers and every source is put
\* in front.
pka_subscription_get_sources(a, subscription) ==
  Reverse(SetToSortSeq(a.subscriptions[subscription].sources, <))
-----------------------------------------------------------------------------
(***************************************************************************)
(* pka-channel.c.                                                          *)
(***************************************************************************)
EnsureReady(a, channel, result) ==
  IF a.channels[channel].state = PKA_CHANNEL_READY THEN result
  ELSE Failed(a, "Channel is not in the READY state.")

pka_channel_set_target(a, channel, target) ==
  EnsureReady(a, channel, Ok([a EXCEPT !.channels[channel].target = target],
                             <<>>))
pka_channel_set_working_dir(a, channel, dir) ==
  EnsureReady(a, channel, Ok([a EXCEPT !.channels[channel].working_dir = dir],
                             <<>>))
pka_channel_set_args(a, channel, args) ==
  EnsureReady(a, channel, Ok([a EXCEPT !.channels[channel].args = args], <<>>))
pka_channel_set_env(a, channel, env) ==
  EnsureReady(a, channel, Ok([a EXCEPT !.channels[channel].env = env], <<>>))

\* Attaching to a process forgets the target.
pka_channel_set_pid(a, channel, pid) ==
  EnsureReady(a, channel,
              Ok([a EXCEPT !.channels[channel].pid = pid,
                           !.channels[channel].pid_set = TRUE,
                           !.channels[channel].target = NULL], <<>>))

pka_channel_set_kill_pid(a, channel, kill_pid) ==
  Ok([a EXCEPT !.channels[channel].kill_pid = kill_pid], <<>>)

pka_channel_get_exit_status(a, channel) ==
  LET c == a.channels[channel]
  IN  IF c.state # PKA_CHANNEL_STOPPED
      THEN Failed(a, "The process has not exited yet.")
      ELSE IF c.pid_set
      THEN Failed(a, "The exit status may only be retrieved from processes.")
      ELSE Ok(a, <<c.exit_status>>)

NeverAttached(a, source) == FALSE       \* faulty: no look at the source
Attached(a, source) == a.sources[source].channel # NULL

\* Every subscription whose handler is connected to "source-added" takes the
\* source in.
pka_channel_add_source(a, channel, source) ==
  LET heard == [s \in DOMAIN a.subscriptions |->
                  IF channel \in a.subscriptions[s].channels
                  THEN [a.subscriptions[s] EXCEPT !.sources = @ \cup {source}]
                  ELSE a.subscriptions[s]]
  IN  IF Attached(a, source)
      THEN Failed(a, "Source already attached to a channel.")
      ELSE Ok([a EXCEPT !.sources[source].channel = channel,
                        !.channels[channel].sources = Append(@, source),
                        !.subscriptions = heard], <<>>)

\* A stopped channel is made ready first.  A target is spawned unless there
\* is a process already; spawned is the process number, or 0 when
\* g_spawn_async fails, as it does for "".
pka_channel_start(a, channel, spawned) ==
  LET c == a.channels[channel]
      spawns == c.pid = 0 /\ c.target # NULL
      pid == IF spawns THEN (IF c.target = Empty THEN 0 ELSE spawned)
             ELSE c.pid
  IN  IF c.state \notin {PKA_CHANNEL_READY, PKA_CHANNEL_STOPPED}
      THEN Failed(a, "Channel is not in the READY state.")
      ELSE IF spawns /\ pid = 0
      THEN Failed([a EXCEPT !.channels[channel].state = PKA_CHANNEL_FAILED],
                  "Failed to execute child process")
      ELSE Ok([a EXCEPT !.channels[channel].state = PKA_CHANNEL_RUNNING,
                        !.channels[channel].pid = pid,
                        !.channels[channel].watched = @ \/ spawns], <<>>)

pka_channel_stop(a, channel) ==
  LET state == a.channels[channel].state
  IN  CASE state = PKA_CHANNEL_READY ->
             Failed(a, "Cannot stop a channel that has not yet been started.")
        [] state \in {PKA_CHANNEL_RUNNING, PKA_CHANNEL_MUTED} ->
             Ok([a EXCEPT !.channels[channel].state = PKA_CHANNEL_STOPPED],
                <<>>)
        [] OTHER -> Ok(a, <<>>)

pka_channel_mute(a, channel) ==
  LET state == a.channels[channel].state
  IN  CASE state = PKA_CHANNEL_MUTED -> Ok(a, <<>>)
        [] state = PKA_CHANNEL_RUNNING ->
             Ok([a EXCEPT !.channels[channel].state = PKA_CHANNEL_MUTED],
                <<>>)
        [] OTHER -> Failed(a, "Cannot mute channel.")

pka_channel_unmute(a, channel) ==
  IF a.channels[channel].state = PKA_CHANNEL_MUTED
  THEN Ok([a EXCEPT !.channels[channel].state = PKA_CHANNEL_RUNNING], <<>>)
  ELSE Failed(a, "Channel is not muted.")

\* The child watch: the status is kept and the channel stopped.
pka_channel_inferior_exited(a, channel, status) ==
  LET b == [a EXCEPT !.channels[channel].exit_status = status,
                     !.channels[channel].watched = FALSE]
  IN  pka_channel_stop(b, channel).agent

pka_channel_get_sources(a, channel) == Reverse(a.channels[channel].sources)
-----------------------------------------------------------------------------
MutesOnly(a) ==                         \* faulty: the channels are forgotten
  [a EXCEPT !.subscriptions = [s \in DOMAIN @ |->
                                 [@[s] EXCEPT !.muted = TRUE]]]
\* When the main loop has ended: subscriptions are muted, channels stopped,
\* and both leave their registries; the listeners are not told.
pka_manager_shutdown(a) ==
  LET muted(s) == pka_subscription_mute(a, s, FALSE).agent.subscriptions[s]
      stopped(c) == pka_channel_stop(a, c).agent.channels[c]
  IN  [a EXCEPT
         !.subscriptions = [s \in DOMAIN @ |->
            IF s \in Registered(@)
            THEN [muted(s) EXCEPT !.registered = FALSE] ELSE @[s]],
         !.channels = [c \in DOMAIN @ |->
            IF c \in Registered(@)
            THEN [stopped(c) EXCEPT !.registered = FALSE] ELSE @[c]]]
=============================================================================
