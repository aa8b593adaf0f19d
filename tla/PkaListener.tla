----------------------------- MODULE PkaListener -----------------------------
(***************************************************************************)
(* The remote procedures in the agent, perfkit-agent/pka-listener.c.  The  *)
(* _async function of a procedure keeps the arguments in a call record and *)
(* completes at once; the _finish function, which runs before _async has   *)
(* returned, finds the objects by their numbers, calls one operation of    *)
(* theirs and stores what it answers.  One operator stands for both: it    *)
(* takes the agent and gives the result.                                   *)
(***************************************************************************)
EXTENDS PkaAgent

CONSTANTS
  HostName,      \* g_get_host_name()
  PKA_VERSION_S

(***************************************************************************)
(* Manager.                                                                *)
(***************************************************************************)
pka_listener_manager_add_channel(a) == pka_manager_add_channel(a)
pka_listener_manager_add_source(a, plugin) ==
  IfFound(pka_manager_find_plugin(a, plugin),
    pka_manager_add_source(a, plugin))
\* buffer_size and timeout are kept in the call record and not read.
pka_listener_manager_add_subscription(a, buffer_size, timeout) ==
  pka_manager_add_subscription(a)
pka_listener_manager_get_channels(a) == Ok(a, <<pka_manager_get_channels(a)>>)
pka_listener_manager_get_hostname(a) == Ok(a, <<HostName>>)
\* names[i++] is the next plugin that is not a listener.
EntriesAt(list, order) == [i \in DOMAIN order |-> list[order[i]]]
pka_listener_manager_get_plugins(a) ==
  LET list  == pka_manager_get_plugins
      told  == {k \in DOMAIN list : PluginInfo[list[k]].type # PKA_PLUGIN_LISTENER}
      order == SetToSortSeq(told, <)
  IN  Ok(a, <<EntriesAt(list, order)>>)
pka_listener_manager_get_sources(a) == Ok(a, <<pka_manager_get_sources(a)>>)
pka_listener_manager_get_subscriptions(a) ==
  Ok(a, <<pka_manager_get_subscriptions(a)>>)
pka_listener_manager_get_version(a) == Ok(a, <<PKA_VERSION_S>>)
pka_listener_manager_ping(a) == Ok(a, <<a.now>>)
\* *removed is set whatever the manager did.
pka_listener_manager_remove_channel(a, channel) ==
  IfFound(pka_manager_find_channel(a, channel),
    [pka_manager_remove_channel(a, channel) EXCEPT !.out = <<TRUE>>])
pka_listener_manager_remove_source(a, source) ==
  IfFound(pka_manager_find_source(a, source),
    pka_manager_remove_source(a, source))
pka_listener_manager_remove_subscription(a, subscription) ==
  IfFound(pka_manager_find_subscription(a, subscription),
    [pka_manager_remove_subscription(a, subscription) EXCEPT !.out = <<TRUE>>])

(***************************************************************************)
(* Channel.                                                                *)
(***************************************************************************)
pka_listener_channel_add_source(a, channel, source) ==
  IfFound(pka_manager_find_channel(a, channel),
    IfFound(pka_manager_find_source(a, source),
      pka_channel_add_source(a, channel, source)))
pka_listener_channel_get_args(a, channel) ==
  IfFound(pka_manager_find_channel(a, channel),
    Ok(a, <<a.channels[channel].args>>))
pka_listener_channel_get_created_at(a, channel) ==
  IfFound(pka_manager_find_channel(a, channel),
    Ok(a, <<a.channels[channel].created_at>>))
pka_listener_channel_get_env(a, channel) ==
  IfFound(pka_manager_find_channel(a, channel),
    Ok(a, <<a.channels[channel].env>>))
pka_listener_channel_get_exit_status(a, channel) ==
  IfFound(pka_manager_find_channel(a, channel),
    pka_channel_get_exit_status(a, channel))
pka_listener_channel_get_kill_pid(a, channel) ==
  IfFound(pka_manager_find_channel(a, channel),
    Ok(a, <<a.channels[channel].kill_pid>>))
pka_listener_channel_get_pid(a, channel) ==
  IfFound(pka_manager_find_channel(a, channel),
    Ok(a, <<a.channels[channel].pid>>))
\* The _async function never stores the channel: the call record is zeroed,
\* so it is always channel 0 that is asked.
pka_listener_channel_get_pid_set(a, channel) ==
  IfFound(pka_manager_find_channel(a, 0),
    Ok(a, <<a.channels[0].pid_set>>))
pka_listener_channel_get_sources(a, channel) ==
  IfFound(pka_manager_find_channel(a, channel),
    Ok(a, <<pka_channel_get_sources(a, channel)>>))
pka_listener_channel_get_state(a, channel) ==
  IfFound(pka_manager_find_channel(a, channel),
    Ok(a, <<a.channels[channel].state>>))
pka_listener_channel_get_target(a, channel) ==
  IfFound(pka_manager_find_channel(a, channel),
    Ok(a, <<a.channels[channel].target>>))
pka_listener_channel_get_working_dir(a, channel) ==
  IfFound(pka_manager_find_channel(a, channel),
    Ok(a, <<a.channels[channel].working_dir>>))
pka_listener_channel_mute(a, channel) ==
  IfFound(pka_manager_find_channel(a, channel),
    pka_channel_mute(a, channel))
pka_listener_channel_set_args(a, channel, args) ==
  IfFound(pka_manager_find_channel(a, channel),
    pka_channel_set_args(a, channel, args))
pka_listener_channel_set_env(a, channel, env) ==
  IfFound(pka_manager_find_channel(a, channel),
    pka_channel_set_env(a, channel, env))
pka_listener_channel_set_kill_pid(a, channel, kill_pid) ==
  IfFound(pka_manager_find_channel(a, channel),
    pka_channel_set_kill_pid(a, channel, kill_pid))
pka_listener_channel_set_pid(a, channel, pid) ==
  IfFound(pka_manager_find_channel(a, channel),
    pka_channel_set_pid(a, channel, pid))
pka_listener_channel_set_target(a, channel, target) ==
  IfFound(pka_manager_find_channel(a, channel),
    pka_channel_set_target(a, channel, target))
pka_listener_channel_set_working_dir(a, channel, working_dir) ==
  IfFound(pka_manager_find_channel(a, channel),
    pka_channel_set_working_dir(a, channel, working_dir))
pka_listener_channel_start(a, channel, spawned) ==
  IfFound(pka_manager_find_channel(a, channel),
    pka_channel_start(a, channel, spawned))
pka_listener_channel_stop(a, channel) ==
  IfFound(pka_manager_find_channel(a, channel),
    pka_channel_stop(a, channel))
pka_listener_channel_unmute(a, channel) ==
  IfFound(pka_manager_find_channel(a, channel),
    pka_channel_unmute(a, channel))

(***************************************************************************)
(* Source.                                                                 *)
(***************************************************************************)
pka_listener_source_get_plugin(a, source) ==
  IfFound(pka_manager_find_source(a, source),
    Ok(a, <<a.sources[source].plugin>>))

(***************************************************************************)
(* Encoder.                                                                *)
(***************************************************************************)
\* The _finish function is a stub that stores nothing.
pka_listener_encoder_get_plugin(a, encoder) == Ok(a, <<NULL>>)

(***************************************************************************)
(* Plugin.                                                                 *)
(***************************************************************************)
pka_listener_plugin_get_copyright(a, plugin) ==
  IfFound(pka_manager_find_plugin(a, plugin),
    Ok(a, <<PluginInfo[plugin].copyright>>))
pka_listener_plugin_get_description(a, plugin) ==
  IfFound(pka_manager_find_plugin(a, plugin),
    Ok(a, <<PluginInfo[plugin].description>>))
pka_listener_plugin_get_name(a, plugin) ==
  IfFound(pka_manager_find_plugin(a, plugin),
    Ok(a, <<PluginInfo[plugin].name>>))
pka_listener_plugin_get_plugin_type(a, plugin) ==
  IfFound(pka_manager_find_plugin(a, plugin),
    Ok(a, <<PluginInfo[plugin].type>>))
pka_listener_plugin_get_version(a, plugin) ==
  IfFound(pka_manager_find_plugin(a, plugin),
    Ok(a, <<PluginInfo[plugin].version>>))

(***************************************************************************)
(* Subscription.                                                           *)
(***************************************************************************)
\* monitor is kept in the call record and not read.
pka_listener_subscription_add_channel(a, subscription, channel, monitor) ==
  IfFound(pka_manager_find_subscription(a, subscription),
    IfFound(pka_manager_find_channel(a, channel),
      pka_subscription_add_channel(a, subscription, channel)))
pka_listener_subscription_add_source(a, subscription, source) ==
  IfFound(pka_manager_find_subscription(a, subscription),
    IfFound(pka_manager_find_source(a, source),
      pka_subscription_add_source(a, subscription, source)))
pka_listener_subscription_get_buffer(a, subscription) ==
  IfFound(pka_manager_find_subscription(a, subscription),
    Ok(a, <<a.subscriptions[subscription].timeout,
            a.subscriptions[subscription].size>>))
pka_listener_subscription_get_created_at(a, subscription) ==
  IfFound(pka_manager_find_subscription(a, subscription),
    Ok(a, <<a.subscriptions[subscription].created_at>>))
pka_listener_subscription_get_sources(a, subscription) ==
  IfFound(pka_manager_find_subscription(a, subscription),
    Ok(a, <<pka_subscription_get_sources(a, subscription)>>))
pka_listener_subscription_mute(a, subscription, drain) ==
  IfFound(pka_manager_find_subscription(a, subscription),
    pka_subscription_mute(a, subscription, drain))
pka_listener_subscription_remove_channel(a, subscription, channel) ==
  IfFound(pka_manager_find_subscription(a, subscription),
    IfFound(pka_manager_find_channel(a, channel),
      pka_subscription_remove_channel(a, subscription, channel)))
pka_listener_subscription_remove_source(a, subscription, source) ==
  IfFound(pka_manager_find_subscription(a, subscription),
    IfFound(pka_manager_find_source(a, source),
      pka_subscription_remove_source(a, subscription, source)))
pka_listener_subscription_set_buffer(a, subscription, timeout, size) ==
  IfFound(pka_manager_find_subscription(a, subscription),
    pka_subscription_set_buffer(a, subscription, timeout, size))
pka_listener_subscription_unmute(a, subscription) ==
  IfFound(pka_manager_find_subscription(a, subscription),
    pka_subscription_unmute(a, subscription))

(***************************************************************************)
(* The procedure op, called with the arguments in.                         *)
(***************************************************************************)
Performed(a, op, in, spawned) ==
  CASE op = "manager_add_channel" -> pka_listener_manager_add_channel(a)
    [] op = "manager_add_source" -> pka_listener_manager_add_source(a, in[1])
    [] op = "manager_add_subscription" ->
         pka_listener_manager_add_subscription(a, in[1], in[2])
    [] op = "manager_get_channels" -> pka_listener_manager_get_channels(a)
    [] op = "manager_get_hostname" -> pka_listener_manager_get_hostname(a)
    [] op = "manager_get_plugins" -> pka_listener_manager_get_plugins(a)
    [] op = "manager_get_sources" -> pka_listener_manager_get_sources(a)
    [] op = "manager_get_subscriptions" ->
         pka_listener_manager_get_subscriptions(a)
    [] op = "manager_get_version" -> pka_listener_manager_get_version(a)
    [] op = "manager_ping" -> pka_listener_manager_ping(a)
    [] op = "manager_remove_channel" ->
         pka_listener_manager_remove_channel(a, in[1])
    [] op = "manager_remove_source" ->
         pka_listener_manager_remove_source(a, in[1])
    [] op = "manager_remove_subscription" ->
         pka_listener_manager_remove_subscription(a, in[1])
    [] op = "channel_add_source" ->
         pka_listener_channel_add_source(a, in[1], in[2])
    [] op = "channel_get_args" -> pka_listener_channel_get_args(a, in[1])
    [] op = "channel_get_created_at" ->
         pka_listener_channel_get_created_at(a, in[1])
    [] op = "channel_get_env" -> pka_listener_channel_get_env(a, in[1])
    [] op = "channel_get_exit_status" ->
         pka_listener_channel_get_exit_status(a, in[1])
    [] op = "channel_get_kill_pid" ->
         pka_listener_channel_get_kill_pid(a, in[1])
    [] op = "channel_get_pid" -> pka_listener_channel_get_pid(a, in[1])
    [] op = "channel_get_pid_set" -> pka_listener_channel_get_pid_set(a, in[1])
    [] op = "channel_get_sources" -> pka_listener_channel_get_sources(a, in[1])
    [] op = "channel_get_state" -> pka_listener_channel_get_state(a, in[1])
    [] op = "channel_get_target" -> pka_listener_channel_get_target(a, in[1])
    [] op = "channel_get_working_dir" ->
         pka_listener_channel_get_working_dir(a, in[1])
    [] op = "channel_mute" -> pka_listener_channel_mute(a, in[1])
    [] op = "channel_set_args" ->
         pka_listener_channel_set_args(a, in[1], in[2])
    [] op = "channel_set_env" -> pka_listener_channel_set_env(a, in[1], in[2])
    [] op = "channel_set_kill_pid" ->
         pka_listener_channel_set_kill_pid(a, in[1], in[2])
    [] op = "channel_set_pid" -> pka_listener_channel_set_pid(a, in[1], in[2])
    [] op = "channel_set_target" ->
         pka_listener_channel_set_target(a, in[1], in[2])
    [] op = "channel_set_working_dir" ->
         pka_listener_channel_set_working_dir(a, in[1], in[2])
    [] op = "channel_start" -> pka_listener_channel_start(a, in[1], spawned)
    [] op = "channel_stop" -> pka_listener_channel_stop(a, in[1])
    [] op = "channel_unmute" -> pka_listener_channel_unmute(a, in[1])
    [] op = "source_get_plugin" -> pka_listener_source_get_plugin(a, in[1])
    [] op = "encoder_get_plugin" -> pka_listener_encoder_get_plugin(a, in[1])
    [] op = "plugin_get_copyright" ->
         pka_listener_plugin_get_copyright(a, in[1])
    [] op = "plugin_get_description" ->
         pka_listener_plugin_get_description(a, in[1])
    [] op = "plugin_get_name" -> pka_listener_plugin_get_name(a, in[1])
    [] op = "plugin_get_plugin_type" ->
         pka_listener_plugin_get_plugin_type(a, in[1])
    [] op = "plugin_get_version" -> pka_listener_plugin_get_version(a, in[1])
    [] op = "subscription_add_channel" ->
         pka_listener_subscription_add_channel(a, in[1], in[2], in[3])
    [] op = "subscription_add_source" ->
         pka_listener_subscription_add_source(a, in[1], in[2])
    [] op = "subscription_get_buffer" ->
         pka_listener_subscription_get_buffer(a, in[1])
    [] op = "subscription_get_created_at" ->
         pka_listener_subscription_get_created_at(a, in[1])
    [] op = "subscription_get_sources" ->
         pka_listener_subscription_get_sources(a, in[1])
    [] op = "subscription_mute" ->
         pka_listener_subscription_mute(a, in[1], in[2])
    [] op = "subscription_remove_channel" ->
         pka_listener_subscription_remove_channel(a, in[1], in[2])
    [] op = "subscription_remove_source" ->
         pka_listener_subscription_remove_source(a, in[1], in[2])
    [] op = "subscription_set_buffer" ->
         pka_listener_subscription_set_buffer(a, in[1], in[2], in[3])
    [] op = "subscription_unmute" -> pka_listener_subscription_unmute(a, in[1])
=============================================================================
