------------------------------- MODULE PkObjects -------------------------------
(***************************************************************************)
(* The objects of the client library: pk-channel.c, pk-subscription.c,     *)
(* pk-source.c, pk-encoder.c, pk-plugin.c and pk-manager.c in perfkit/.    *)
(* Each object keeps a number and a connection; a method, its callback and *)
(* its _async and _finish forms pass the call on to the connection.        *)
(***************************************************************************)
EXTENDS PkConnectionCalls

Object(id, connection) == [id |-> id, connection |-> connection]

\* What an object has of the connection it is constructed with: set_property
\* knows "id" only, "connection" ends in a warning, and the field keeps the
\* NULL that the object starts with.
ConstructedWith(connection) == NULL

\* g_return_val_if_fail(PK_IS_CONNECTION(connection), FALSE): no call is made.
NoCall == [slot |-> NULL, in |-> <<>>]
On(object, rpc) == IF object.connection = NULL THEN NoCall ELSE rpc

pk_manager_get_plugins(manager) ==
  On(manager, pk_connection_manager_get_plugins)

(***************************************************************************)
(* Channel.                                                                *)
(***************************************************************************)
pk_channel_add_source(channel, source) ==
  On(channel, pk_connection_channel_add_source(channel.id, source.id))
pk_channel_get_args(channel) ==
  On(channel, pk_connection_channel_get_args(channel.id))
pk_channel_get_env(channel) ==
  On(channel, pk_connection_channel_get_env(channel.id))
pk_channel_get_exit_status(channel) ==
  On(channel, pk_connection_channel_get_exit_status(channel.id))
pk_channel_get_kill_pid(channel) ==
  On(channel, pk_connection_channel_get_kill_pid(channel.id))
pk_channel_get_pid(channel) ==
  On(channel, pk_connection_channel_get_pid(channel.id))
pk_channel_get_pid_set(channel) ==
  On(channel, pk_connection_channel_get_pid_set(channel.id))
pk_channel_get_sources(channel) ==
  On(channel, pk_connection_channel_get_sources(channel.id))
pk_channel_get_state(channel) ==
  On(channel, pk_connection_channel_get_state(channel.id))
pk_channel_get_target(channel) ==
  On(channel, pk_connection_channel_get_target(channel.id))
pk_channel_get_working_dir(channel) ==
  On(channel, pk_connection_channel_get_working_dir(channel.id))
pk_channel_mute(channel) == On(channel, pk_connection_channel_mute(channel.id))
pk_channel_set_args(channel, args) ==
  On(channel, pk_connection_channel_set_args(channel.id, args))
pk_channel_set_env(channel, env) ==
  On(channel, pk_connection_channel_set_env(channel.id, env))
pk_channel_set_kill_pid(channel, kill_pid) ==
  On(channel, pk_connection_channel_set_kill_pid(channel.id, kill_pid))
pk_channel_set_pid(channel, pid) ==
  On(channel, pk_connection_channel_set_pid(channel.id, pid))
pk_channel_set_target(channel, target) ==
  On(channel, pk_connection_channel_set_target(channel.id, target))
pk_channel_set_working_dir(channel, working_dir) ==
  On(channel, pk_connection_channel_set_working_dir(channel.id, working_dir))
pk_channel_start(channel) ==
  On(channel, pk_connection_channel_start(channel.id))
pk_channel_stop(channel) == On(channel, pk_connection_channel_stop(channel.id))
pk_channel_unmute(channel) ==
  On(channel, pk_connection_channel_unmute(channel.id))

(***************************************************************************)
(* Source.                                                                 *)
(***************************************************************************)
pk_source_get_plugin(source) ==
  On(source, pk_connection_source_get_plugin(source.id))

(***************************************************************************)
(* Encoder.                                                                *)
(***************************************************************************)
pk_encoder_get_plugin(encoder) ==
  On(encoder, pk_connection_encoder_get_plugin(encoder.id))

(***************************************************************************)
(* Plugin.                                                                 *)
(***************************************************************************)
pk_plugin_get_copyright(plugin) ==
  On(plugin, pk_connection_plugin_get_copyright(plugin.id))
pk_plugin_get_description(plugin) ==
  On(plugin, pk_connection_plugin_get_description(plugin.id))
pk_plugin_get_name(plugin) ==
  On(plugin, pk_connection_plugin_get_name(plugin.id))
pk_plugin_get_plugin_type(plugin) ==
  On(plugin, pk_connection_plugin_get_plugin_type(plugin.id))
pk_plugin_get_version(plugin) ==
  On(plugin, pk_connection_plugin_get_version(plugin.id))

(***************************************************************************)
(* Subscription.                                                           *)
(***************************************************************************)
pk_subscription_add_channel(subscription, channel, monitor) ==
  On(subscription,
     pk_connection_subscription_add_channel(subscription.id, channel.id, monitor))
pk_subscription_add_source(subscription, source) ==
  On(subscription,
     pk_connection_subscription_add_source(subscription.id, source.id))
pk_subscription_mute(subscription, drain) ==
  On(subscription, pk_connection_subscription_mute(subscription.id, drain))
pk_subscription_remove_channel(subscription, channel) ==
  On(subscription,
     pk_connection_subscription_remove_channel(subscription.id, channel.id))
pk_subscription_remove_source(subscription, source) ==
  On(subscription,
     pk_connection_subscription_remove_source(subscription.id, source.id))
pk_subscription_set_buffer(subscription, timeout, size) ==
  On(subscription,
     pk_connection_subscription_set_buffer(subscription.id, timeout, size))
pk_subscription_unmute(subscription) ==
  On(subscription, pk_connection_subscription_unmute(subscription.id))

(***************************************************************************)
(* The methods, on objects that have the given connection.                 *)
(***************************************************************************)
Methods == {"manager_get_plugins",
            "channel_add_source",
            "channel_get_args",
            "channel_get_env",
            "channel_get_exit_status",
            "channel_get_kill_pid",
            "channel_get_pid",
            "channel_get_pid_set",
            "channel_get_sources",
            "channel_get_state",
            "channel_get_target",
            "channel_get_working_dir",
            "channel_mute",
            "channel_set_args",
            "channel_set_env",
            "channel_set_kill_pid",
            "channel_set_pid",
            "channel_set_target",
            "channel_set_working_dir",
            "channel_start",
            "channel_stop",
            "channel_unmute",
            "source_get_plugin",
            "encoder_get_plugin",
            "plugin_get_copyright",
            "plugin_get_description",
            "plugin_get_name",
            "plugin_get_plugin_type",
            "plugin_get_version",
            "subscription_add_channel",
            "subscription_add_source",
            "subscription_mute",
            "subscription_remove_channel",
            "subscription_remove_source",
            "subscription_set_buffer",
            "subscription_unmute"}
MethodCalls(op, in, connection) ==
  LET object(id) == Object(id, connection) IN
  CASE op = "manager_get_plugins" -> pk_manager_get_plugins(object(NULL))
    [] op = "channel_add_source" ->
         pk_channel_add_source(object(in[1]), object(in[2]))
    [] op = "channel_get_args" -> pk_channel_get_args(object(in[1]))
    [] op = "channel_get_env" -> pk_channel_get_env(object(in[1]))
    [] op = "channel_get_exit_status" ->
         pk_channel_get_exit_status(object(in[1]))
    [] op = "channel_get_kill_pid" ->
         pk_channel_get_kill_pid(object(in[1]))
    [] op = "channel_get_pid" -> pk_channel_get_pid(object(in[1]))
    [] op = "channel_get_pid_set" -> pk_channel_get_pid_set(object(in[1]))
    [] op = "channel_get_sources" -> pk_channel_get_sources(object(in[1]))
    [] op = "channel_get_state" -> pk_channel_get_state(object(in[1]))
    [] op = "channel_get_target" -> pk_channel_get_target(object(in[1]))
    [] op = "channel_get_working_dir" ->
         pk_channel_get_working_dir(object(in[1]))
    [] op = "channel_mute" -> pk_channel_mute(object(in[1]))
    [] op = "channel_set_args" ->
         pk_channel_set_args(object(in[1]), in[2])
    [] op = "channel_set_env" -> pk_channel_set_env(object(in[1]), in[2])
    [] op = "channel_set_kill_pid" ->
         pk_channel_set_kill_pid(object(in[1]), in[2])
    [] op = "channel_set_pid" -> pk_channel_set_pid(object(in[1]), in[2])
    [] op = "channel_set_target" ->
         pk_channel_set_target(object(in[1]), in[2])
    [] op = "channel_set_working_dir" ->
         pk_channel_set_working_dir(object(in[1]), in[2])
    [] op = "channel_start" -> pk_channel_start(object(in[1]))
    [] op = "channel_stop" -> pk_channel_stop(object(in[1]))
    [] op = "channel_unmute" -> pk_channel_unmute(object(in[1]))
    [] op = "source_get_plugin" -> pk_source_get_plugin(object(in[1]))
    [] op = "encoder_get_plugin" -> pk_encoder_get_plugin(object(in[1]))
    [] op = "plugin_get_copyright" ->
         pk_plugin_get_copyright(object(in[1]))
    [] op = "plugin_get_description" ->
         pk_plugin_get_description(object(in[1]))
    [] op = "plugin_get_name" -> pk_plugin_get_name(object(in[1]))
    [] op = "plugin_get_plugin_type" ->
         pk_plugin_get_plugin_type(object(in[1]))
    [] op = "plugin_get_version" -> pk_plugin_get_version(object(in[1]))
    [] op = "subscription_add_channel" ->
         pk_subscription_add_channel(object(in[1]), object(in[2]),
                                     in[3])
    [] op = "subscription_add_source" ->
         pk_subscription_add_source(object(in[1]), object(in[2]))
    [] op = "subscription_mute" ->
         pk_subscription_mute(object(in[1]), in[2])
    [] op = "subscription_remove_channel" ->
         pk_subscription_remove_channel(object(in[1]), object(in[2]))
    [] op = "subscription_remove_source" ->
         pk_subscription_remove_source(object(in[1]), object(in[2]))
    [] op = "subscription_set_buffer" ->
         pk_subscription_set_buffer(object(in[1]), in[2], in[3])
    [] op = "subscription_unmute" -> pk_subscription_unmute(object(in[1]))
=============================================================================
