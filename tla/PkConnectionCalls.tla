-------------------------- MODULE PkConnectionCalls --------------------------
(***************************************************************************)
(* The remote procedures of the client library, perfkit/pk-connection.c.   *)
(* Each comes as a blocking function, the callback that ends the blocking, *)
(* an _async function and a _finish function; all four go through the slot *)
(* of the connection's class that has the procedure's name, with the       *)
(* arguments in the order in which they were given and the results in the  *)
(* order in which they are stored.  How the blocking form waits is         *)
(* PkConnection; here is which call it is that is made.                    *)
(***************************************************************************)
EXTENDS PkValues

Rpc(slot, in) == [slot |-> slot, in |-> in]

(***************************************************************************)
(* Manager.                                                                *)
(***************************************************************************)
pk_connection_manager_add_channel == Rpc("manager_add_channel", <<>>)
pk_connection_manager_add_source(plugin) ==
  Rpc("manager_add_source", <<plugin>>)
pk_connection_manager_add_subscription(buffer_size, timeout) ==
  Rpc("manager_add_subscription", <<buffer_size, timeout>>)
pk_connection_manager_get_channels == Rpc("manager_get_channels", <<>>)
pk_connection_manager_get_hostname == Rpc("manager_get_hostname", <<>>)
pk_connection_manager_get_plugins == Rpc("manager_get_plugins", <<>>)
pk_connection_manager_get_sources == Rpc("manager_get_sources", <<>>)
pk_connection_manager_get_subscriptions ==
  Rpc("manager_get_subscriptions", <<>>)
pk_connection_manager_get_version == Rpc("manager_get_version", <<>>)
pk_connection_manager_ping == Rpc("manager_ping", <<>>)
pk_connection_manager_remove_channel(channel) ==
  Rpc("manager_remove_channel", <<channel>>)
pk_connection_manager_remove_source(source) ==
  Rpc("manager_remove_source", <<source>>)
pk_connection_manager_remove_subscription(subscription) ==
  Rpc("manager_remove_subscription", <<subscription>>)

(***************************************************************************)
(* Channel.                                                                *)
(***************************************************************************)
pk_connection_channel_add_source(channel, source) ==
  Rpc("channel_add_source", <<channel, source>>)
pk_connection_channel_get_args(channel) == Rpc("channel_get_args", <<channel>>)
pk_connection_channel_get_created_at(channel) ==
  Rpc("channel_get_created_at", <<channel>>)
pk_connection_channel_get_env(channel) == Rpc("channel_get_env", <<channel>>)
pk_connection_channel_get_exit_status(channel) ==
  Rpc("channel_get_exit_status", <<channel>>)
pk_connection_channel_get_kill_pid(channel) ==
  Rpc("channel_get_kill_pid", <<channel>>)
pk_connection_channel_get_pid(channel) == Rpc("channel_get_pid", <<channel>>)
pk_connection_channel_get_pid_set(channel) ==
  Rpc("channel_get_pid_set", <<channel>>)
pk_connection_channel_get_sources(channel) ==
  Rpc("channel_get_sources", <<channel>>)
pk_connection_channel_get_state(channel) ==
  Rpc("channel_get_state", <<channel>>)
pk_connection_channel_get_target(channel) ==
  Rpc("channel_get_target", <<channel>>)
pk_connection_channel_get_working_dir(channel) ==
  Rpc("channel_get_working_dir", <<channel>>)
pk_connection_channel_mute(channel) == Rpc("channel_mute", <<channel>>)
pk_connection_channel_set_args(channel, args) ==
  Rpc("channel_set_args", <<channel, args>>)
pk_connection_channel_set_env(channel, env) ==
  Rpc("channel_set_env", <<channel, env>>)
pk_connection_channel_set_kill_pid(channel, kill_pid) ==
  Rpc("channel_set_kill_pid", <<channel, kill_pid>>)
pk_connection_channel_set_pid(channel, pid) ==
  Rpc("channel_set_pid", <<channel, pid>>)
pk_connection_channel_set_target(channel, target) ==
  Rpc("channel_set_target", <<channel, target>>)
pk_connection_channel_set_working_dir(channel, working_dir) ==
  Rpc("channel_set_working_dir", <<channel, working_dir>>)
pk_connection_channel_start(channel) == Rpc("channel_start", <<channel>>)
pk_connection_channel_stop(channel) == Rpc("channel_stop", <<channel>>)
pk_connection_channel_unmute(channel) == Rpc("channel_unmute", <<channel>>)

(***************************************************************************)
(* Source.                                                                 *)
(***************************************************************************)
pk_connection_source_get_plugin(source) == Rpc("source_get_plugin", <<source>>)

(***************************************************************************)
(* Encoder.                                                                *)
(***************************************************************************)
pk_connection_encoder_get_plugin(encoder) ==
  Rpc("encoder_get_plugin", <<encoder>>)

(***************************************************************************)
(* Plugin.                                                                 *)
(***************************************************************************)
pk_connection_plugin_get_copyright(plugin) ==
  Rpc("plugin_get_copyright", <<plugin>>)
pk_connection_plugin_get_description(plugin) ==
  Rpc("plugin_get_description", <<plugin>>)
pk_connection_plugin_get_name(plugin) == Rpc("plugin_get_name", <<plugin>>)
pk_connection_plugin_get_plugin_type(plugin) ==
  Rpc("plugin_get_plugin_type", <<plugin>>)
pk_connection_plugin_get_version(plugin) ==
  Rpc("plugin_get_version", <<plugin>>)

(***************************************************************************)
(* Subscription.                                                           *)
(***************************************************************************)
pk_connection_subscription_add_channel(subscription, channel, monitor) ==
  Rpc("subscription_add_channel", <<subscription, channel, monitor>>)
pk_connection_subscription_add_source(subscription, source) ==
  Rpc("subscription_add_source", <<subscription, source>>)
pk_connection_subscription_get_buffer(subscription) ==
  Rpc("subscription_get_buffer", <<subscription>>)
pk_connection_subscription_get_created_at(subscription) ==
  Rpc("subscription_get_created_at", <<subscription>>)
pk_connection_subscription_get_sources(subscription) ==
  Rpc("subscription_get_sources", <<subscription>>)
pk_connection_subscription_mute(subscription, drain) ==
  Rpc("subscription_mute", <<subscription, drain>>)
pk_connection_subscription_remove_channel(subscription, channel) ==
  Rpc("subscription_remove_channel", <<subscription, channel>>)
pk_connection_subscription_remove_source(subscription, source) ==
  Rpc("subscription_remove_source", <<subscription, source>>)
pk_connection_subscription_set_buffer(subscription, timeout, size) ==
  Rpc("subscription_set_buffer", <<subscription, timeout, size>>)
pk_connection_subscription_unmute(subscription) ==
  Rpc("subscription_unmute", <<subscription>>)

(***************************************************************************)
(* The procedures by the number of their arguments.  A vector that is an   *)
(* argument is read up to its end: NULL ends the program.                  *)
(***************************************************************************)
Nullary ==
  {"manager_add_channel", "manager_get_channels", "manager_get_hostname",
   "manager_get_plugins", "manager_get_sources",
   "manager_get_subscriptions", "manager_get_version", "manager_ping"}
Unary ==
  {"manager_add_source", "manager_remove_channel", "manager_remove_source",
   "manager_remove_subscription", "channel_get_args",
   "channel_get_created_at", "channel_get_env", "channel_get_exit_status",
   "channel_get_kill_pid", "channel_get_pid", "channel_get_pid_set",
   "channel_get_sources", "channel_get_state", "channel_get_target",
   "channel_get_working_dir", "channel_mute", "channel_start",
   "channel_stop", "channel_unmute", "source_get_plugin",
   "encoder_get_plugin", "plugin_get_copyright", "plugin_get_description",
   "plugin_get_name", "plugin_get_plugin_type", "plugin_get_version",
   "subscription_get_buffer", "subscription_get_created_at",
   "subscription_get_sources", "subscription_unmute"}
Binary ==
  {"manager_add_subscription", "channel_add_source", "channel_set_args",
   "channel_set_env", "channel_set_kill_pid", "channel_set_pid",
   "channel_set_target", "channel_set_working_dir",
   "subscription_add_source", "subscription_mute",
   "subscription_remove_channel", "subscription_remove_source"}
Ternary ==
  {"subscription_add_channel", "subscription_set_buffer"}

IsCall(want) ==
  /\ \/ want.op \in Nullary /\ want.in = <<>>
     \/ want.op \in Unary /\ want.in = <<want.in[1]>>
     \/ want.op \in Binary /\ want.in = <<want.in[1], want.in[2]>>
     \/ want.op \in Ternary /\ want.in = <<want.in[1], want.in[2], want.in[3]>>
  /\ want.op \in {"channel_set_args", "channel_set_env"} => want.in[2] # NULL

(***************************************************************************)
(* A caller that wants the procedure op done with the arguments in.        *)
(***************************************************************************)
Calls(op, in) ==
  CASE op = "manager_add_channel" -> pk_connection_manager_add_channel
    [] op = "manager_add_source" -> pk_connection_manager_add_source(in[1])
    [] op = "manager_add_subscription" ->
         pk_connection_manager_add_subscription(in[1], in[2])
    [] op = "manager_get_channels" -> pk_connection_manager_get_channels
    [] op = "manager_get_hostname" -> pk_connection_manager_get_hostname
    [] op = "manager_get_plugins" -> pk_connection_manager_get_plugins
    [] op = "manager_get_sources" -> pk_connection_manager_get_sources
    [] op = "manager_get_subscriptions" ->
         pk_connection_manager_get_subscriptions
    [] op = "manager_get_version" -> pk_connection_manager_get_version
    [] op = "manager_ping" -> pk_connection_manager_ping
    [] op = "manager_remove_channel" ->
         pk_connection_manager_remove_channel(in[1])
    [] op = "manager_remove_source" ->
         pk_connection_manager_remove_source(in[1])
    [] op = "manager_remove_subscription" ->
         pk_connection_manager_remove_subscription(in[1])
    [] op = "channel_add_source" ->
         pk_connection_channel_add_source(in[1], in[2])
    [] op = "channel_get_args" -> pk_connection_channel_get_args(in[1])
    [] op = "channel_get_created_at" ->
         pk_connection_channel_get_created_at(in[1])
    [] op = "channel_get_env" -> pk_connection_channel_get_env(in[1])
    [] op = "channel_get_exit_status" ->
         pk_connection_channel_get_exit_status(in[1])
    [] op = "channel_get_kill_pid" -> pk_connection_channel_get_kill_pid(in[1])
    [] op = "channel_get_pid" -> pk_connection_channel_get_pid(in[1])
    [] op = "channel_get_pid_set" -> pk_connection_channel_get_pid_set(in[1])
    [] op = "channel_get_sources" -> pk_connection_channel_get_sources(in[1])
    [] op = "channel_get_state" -> pk_connection_channel_get_state(in[1])
    [] op = "channel_get_target" -> pk_connection_channel_get_target(in[1])
    [] op = "channel_get_working_dir" ->
         pk_connection_channel_get_working_dir(in[1])
    [] op = "channel_mute" -> pk_connection_channel_mute(in[1])
    [] op = "channel_set_args" -> pk_connection_channel_set_args(in[1], in[2])
    [] op = "channel_set_env" -> pk_connection_channel_set_env(in[1], in[2])
    [] op = "channel_set_kill_pid" ->
         pk_connection_channel_set_kill_pid(in[1], in[2])
    [] op = "channel_set_pid" -> pk_connection_channel_set_pid(in[1], in[2])
    [] op = "channel_set_target" ->
         pk_connection_channel_set_target(in[1], in[2])
    [] op = "channel_set_working_dir" ->
         pk_connection_channel_set_working_dir(in[1], in[2])
    [] op = "channel_start" -> pk_connection_channel_start(in[1])
    [] op = "channel_stop" -> pk_connection_channel_stop(in[1])
    [] op = "channel_unmute" -> pk_connection_channel_unmute(in[1])
    [] op = "source_get_plugin" -> pk_connection_source_get_plugin(in[1])
    [] op = "encoder_get_plugin" -> pk_connection_encoder_get_plugin(in[1])
    [] op = "plugin_get_copyright" -> pk_connection_plugin_get_copyright(in[1])
    [] op = "plugin_get_description" ->
         pk_connection_plugin_get_description(in[1])
    [] op = "plugin_get_name" -> pk_connection_plugin_get_name(in[1])
    [] op = "plugin_get_plugin_type" ->
         pk_connection_plugin_get_plugin_type(in[1])
    [] op = "plugin_get_version" -> pk_connection_plugin_get_version(in[1])
    [] op = "subscription_add_channel" ->
         pk_connection_subscription_add_channel(in[1], in[2], in[3])
    [] op = "subscription_add_source" ->
         pk_connection_subscription_add_source(in[1], in[2])
    [] op = "subscription_get_buffer" ->
         pk_connection_subscription_get_buffer(in[1])
    [] op = "subscription_get_created_at" ->
         pk_connection_subscription_get_created_at(in[1])
    [] op = "subscription_get_sources" ->
         pk_connection_subscription_get_sources(in[1])
    [] op = "subscription_mute" ->
         pk_connection_subscription_mute(in[1], in[2])
    [] op = "subscription_remove_channel" ->
         pk_connection_subscription_remove_channel(in[1], in[2])
    [] op = "subscription_remove_source" ->
         pk_connection_subscription_remove_source(in[1], in[2])
    [] op = "subscription_set_buffer" ->
         pk_connection_subscription_set_buffer(in[1], in[2], in[3])
    [] op = "subscription_unmute" -> pk_connection_subscription_unmute(in[1])
=============================================================================
