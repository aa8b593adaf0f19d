--------------------------- MODULE PkConnectionDBus ---------------------------
(***************************************************************************)
(* The calls of the client library on the wire                             *)
(* (perfkit/connections/pk-connection-dbus.c): for every remote procedure, *)
(* the message that its _async function sends and what its _finish         *)
(* function makes of the answer.                                           *)
(***************************************************************************)
EXTENDS DBusMessages

\* What a _finish function gives back: the values it stored, or an error.
Returned(out)       == [ok |-> TRUE, out |-> out, error |-> NULL]
Refused(name, text) == [ok |-> FALSE, out |-> <<>>, error |-> <<name, text>>]

\* Every _finish function starts with these two tests; a reply without values
\* is not looked into.
Decode(reply, signature, out) ==
  IF reply.type = "error" THEN Refused(reply.name, Arg(reply, 1))
  ELSE IF Matches(signature, reply.args) THEN Returned(out)
  ELSE Refused("InvalidArgs", NULL)

Done(reply)  == Decode(reply, <<>>, <<>>)
Value(reply, type) == Decode(reply, <<type>>, <<Arg(reply, 1)>>)
Time(reply)  == Decode(reply, <<"s">>, <<FromIso8601(Arg(reply, 1))>>)
Id(reply, object, before) ==
  Decode(reply, <<"o">>, <<Scan(object, Arg(reply, 1), before)>>)
Ids(reply, object) ==
  Decode(reply, <<"ao">>, <<ScanAll(object, Arg(reply, 1))>>)

(***************************************************************************)
(* Manager.                                                                *)
(***************************************************************************)
pk_connection_dbus_manager_add_channel_async ==
  MethodCall(ManagerPath, "Manager", "AddChannel", <<>>)
pk_connection_dbus_manager_add_channel_finish(reply) == Id(reply, "Channel", 0)
pk_connection_dbus_manager_add_source_async(plugin) ==
  MethodCall(ManagerPath, "Manager", "AddSource",
             <<ObjectPath(Path("Plugin", plugin))>>)
pk_connection_dbus_manager_add_source_finish(reply) == Id(reply, "Source", 0)
pk_connection_dbus_manager_add_subscription_async(buffer_size, timeout) ==
  MethodCall(ManagerPath, "Manager", "AddSubscription",
             <<Int32(buffer_size), Int32(timeout)>>)
pk_connection_dbus_manager_add_subscription_finish(reply) ==
  Id(reply, "Subscription", 0)
pk_connection_dbus_manager_get_channels_async ==
  MethodCall(ManagerPath, "Manager", "GetChannels", <<>>)
pk_connection_dbus_manager_get_channels_finish(reply) == Ids(reply, "Channel")
pk_connection_dbus_manager_get_hostname_async ==
  MethodCall(ManagerPath, "Manager", "GetHostname", <<>>)
pk_connection_dbus_manager_get_hostname_finish(reply) == Value(reply, "s")
pk_connection_dbus_manager_get_plugins_async ==
  MethodCall(ManagerPath, "Manager", "GetPlugins", <<>>)
pk_connection_dbus_manager_get_plugins_finish(reply) == Ids(reply, "Plugin")
pk_connection_dbus_manager_get_sources_async ==
  MethodCall(ManagerPath, "Manager", "GetSources", <<>>)
pk_connection_dbus_manager_get_sources_finish(reply) == Ids(reply, "Source")
pk_connection_dbus_manager_get_subscriptions_async ==
  MethodCall(ManagerPath, "Manager", "GetSubscriptions", <<>>)
pk_connection_dbus_manager_get_subscriptions_finish(reply) ==
  Ids(reply, "Subscription")
pk_connection_dbus_manager_get_version_async ==
  MethodCall(ManagerPath, "Manager", "GetVersion", <<>>)
pk_connection_dbus_manager_get_version_finish(reply) == Value(reply, "s")
pk_connection_dbus_manager_ping_async ==
  MethodCall(ManagerPath, "Manager", "Ping", <<>>)
pk_connection_dbus_manager_ping_finish(reply) == Time(reply)
pk_connection_dbus_manager_remove_channel_async(channel) ==
  MethodCall(ManagerPath, "Manager", "RemoveChannel", <<Int32(channel)>>)
pk_connection_dbus_manager_remove_channel_finish(reply) == Value(reply, "b")
pk_connection_dbus_manager_remove_source_async(source) ==
  MethodCall(ManagerPath, "Manager", "RemoveSource",
             <<ObjectPath(Path("Source", source))>>)
pk_connection_dbus_manager_remove_source_finish(reply) == Done(reply)
pk_connection_dbus_manager_remove_subscription_async(subscription) ==
  MethodCall(ManagerPath, "Manager", "RemoveSubscription",
             <<ObjectPath(Path("Subscription", subscription))>>)
pk_connection_dbus_manager_remove_subscription_finish(reply) ==
  Value(reply, "b")

(***************************************************************************)
(* Channel.                                                                *)
(***************************************************************************)
pk_connection_dbus_channel_add_source_async(channel, source) ==
  MethodCall(Path("Channel", channel), "Channel", "AddSource",
             <<Int32(source)>>)
pk_connection_dbus_channel_add_source_finish(reply) == Done(reply)
pk_connection_dbus_channel_get_args_async(channel) ==
  MethodCall(Path("Channel", channel), "Channel", "GetArgs", <<>>)
pk_connection_dbus_channel_get_args_finish(reply) == Value(reply, "as")
pk_connection_dbus_channel_get_created_at_async(channel) ==
  MethodCall(Path("Channel", channel), "Channel", "GetCreatedAt", <<>>)
pk_connection_dbus_channel_get_created_at_finish(reply) == Time(reply)
pk_connection_dbus_channel_get_env_async(channel) ==
  MethodCall(Path("Channel", channel), "Channel", "GetEnv", <<>>)
pk_connection_dbus_channel_get_env_finish(reply) == Value(reply, "as")
pk_connection_dbus_channel_get_exit_status_async(channel) ==
  MethodCall(Path("Channel", channel), "Channel", "GetExitStatus", <<>>)
pk_connection_dbus_channel_get_exit_status_finish(reply) == Value(reply, "i")
pk_connection_dbus_channel_get_kill_pid_async(channel) ==
  MethodCall(Path("Channel", channel), "Channel", "GetKillPid", <<>>)
pk_connection_dbus_channel_get_kill_pid_finish(reply) == Value(reply, "b")
pk_connection_dbus_channel_get_pid_async(channel) ==
  MethodCall(Path("Channel", channel), "Channel", "GetPid", <<>>)
pk_connection_dbus_channel_get_pid_finish(reply) == Value(reply, "i")
pk_connection_dbus_channel_get_pid_set_async(channel) ==
  MethodCall(Path("Channel", channel), "Channel", "GetPidSet", <<>>)
pk_connection_dbus_channel_get_pid_set_finish(reply) == Value(reply, "b")
pk_connection_dbus_channel_get_sources_async(channel) ==
  MethodCall(Path("Channel", channel), "Channel", "GetSources", <<>>)
pk_connection_dbus_channel_get_sources_finish(reply) == Ids(reply, "Source")
pk_connection_dbus_channel_get_state_async(channel) ==
  MethodCall(Path("Channel", channel), "Channel", "GetState", <<>>)
pk_connection_dbus_channel_get_state_finish(reply) == Value(reply, "i")
pk_connection_dbus_channel_get_target_async(channel) ==
  MethodCall(Path("Channel", channel), "Channel", "GetTarget", <<>>)
pk_connection_dbus_channel_get_target_finish(reply) == Value(reply, "s")
pk_connection_dbus_channel_get_working_dir_async(channel) ==
  MethodCall(Path("Channel", channel), "Channel", "GetWorkingDir", <<>>)
pk_connection_dbus_channel_get_working_dir_finish(reply) == Value(reply, "s")
pk_connection_dbus_channel_mute_async(channel) ==
  MethodCall(Path("Channel", channel), "Channel", "Mute", <<>>)
pk_connection_dbus_channel_mute_finish(reply) == Done(reply)
pk_connection_dbus_channel_set_args_async(channel, args) ==
  MethodCall(Path("Channel", channel), "Channel", "SetArgs",
             <<StringArray(args)>>)
pk_connection_dbus_channel_set_args_finish(reply) == Done(reply)
pk_connection_dbus_channel_set_env_async(channel, env) ==
  MethodCall(Path("Channel", channel), "Channel", "SetEnv",
             <<StringArray(env)>>)
pk_connection_dbus_channel_set_env_finish(reply) == Done(reply)
pk_connection_dbus_channel_set_kill_pid_async(channel, kill_pid) ==
  MethodCall(Path("Channel", channel), "Channel", "SetKillPid",
             <<Boolean(kill_pid)>>)
pk_connection_dbus_channel_set_kill_pid_finish(reply) == Done(reply)
pk_connection_dbus_channel_set_pid_async(channel, pid) ==
  MethodCall(Path("Channel", channel), "Channel", "SetPid", <<Int32(pid)>>)
pk_connection_dbus_channel_set_pid_finish(reply) == Done(reply)
pk_connection_dbus_channel_set_target_async(channel, target) ==
  MethodCall(Path("Channel", channel), "Channel", "SetTarget",
             <<String(NonNull(target))>>)
pk_connection_dbus_channel_set_target_finish(reply) == Done(reply)
SendsSetTarget(channel, working_dir) == \* faulty: the member of another call
  MethodCall(Path("Channel", channel), "Channel", "SetTarget",
             <<String(NonNull(working_dir))>>)
pk_connection_dbus_channel_set_working_dir_async(channel, working_dir) ==
  MethodCall(Path("Channel", channel), "Channel", "SetWorkingDir",
             <<String(NonNull(working_dir))>>)
pk_connection_dbus_channel_set_working_dir_finish(reply) == Done(reply)
pk_connection_dbus_channel_start_async(channel) ==
  MethodCall(Path("Channel", channel), "Channel", "Start", <<>>)
pk_connection_dbus_channel_start_finish(reply) == Done(reply)
pk_connection_dbus_channel_stop_async(channel) ==
  MethodCall(Path("Channel", channel), "Channel", "Stop", <<>>)
pk_connection_dbus_channel_stop_finish(reply) == Done(reply)
pk_connection_dbus_channel_unmute_async(channel) ==
  MethodCall(Path("Channel", channel), "Channel", "Unmute", <<>>)
pk_connection_dbus_channel_unmute_finish(reply) == Done(reply)

(***************************************************************************)
(* Source.                                                                 *)
(***************************************************************************)
pk_connection_dbus_source_get_plugin_async(source) ==
  MethodCall(Path("Source", source), "Source", "GetPlugin", <<>>)
pk_connection_dbus_source_get_plugin_finish(reply) == Id(reply, "Plugin", NULL)

(***************************************************************************)
(* Encoder.                                                                *)
(***************************************************************************)
pk_connection_dbus_encoder_get_plugin_async(encoder) ==
  MethodCall(Path("Encoder", encoder), "Encoder", "GetPlugin", <<>>)
pk_connection_dbus_encoder_get_plugin_finish(reply) ==
  Id(reply, "Plugin", NULL)

(***************************************************************************)
(* Plugin.                                                                 *)
(***************************************************************************)
pk_connection_dbus_plugin_get_copyright_async(plugin) ==
  MethodCall(Path("Plugin", plugin), "Plugin", "GetCopyright", <<>>)
pk_connection_dbus_plugin_get_copyright_finish(reply) == Value(reply, "s")
pk_connection_dbus_plugin_get_description_async(plugin) ==
  MethodCall(Path("Plugin", plugin), "Plugin", "GetDescription", <<>>)
pk_connection_dbus_plugin_get_description_finish(reply) == Value(reply, "s")
pk_connection_dbus_plugin_get_name_async(plugin) ==
  MethodCall(Path("Plugin", plugin), "Plugin", "GetName", <<>>)
pk_connection_dbus_plugin_get_name_finish(reply) == Value(reply, "s")
pk_connection_dbus_plugin_get_plugin_type_async(plugin) ==
  MethodCall(Path("Plugin", plugin), "Plugin", "GetType", <<>>)
pk_connection_dbus_plugin_get_plugin_type_finish(reply) == Value(reply, "i")
pk_connection_dbus_plugin_get_version_async(plugin) ==
  MethodCall(Path("Plugin", plugin), "Plugin", "GetVersion", <<>>)
pk_connection_dbus_plugin_get_version_finish(reply) == Value(reply, "s")

(***************************************************************************)
(* Subscription.                                                           *)
(***************************************************************************)
pk_connection_dbus_subscription_add_channel_async(subscription, channel, monitor) ==
  MethodCall(Path("Subscription", subscription), "Subscription", "AddChannel",
             <<Int32(channel), Boolean(monitor)>>)
pk_connection_dbus_subscription_add_channel_finish(reply) == Done(reply)
pk_connection_dbus_subscription_add_source_async(subscription, source) ==
  MethodCall(Path("Subscription", subscription), "Subscription", "AddSource",
             <<Int32(source)>>)
pk_connection_dbus_subscription_add_source_finish(reply) == Done(reply)
pk_connection_dbus_subscription_get_buffer_async(subscription) ==
  MethodCall(Path("Subscription", subscription), "Subscription", "GetBuffer",
             <<>>)
pk_connection_dbus_subscription_get_buffer_finish(reply) ==
  Decode(reply, <<"i", "i">>, <<Arg(reply, 1), Arg(reply, 2)>>)
pk_connection_dbus_subscription_get_created_at_async(subscription) ==
  MethodCall(Path("Subscription", subscription), "Subscription",
             "GetCreatedAt", <<>>)
pk_connection_dbus_subscription_get_created_at_finish(reply) == Time(reply)
pk_connection_dbus_subscription_get_sources_async(subscription) ==
  MethodCall(Path("Subscription", subscription), "Subscription", "GetSources",
             <<>>)
pk_connection_dbus_subscription_get_sources_finish(reply) ==
  Ids(reply, "Source")
pk_connection_dbus_subscription_mute_async(subscription, drain) ==
  MethodCall(Path("Subscription", subscription), "Subscription", "Mute",
             <<Boolean(drain)>>)
pk_connection_dbus_subscription_mute_finish(reply) == Done(reply)
pk_connection_dbus_subscription_remove_channel_async(subscription, channel) ==
  MethodCall(Path("Subscription", subscription), "Subscription",
             "RemoveChannel", <<Int32(channel)>>)
pk_connection_dbus_subscription_remove_channel_finish(reply) == Done(reply)
pk_connection_dbus_subscription_remove_source_async(subscription, source) ==
  MethodCall(Path("Subscription", subscription), "Subscription",
             "RemoveSource", <<Int32(source)>>)
pk_connection_dbus_subscription_remove_source_finish(reply) == Done(reply)
pk_connection_dbus_subscription_set_buffer_async(subscription, timeout, size) ==
  MethodCall(Path("Subscription", subscription), "Subscription", "SetBuffer",
             <<Int32(timeout), Int32(size)>>)
pk_connection_dbus_subscription_set_buffer_finish(reply) == Done(reply)
pk_connection_dbus_subscription_unmute_async(subscription) ==
  MethodCall(Path("Subscription", subscription), "Subscription", "Unmute",
             <<>>)
pk_connection_dbus_subscription_unmute_finish(reply) == Done(reply)

(***************************************************************************)
(* The slots of PkConnectionClass, as class_init fills them in.            *)
(***************************************************************************)
Request(call) ==
  CASE call.slot = "manager_add_channel" ->
         pk_connection_dbus_manager_add_channel_async
    [] call.slot = "manager_add_source" ->
         pk_connection_dbus_manager_add_source_async(call.in[1])
    [] call.slot = "manager_add_subscription" ->
         pk_connection_dbus_manager_add_subscription_async(call.in[1],
                                                           call.in[2])
    [] call.slot = "manager_get_channels" ->
         pk_connection_dbus_manager_get_channels_async
    [] call.slot = "manager_get_hostname" ->
         pk_connection_dbus_manager_get_hostname_async
    [] call.slot = "manager_get_plugins" ->
         pk_connection_dbus_manager_get_plugins_async
    [] call.slot = "manager_get_sources" ->
         pk_connection_dbus_manager_get_sources_async
    [] call.slot = "manager_get_subscriptions" ->
         pk_connection_dbus_manager_get_subscriptions_async
    [] call.slot = "manager_get_version" ->
         pk_connection_dbus_manager_get_version_async
    [] call.slot = "manager_ping" -> pk_connection_dbus_manager_ping_async
    [] call.slot = "manager_remove_channel" ->
         pk_connection_dbus_manager_remove_channel_async(call.in[1])
    [] call.slot = "manager_remove_source" ->
         pk_connection_dbus_manager_remove_source_async(call.in[1])
    [] call.slot = "manager_remove_subscription" ->
         pk_connection_dbus_manager_remove_subscription_async(call.in[1])
    [] call.slot = "channel_add_source" ->
         pk_connection_dbus_channel_add_source_async(call.in[1], call.in[2])
    [] call.slot = "channel_get_args" ->
         pk_connection_dbus_channel_get_args_async(call.in[1])
    [] call.slot = "channel_get_created_at" ->
         pk_connection_dbus_channel_get_created_at_async(call.in[1])
    [] call.slot = "channel_get_env" ->
         pk_connection_dbus_channel_get_env_async(call.in[1])
    [] call.slot = "channel_get_exit_status" ->
         pk_connection_dbus_channel_get_exit_status_async(call.in[1])
    [] call.slot = "channel_get_kill_pid" ->
         pk_connection_dbus_channel_get_kill_pid_async(call.in[1])
    [] call.slot = "channel_get_pid" ->
         pk_connection_dbus_channel_get_pid_async(call.in[1])
    [] call.slot = "channel_get_pid_set" ->
         pk_connection_dbus_channel_get_pid_set_async(call.in[1])
    [] call.slot = "channel_get_sources" ->
         pk_connection_dbus_channel_get_sources_async(call.in[1])
    [] call.slot = "channel_get_state" ->
         pk_connection_dbus_channel_get_state_async(call.in[1])
    [] call.slot = "channel_get_target" ->
         pk_connection_dbus_channel_get_target_async(call.in[1])
    [] call.slot = "channel_get_working_dir" ->
         pk_connection_dbus_channel_get_working_dir_async(call.in[1])
    [] call.slot = "channel_mute" ->
         pk_connection_dbus_channel_mute_async(call.in[1])
    [] call.slot = "channel_set_args" ->
         pk_connection_dbus_channel_set_args_async(call.in[1], call.in[2])
    [] call.slot = "channel_set_env" ->
         pk_connection_dbus_channel_set_env_async(call.in[1], call.in[2])
    [] call.slot = "channel_set_kill_pid" ->
         pk_connection_dbus_channel_set_kill_pid_async(call.in[1], call.in[2])
    [] call.slot = "channel_set_pid" ->
         pk_connection_dbus_channel_set_pid_async(call.in[1], call.in[2])
    [] call.slot = "channel_set_target" ->
         pk_connection_dbus_channel_set_target_async(call.in[1], call.in[2])
    [] call.slot = "channel_set_working_dir" ->
         pk_connection_dbus_channel_set_working_dir_async(call.in[1],
                                                          call.in[2])
    [] call.slot = "channel_start" ->
         pk_connection_dbus_channel_start_async(call.in[1])
    [] call.slot = "channel_stop" ->
         pk_connection_dbus_channel_stop_async(call.in[1])
    [] call.slot = "channel_unmute" ->
         pk_connection_dbus_channel_unmute_async(call.in[1])
    [] call.slot = "source_get_plugin" ->
         pk_connection_dbus_source_get_plugin_async(call.in[1])
    [] call.slot = "encoder_get_plugin" ->
         pk_connection_dbus_encoder_get_plugin_async(call.in[1])
    [] call.slot = "plugin_get_copyright" ->
         pk_connection_dbus_plugin_get_copyright_async(call.in[1])
    [] call.slot = "plugin_get_description" ->
         pk_connection_dbus_plugin_get_description_async(call.in[1])
    [] call.slot = "plugin_get_name" ->
         pk_connection_dbus_plugin_get_name_async(call.in[1])
    [] call.slot = "plugin_get_plugin_type" ->
         pk_connection_dbus_plugin_get_plugin_type_async(call.in[1])
    [] call.slot = "plugin_get_version" ->
         pk_connection_dbus_plugin_get_version_async(call.in[1])
    [] call.slot = "subscription_add_channel" ->
         pk_connection_dbus_subscription_add_channel_async(call.in[1],
                                                           call.in[2],
                                                           call.in[3])
    [] call.slot = "subscription_add_source" ->
         pk_connection_dbus_subscription_add_source_async(call.in[1],
                                                          call.in[2])
    [] call.slot = "subscription_get_buffer" ->
         pk_connection_dbus_subscription_get_buffer_async(call.in[1])
    [] call.slot = "subscription_get_created_at" ->
         pk_connection_dbus_subscription_get_created_at_async(call.in[1])
    [] call.slot = "subscription_get_sources" ->
         pk_connection_dbus_subscription_get_sources_async(call.in[1])
    [] call.slot = "subscription_mute" ->
         pk_connection_dbus_subscription_mute_async(call.in[1], call.in[2])
    [] call.slot = "subscription_remove_channel" ->
         pk_connection_dbus_subscription_remove_channel_async(call.in[1],
                                                              call.in[2])
    [] call.slot = "subscription_remove_source" ->
         pk_connection_dbus_subscription_remove_source_async(call.in[1],
                                                             call.in[2])
    [] call.slot = "subscription_set_buffer" ->
         pk_connection_dbus_subscription_set_buffer_async(call.in[1],
                                                          call.in[2],
                                                          call.in[3])
    [] call.slot = "subscription_unmute" ->
         pk_connection_dbus_subscription_unmute_async(call.in[1])

Result(slot, reply) ==
  CASE slot = "manager_add_channel" ->
         pk_connection_dbus_manager_add_channel_finish(reply)
    [] slot = "manager_add_source" ->
         pk_connection_dbus_manager_add_source_finish(reply)
    [] slot = "manager_add_subscription" ->
         pk_connection_dbus_manager_add_subscription_finish(reply)
    [] slot = "manager_get_channels" ->
         pk_connection_dbus_manager_get_channels_finish(reply)
    [] slot = "manager_get_hostname" ->
         pk_connection_dbus_manager_get_hostname_finish(reply)
    [] slot = "manager_get_plugins" ->
         pk_connection_dbus_manager_get_plugins_finish(reply)
    [] slot = "manager_get_sources" ->
         pk_connection_dbus_manager_get_sources_finish(reply)
    [] slot = "manager_get_subscriptions" ->
         pk_connection_dbus_manager_get_subscriptions_finish(reply)
    [] slot = "manager_get_version" ->
         pk_connection_dbus_manager_get_version_finish(reply)
    [] slot = "manager_ping" -> pk_connection_dbus_manager_ping_finish(reply)
    [] slot = "manager_remove_channel" ->
         pk_connection_dbus_manager_remove_channel_finish(reply)
    [] slot = "manager_remove_source" ->
         pk_connection_dbus_manager_remove_source_finish(reply)
    [] slot = "manager_remove_subscription" ->
         pk_connection_dbus_manager_remove_subscription_finish(reply)
    [] slot = "channel_add_source" ->
         pk_connection_dbus_channel_add_source_finish(reply)
    [] slot = "channel_get_args" ->
         pk_connection_dbus_channel_get_args_finish(reply)
    [] slot = "channel_get_created_at" ->
         pk_connection_dbus_channel_get_created_at_finish(reply)
    [] slot = "channel_get_env" ->
         pk_connection_dbus_channel_get_env_finish(reply)
    [] slot = "channel_get_exit_status" ->
         pk_connection_dbus_channel_get_exit_status_finish(reply)
    [] slot = "channel_get_kill_pid" ->
         pk_connection_dbus_channel_get_kill_pid_finish(reply)
    [] slot = "channel_get_pid" ->
         pk_connection_dbus_channel_get_pid_finish(reply)
    [] slot = "channel_get_pid_set" ->
         pk_connection_dbus_channel_get_pid_set_finish(reply)
    [] slot = "channel_get_sources" ->
         pk_connection_dbus_channel_get_sources_finish(reply)
    [] slot = "channel_get_state" ->
         pk_connection_dbus_channel_get_state_finish(reply)
    [] slot = "channel_get_target" ->
         pk_connection_dbus_channel_get_target_finish(reply)
    [] slot = "channel_get_working_dir" ->
         pk_connection_dbus_channel_get_working_dir_finish(reply)
    [] slot = "channel_mute" -> pk_connection_dbus_channel_mute_finish(reply)
    [] slot = "channel_set_args" ->
         pk_connection_dbus_channel_set_args_finish(reply)
    [] slot = "channel_set_env" ->
         pk_connection_dbus_channel_set_env_finish(reply)
    [] slot = "channel_set_kill_pid" ->
         pk_connection_dbus_channel_set_kill_pid_finish(reply)
    [] slot = "channel_set_pid" ->
         pk_connection_dbus_channel_set_pid_finish(reply)
    [] slot = "channel_set_target" ->
         pk_connection_dbus_channel_set_target_finish(reply)
    [] slot = "channel_set_working_dir" ->
         pk_connection_dbus_channel_set_working_dir_finish(reply)
    [] slot = "channel_start" -> pk_connection_dbus_channel_start_finish(reply)
    [] slot = "channel_stop" -> pk_connection_dbus_channel_stop_finish(reply)
    [] slot = "channel_unmute" ->
         pk_connection_dbus_channel_unmute_finish(reply)
    [] slot = "source_get_plugin" ->
         pk_connection_dbus_source_get_plugin_finish(reply)
    [] slot = "encoder_get_plugin" ->
         pk_connection_dbus_encoder_get_plugin_finish(reply)
    [] slot = "plugin_get_copyright" ->
         pk_connection_dbus_plugin_get_copyright_finish(reply)
    [] slot = "plugin_get_description" ->
         pk_connection_dbus_plugin_get_description_finish(reply)
    [] slot = "plugin_get_name" ->
         pk_connection_dbus_plugin_get_name_finish(reply)
    [] slot = "plugin_get_plugin_type" ->
         pk_connection_dbus_plugin_get_plugin_type_finish(reply)
    [] slot = "plugin_get_version" ->
         pk_connection_dbus_plugin_get_version_finish(reply)
    [] slot = "subscription_add_channel" ->
         pk_connection_dbus_subscription_add_channel_finish(reply)
    [] slot = "subscription_add_source" ->
         pk_connection_dbus_subscription_add_source_finish(reply)
    [] slot = "subscription_get_buffer" ->
         pk_connection_dbus_subscription_get_buffer_finish(reply)
    [] slot = "subscription_get_created_at" ->
         pk_connection_dbus_subscription_get_created_at_finish(reply)
    [] slot = "subscription_get_sources" ->
         pk_connection_dbus_subscription_get_sources_finish(reply)
    [] slot = "subscription_mute" ->
         pk_connection_dbus_subscription_mute_finish(reply)
    [] slot = "subscription_remove_channel" ->
         pk_connection_dbus_subscription_remove_channel_finish(reply)
    [] slot = "subscription_remove_source" ->
         pk_connection_dbus_subscription_remove_source_finish(reply)
    [] slot = "subscription_set_buffer" ->
         pk_connection_dbus_subscription_set_buffer_finish(reply)
    [] slot = "subscription_unmute" ->
         pk_connection_dbus_subscription_unmute_finish(reply)
=============================================================================
