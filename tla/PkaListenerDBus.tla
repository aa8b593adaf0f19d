--------------------------- MODULE PkaListenerDBus ---------------------------
(***************************************************************************)
(* The agent on the bus, perfkit-agent/listeners/pka-listener-dbus.c: for  *)
(* every member of every interface, which procedure a message calls with   *)
(* which arguments, and the reply that its callback makes of the result;   *)
(* and which object paths there are.                                       *)
(***************************************************************************)
EXTENDS DBusMessages

\* DBUS_HANDLER_RESULT_NOT_YET_HANDLED: libdbus answers that there is no such
\* method.
NotYetHandled == [op |-> "not yet handled", in |-> <<>>]

\* The tests that the branch for a member begins with: the number is read
\* from the message's path, then the arguments are.
Branch(message, object, signature, op, in) ==
  IF message.path.object = object /\ Matches(signature, message.args)
  THEN [op |-> op, in |-> in]
  ELSE NotYetHandled

\* The manager's branches read no path.
ManagerBranch(message, signature, op, in) ==
  IF Matches(signature, message.args) THEN [op |-> op, in |-> in]
  ELSE NotYetHandled

\* An argument that is the path of an object of the wrong kind is refused.
ObjectBranch(message, object, op) ==
  IF Matches(<<"o">>, message.args) /\ Arg(message, 1).object = object
  THEN [op |-> op, in |-> <<Arg(message, 1).id>>]
  ELSE NotYetHandled

PathsOf(object, ids) == [k \in DOMAIN ids |-> Path(object, ids[k])]

\* Every callback answers with the error, or with what was stored.
Reply(result, args) ==
  IF result.ok THEN MethodReturn(args) ELSE Error("Failed", result.error)

(***************************************************************************)
(* Manager.                                                                *)
(***************************************************************************)
Manager_AddChannel(message) ==
  ManagerBranch(message, <<>>, "manager_add_channel", <<>>)
pka_listener_dbus_manager_add_channel_cb(result) ==
  Reply(result, <<ObjectPath(Path("Channel", result.out[1]))>>)
Manager_AddSource(message) ==
  ObjectBranch(message, "Plugin", "manager_add_source")
pka_listener_dbus_manager_add_source_cb(result) ==
  Reply(result, <<ObjectPath(Path("Source", result.out[1]))>>)
\* The arguments in the message are not read; the variables are 0.
Manager_AddSubscription(message) ==
  ManagerBranch(message, <<>>, "manager_add_subscription", <<0, 0>>)
pka_listener_dbus_manager_add_subscription_cb(result) ==
  Reply(result, <<ObjectPath(Path("Subscription", result.out[1]))>>)
Manager_GetChannels(message) ==
  ManagerBranch(message, <<>>, "manager_get_channels", <<>>)
pka_listener_dbus_manager_get_channels_cb(result) ==
  Reply(result, <<PathArray(PathsOf("Channel", result.out[1]))>>)
Manager_GetHostname(message) ==
  ManagerBranch(message, <<>>, "manager_get_hostname", <<>>)
pka_listener_dbus_manager_get_hostname_cb(result) ==
  Reply(result, <<String(NonNull(result.out[1]))>>)
Manager_GetPlugins(message) ==
  ManagerBranch(message, <<>>, "manager_get_plugins", <<>>)
pka_listener_dbus_manager_get_plugins_cb(result) ==
  Reply(result, <<PathArray(PathsOf("Plugin", result.out[1]))>>)
Manager_GetSources(message) ==
  ManagerBranch(message, <<>>, "manager_get_sources", <<>>)
pka_listener_dbus_manager_get_sources_cb(result) ==
  Reply(result, <<PathArray(PathsOf("Source", result.out[1]))>>)
Manager_GetSubscriptions(message) ==
  ManagerBranch(message, <<>>, "manager_get_subscriptions", <<>>)
pka_listener_dbus_manager_get_subscriptions_cb(result) ==
  Reply(result, <<PathArray(PathsOf("Subscription", result.out[1]))>>)
Manager_GetVersion(message) ==
  ManagerBranch(message, <<>>, "manager_get_version", <<>>)
pka_listener_dbus_manager_get_version_cb(result) ==
  Reply(result, <<String(NonNull(result.out[1]))>>)
Manager_Ping(message) == ManagerBranch(message, <<>>, "manager_ping", <<>>)
pka_listener_dbus_manager_ping_cb(result) ==
  Reply(result, <<String(Iso8601(result.out[1]))>>)
\* The arguments in the message are not read; the variables are 0.
Manager_RemoveChannel(message) ==
  ManagerBranch(message, <<>>, "manager_remove_channel", <<0>>)
pka_listener_dbus_manager_remove_channel_cb(result) ==
  Reply(result, <<Boolean(result.out[1])>>)
Manager_RemoveSource(message) ==
  ObjectBranch(message, "Source", "manager_remove_source")
pka_listener_dbus_manager_remove_source_cb(result) == Reply(result, <<>>)
Manager_RemoveSubscription(message) ==
  ObjectBranch(message, "Subscription", "manager_remove_subscription")
pka_listener_dbus_manager_remove_subscription_cb(result) ==
  Reply(result, <<Boolean(result.out[1])>>)

(***************************************************************************)
(* Channel.                                                                *)
(***************************************************************************)
Channel_AddSource(message) ==
  Branch(message, "Channel", <<"i">>, "channel_add_source",
         <<message.path.id, Arg(message, 1)>>)
pka_listener_dbus_channel_add_source_cb(result) == Reply(result, <<>>)
Channel_GetArgs(message) ==
  Branch(message, "Channel", <<>>, "channel_get_args", <<message.path.id>>)
pka_listener_dbus_channel_get_args_cb(result) ==
  Reply(result, <<StringArray(NonNullV(result.out[1]))>>)
Channel_GetCreatedAt(message) ==
  Branch(message, "Channel", <<>>, "channel_get_created_at",
         <<message.path.id>>)
pka_listener_dbus_channel_get_created_at_cb(result) ==
  Reply(result, <<String(Iso8601(result.out[1]))>>)
Channel_GetEnv(message) ==
  Branch(message, "Channel", <<>>, "channel_get_env", <<message.path.id>>)
pka_listener_dbus_channel_get_env_cb(result) ==
  Reply(result, <<StringArray(NonNullV(result.out[1]))>>)
Channel_GetExitStatus(message) ==
  Branch(message, "Channel", <<>>, "channel_get_exit_status",
         <<message.path.id>>)
pka_listener_dbus_channel_get_exit_status_cb(result) ==
  Reply(result, <<Int32(result.out[1])>>)
Channel_GetKillPid(message) ==
  Branch(message, "Channel", <<>>, "channel_get_kill_pid", <<message.path.id>>)
AnswersNumber(result) ==                \* faulty: the type of another field
  Reply(result, <<Int32(result.out[1])>>)
pka_listener_dbus_channel_get_kill_pid_cb(result) ==
  Reply(result, <<Boolean(result.out[1])>>)
Channel_GetPid(message) ==
  Branch(message, "Channel", <<>>, "channel_get_pid", <<message.path.id>>)
pka_listener_dbus_channel_get_pid_cb(result) ==
  Reply(result, <<Int32(result.out[1])>>)
Channel_GetPidSet(message) ==
  Branch(message, "Channel", <<>>, "channel_get_pid_set", <<message.path.id>>)
pka_listener_dbus_channel_get_pid_set_cb(result) ==
  Reply(result, <<Boolean(result.out[1])>>)
Channel_GetSources(message) ==
  Branch(message, "Channel", <<>>, "channel_get_sources", <<message.path.id>>)
pka_listener_dbus_channel_get_sources_cb(result) ==
  Reply(result, <<PathArray(PathsOf("Source", result.out[1]))>>)
Channel_GetState(message) ==
  Branch(message, "Channel", <<>>, "channel_get_state", <<message.path.id>>)
pka_listener_dbus_channel_get_state_cb(result) ==
  Reply(result, <<Int32(result.out[1])>>)
Channel_GetTarget(message) ==
  Branch(message, "Channel", <<>>, "channel_get_target", <<message.path.id>>)
pka_listener_dbus_channel_get_target_cb(result) ==
  Reply(result, <<String(NonNull(result.out[1]))>>)
Channel_GetWorkingDir(message) ==
  Branch(message, "Channel", <<>>, "channel_get_working_dir",
         <<message.path.id>>)
pka_listener_dbus_channel_get_working_dir_cb(result) ==
  Reply(result, <<String(NonNull(result.out[1]))>>)
Channel_Mute(message) ==
  Branch(message, "Channel", <<>>, "channel_mute", <<message.path.id>>)
pka_listener_dbus_channel_mute_cb(result) == Reply(result, <<>>)
Channel_SetArgs(message) ==
  Branch(message, "Channel", <<"as">>, "channel_set_args",
         <<message.path.id, Arg(message, 1)>>)
pka_listener_dbus_channel_set_args_cb(result) == Reply(result, <<>>)
Channel_SetEnv(message) ==
  Branch(message, "Channel", <<"as">>, "channel_set_env",
         <<message.path.id, Arg(message, 1)>>)
pka_listener_dbus_channel_set_env_cb(result) == Reply(result, <<>>)
Channel_SetKillPid(message) ==
  Branch(message, "Channel", <<"b">>, "channel_set_kill_pid",
         <<message.path.id, Arg(message, 1)>>)
pka_listener_dbus_channel_set_kill_pid_cb(result) == Reply(result, <<>>)
Channel_SetPid(message) ==
  Branch(message, "Channel", <<"i">>, "channel_set_pid",
         <<message.path.id, Arg(message, 1)>>)
pka_listener_dbus_channel_set_pid_cb(result) == Reply(result, <<>>)
Channel_SetTarget(message) ==
  Branch(message, "Channel", <<"s">>, "channel_set_target",
         <<message.path.id, Arg(message, 1)>>)
pka_listener_dbus_channel_set_target_cb(result) == Reply(result, <<>>)
Channel_SetWorkingDir(message) ==
  Branch(message, "Channel", <<"s">>, "channel_set_working_dir",
         <<message.path.id, Arg(message, 1)>>)
pka_listener_dbus_channel_set_working_dir_cb(result) == Reply(result, <<>>)
Channel_Start(message) ==
  Branch(message, "Channel", <<>>, "channel_start", <<message.path.id>>)
pka_listener_dbus_channel_start_cb(result) == Reply(result, <<>>)
Channel_Stop(message) ==
  Branch(message, "Channel", <<>>, "channel_stop", <<message.path.id>>)
pka_listener_dbus_channel_stop_cb(result) == Reply(result, <<>>)
Channel_Unmute(message) ==
  Branch(message, "Channel", <<>>, "channel_unmute", <<message.path.id>>)
pka_listener_dbus_channel_unmute_cb(result) == Reply(result, <<>>)

(***************************************************************************)
(* Source.                                                                 *)
(***************************************************************************)
Source_GetPlugin(message) ==
  Branch(message, "Source", <<>>, "source_get_plugin", <<message.path.id>>)
pka_listener_dbus_source_get_plugin_cb(result) ==
  Reply(result, <<ObjectPath(Path("Plugin", result.out[1]))>>)

(***************************************************************************)
(* Encoder.                                                                *)
(***************************************************************************)
Encoder_GetPlugin(message) ==
  Branch(message, "Encoder", <<>>, "encoder_get_plugin", <<message.path.id>>)
pka_listener_dbus_encoder_get_plugin_cb(result) ==
  Reply(result, <<ObjectPath(Path("Plugin", result.out[1]))>>)

(***************************************************************************)
(* Plugin.                                                                 *)
(***************************************************************************)
Plugin_GetCopyright(message) ==
  Branch(message, "Plugin", <<>>, "plugin_get_copyright", <<message.path.id>>)
pka_listener_dbus_plugin_get_copyright_cb(result) ==
  Reply(result, <<String(NonNull(result.out[1]))>>)
Plugin_GetDescription(message) ==
  Branch(message, "Plugin", <<>>, "plugin_get_description",
         <<message.path.id>>)
pka_listener_dbus_plugin_get_description_cb(result) ==
  Reply(result, <<String(NonNull(result.out[1]))>>)
Plugin_GetName(message) ==
  Branch(message, "Plugin", <<>>, "plugin_get_name", <<message.path.id>>)
pka_listener_dbus_plugin_get_name_cb(result) ==
  Reply(result, <<String(NonNull(result.out[1]))>>)
Plugin_GetType(message) ==
  Branch(message, "Plugin", <<>>, "plugin_get_plugin_type",
         <<message.path.id>>)
pka_listener_dbus_plugin_get_plugin_type_cb(result) ==
  Reply(result, <<Int32(result.out[1])>>)
Plugin_GetVersion(message) ==
  Branch(message, "Plugin", <<>>, "plugin_get_version", <<message.path.id>>)
pka_listener_dbus_plugin_get_version_cb(result) ==
  Reply(result, <<String(NonNull(result.out[1]))>>)

(***************************************************************************)
(* Subscription.                                                           *)
(***************************************************************************)
Subscription_AddChannel(message) ==
  Branch(message, "Subscription", <<"i", "b">>, "subscription_add_channel",
         <<message.path.id, Arg(message, 1), Arg(message, 2)>>)
pka_listener_dbus_subscription_add_channel_cb(result) == Reply(result, <<>>)
Subscription_AddSource(message) ==
  Branch(message, "Subscription", <<"i">>, "subscription_add_source",
         <<message.path.id, Arg(message, 1)>>)
pka_listener_dbus_subscription_add_source_cb(result) == Reply(result, <<>>)
Subscription_GetBuffer(message) ==
  Branch(message, "Subscription", <<>>, "subscription_get_buffer",
         <<message.path.id>>)
pka_listener_dbus_subscription_get_buffer_cb(result) ==
  Reply(result, <<Int32(result.out[1]), Int32(result.out[2])>>)
Subscription_GetCreatedAt(message) ==
  Branch(message, "Subscription", <<>>, "subscription_get_created_at",
         <<message.path.id>>)
pka_listener_dbus_subscription_get_created_at_cb(result) ==
  Reply(result, <<String(Iso8601(result.out[1]))>>)
Subscription_GetSources(message) ==
  Branch(message, "Subscription", <<>>, "subscription_get_sources",
         <<message.path.id>>)
pka_listener_dbus_subscription_get_sources_cb(result) ==
  Reply(result, <<PathArray(PathsOf("Source", result.out[1]))>>)
Subscription_Mute(message) ==
  Branch(message, "Subscription", <<"b">>, "subscription_mute",
         <<message.path.id, Arg(message, 1)>>)
pka_listener_dbus_subscription_mute_cb(result) == Reply(result, <<>>)
Subscription_RemoveChannel(message) ==
  Branch(message, "Subscription", <<"i">>, "subscription_remove_channel",
         <<message.path.id, Arg(message, 1)>>)
pka_listener_dbus_subscription_remove_channel_cb(result) == Reply(result, <<>>)
Subscription_RemoveSource(message) ==
  Branch(message, "Subscription", <<"i">>, "subscription_remove_source",
         <<message.path.id, Arg(message, 1)>>)
pka_listener_dbus_subscription_remove_source_cb(result) == Reply(result, <<>>)
Subscription_SetBuffer(message) ==
  Branch(message, "Subscription", <<"i", "i">>, "subscription_set_buffer",
         <<message.path.id, Arg(message, 1), Arg(message, 2)>>)
pka_listener_dbus_subscription_set_buffer_cb(result) == Reply(result, <<>>)
Subscription_Unmute(message) ==
  Branch(message, "Subscription", <<>>, "subscription_unmute",
         <<message.path.id>>)
pka_listener_dbus_subscription_unmute_cb(result) == Reply(result, <<>>)

(***************************************************************************)
(* The message function of each kind of object, and which of them a path   *)
(* has been registered with.                                               *)
(***************************************************************************)
handle_manager_message(message) ==
  CASE message.member = "AddChannel" -> Manager_AddChannel(message)
    [] message.member = "AddSource" -> Manager_AddSource(message)
    [] message.member = "AddSubscription" -> Manager_AddSubscription(message)
    [] message.member = "GetChannels" -> Manager_GetChannels(message)
    [] message.member = "GetHostname" -> Manager_GetHostname(message)
    [] message.member = "GetPlugins" -> Manager_GetPlugins(message)
    [] message.member = "GetSources" -> Manager_GetSources(message)
    [] message.member = "GetSubscriptions" -> Manager_GetSubscriptions(message)
    [] message.member = "GetVersion" -> Manager_GetVersion(message)
    [] message.member = "Ping" -> Manager_Ping(message)
    [] message.member = "RemoveChannel" -> Manager_RemoveChannel(message)
    [] message.member = "RemoveSource" -> Manager_RemoveSource(message)
    [] message.member = "RemoveSubscription" ->
         Manager_RemoveSubscription(message)
    [] OTHER -> NotYetHandled
handle_channel_message(message) ==
  CASE message.member = "AddSource" -> Channel_AddSource(message)
    [] message.member = "GetArgs" -> Channel_GetArgs(message)
    [] message.member = "GetCreatedAt" -> Channel_GetCreatedAt(message)
    [] message.member = "GetEnv" -> Channel_GetEnv(message)
    [] message.member = "GetExitStatus" -> Channel_GetExitStatus(message)
    [] message.member = "GetKillPid" -> Channel_GetKillPid(message)
    [] message.member = "GetPid" -> Channel_GetPid(message)
    [] message.member = "GetPidSet" -> Channel_GetPidSet(message)
    [] message.member = "GetSources" -> Channel_GetSources(message)
    [] message.member = "GetState" -> Channel_GetState(message)
    [] message.member = "GetTarget" -> Channel_GetTarget(message)
    [] message.member = "GetWorkingDir" -> Channel_GetWorkingDir(message)
    [] message.member = "Mute" -> Channel_Mute(message)
    [] message.member = "SetArgs" -> Channel_SetArgs(message)
    [] message.member = "SetEnv" -> Channel_SetEnv(message)
    [] message.member = "SetKillPid" -> Channel_SetKillPid(message)
    [] message.member = "SetPid" -> Channel_SetPid(message)
    [] message.member = "SetTarget" -> Channel_SetTarget(message)
    [] message.member = "SetWorkingDir" -> Channel_SetWorkingDir(message)
    [] message.member = "Start" -> Channel_Start(message)
    [] message.member = "Stop" -> Channel_Stop(message)
    [] message.member = "Unmute" -> Channel_Unmute(message)
    [] OTHER -> NotYetHandled
handle_source_message(message) ==
  CASE message.member = "GetPlugin" -> Source_GetPlugin(message)
    [] OTHER -> NotYetHandled
handle_encoder_message(message) ==
  CASE message.member = "GetPlugin" -> Encoder_GetPlugin(message)
    [] OTHER -> NotYetHandled
handle_plugin_message(message) ==
  CASE message.member = "GetCopyright" -> Plugin_GetCopyright(message)
    [] message.member = "GetDescription" -> Plugin_GetDescription(message)
    [] message.member = "GetName" -> Plugin_GetName(message)
    [] message.member = "GetType" -> Plugin_GetType(message)
    [] message.member = "GetVersion" -> Plugin_GetVersion(message)
    [] OTHER -> NotYetHandled
handle_subscription_message(message) ==
  CASE message.member = "AddChannel" -> Subscription_AddChannel(message)
    [] message.member = "AddSource" -> Subscription_AddSource(message)
    [] message.member = "GetBuffer" -> Subscription_GetBuffer(message)
    [] message.member = "GetCreatedAt" -> Subscription_GetCreatedAt(message)
    [] message.member = "GetSources" -> Subscription_GetSources(message)
    [] message.member = "Mute" -> Subscription_Mute(message)
    [] message.member = "RemoveChannel" -> Subscription_RemoveChannel(message)
    [] message.member = "RemoveSource" -> Subscription_RemoveSource(message)
    [] message.member = "SetBuffer" -> Subscription_SetBuffer(message)
    [] message.member = "Unmute" -> Subscription_Unmute(message)
    [] OTHER -> NotYetHandled

Dispatched(message) ==
  IF message.interface # message.path.object THEN NotYetHandled
  ELSE CASE message.path.object = "Manager" -> handle_manager_message(message)
         [] message.path.object = "Channel" -> handle_channel_message(message)
         [] message.path.object = "Source" -> handle_source_message(message)
         [] message.path.object = "Encoder" -> handle_encoder_message(message)
         [] message.path.object = "Plugin" -> handle_plugin_message(message)
         [] message.path.object = "Subscription" ->
              handle_subscription_message(message)

\* The callback that a procedure is called with.
Answered(op, result) ==
  CASE op = "manager_add_channel" ->
         pka_listener_dbus_manager_add_channel_cb(result)
    [] op = "manager_add_source" ->
         pka_listener_dbus_manager_add_source_cb(result)
    [] op = "manager_add_subscription" ->
         pka_listener_dbus_manager_add_subscription_cb(result)
    [] op = "manager_get_channels" ->
         pka_listener_dbus_manager_get_channels_cb(result)
    [] op = "manager_get_hostname" ->
         pka_listener_dbus_manager_get_hostname_cb(result)
    [] op = "manager_get_plugins" ->
         pka_listener_dbus_manager_get_plugins_cb(result)
    [] op = "manager_get_sources" ->
         pka_listener_dbus_manager_get_sources_cb(result)
    [] op = "manager_get_subscriptions" ->
         pka_listener_dbus_manager_get_subscriptions_cb(result)
    [] op = "manager_get_version" ->
         pka_listener_dbus_manager_get_version_cb(result)
    [] op = "manager_ping" -> pka_listener_dbus_manager_ping_cb(result)
    [] op = "manager_remove_channel" ->
         pka_listener_dbus_manager_remove_channel_cb(result)
    [] op = "manager_remove_source" ->
         pka_listener_dbus_manager_remove_source_cb(result)
    [] op = "manager_remove_subscription" ->
         pka_listener_dbus_manager_remove_subscription_cb(result)
    [] op = "channel_add_source" ->
         pka_listener_dbus_channel_add_source_cb(result)
    [] op = "channel_get_args" -> pka_listener_dbus_channel_get_args_cb(result)
    [] op = "channel_get_created_at" ->
         pka_listener_dbus_channel_get_created_at_cb(result)
    [] op = "channel_get_env" -> pka_listener_dbus_channel_get_env_cb(result)
    [] op = "channel_get_exit_status" ->
         pka_listener_dbus_channel_get_exit_status_cb(result)
    [] op = "channel_get_kill_pid" ->
         pka_listener_dbus_channel_get_kill_pid_cb(result)
    [] op = "channel_get_pid" -> pka_listener_dbus_channel_get_pid_cb(result)
    [] op = "channel_get_pid_set" ->
         pka_listener_dbus_channel_get_pid_set_cb(result)
    [] op = "channel_get_sources" ->
         pka_listener_dbus_channel_get_sources_cb(result)
    [] op = "channel_get_state" ->
         pka_listener_dbus_channel_get_state_cb(result)
    [] op = "channel_get_target" ->
         pka_listener_dbus_channel_get_target_cb(result)
    [] op = "channel_get_working_dir" ->
         pka_listener_dbus_channel_get_working_dir_cb(result)
    [] op = "channel_mute" -> pka_listener_dbus_channel_mute_cb(result)
    [] op = "channel_set_args" -> pka_listener_dbus_channel_set_args_cb(result)
    [] op = "channel_set_env" -> pka_listener_dbus_channel_set_env_cb(result)
    [] op = "channel_set_kill_pid" ->
         pka_listener_dbus_channel_set_kill_pid_cb(result)
    [] op = "channel_set_pid" -> pka_listener_dbus_channel_set_pid_cb(result)
    [] op = "channel_set_target" ->
         pka_listener_dbus_channel_set_target_cb(result)
    [] op = "channel_set_working_dir" ->
         pka_listener_dbus_channel_set_working_dir_cb(result)
    [] op = "channel_start" -> pka_listener_dbus_channel_start_cb(result)
    [] op = "channel_stop" -> pka_listener_dbus_channel_stop_cb(result)
    [] op = "channel_unmute" -> pka_listener_dbus_channel_unmute_cb(result)
    [] op = "source_get_plugin" ->
         pka_listener_dbus_source_get_plugin_cb(result)
    [] op = "encoder_get_plugin" ->
         pka_listener_dbus_encoder_get_plugin_cb(result)
    [] op = "plugin_get_copyright" ->
         pka_listener_dbus_plugin_get_copyright_cb(result)
    [] op = "plugin_get_description" ->
         pka_listener_dbus_plugin_get_description_cb(result)
    [] op = "plugin_get_name" -> pka_listener_dbus_plugin_get_name_cb(result)
    [] op = "plugin_get_plugin_type" ->
         pka_listener_dbus_plugin_get_plugin_type_cb(result)
    [] op = "plugin_get_version" ->
         pka_listener_dbus_plugin_get_version_cb(result)
    [] op = "subscription_add_channel" ->
         pka_listener_dbus_subscription_add_channel_cb(result)
    [] op = "subscription_add_source" ->
         pka_listener_dbus_subscription_add_source_cb(result)
    [] op = "subscription_get_buffer" ->
         pka_listener_dbus_subscription_get_buffer_cb(result)
    [] op = "subscription_get_created_at" ->
         pka_listener_dbus_subscription_get_created_at_cb(result)
    [] op = "subscription_get_sources" ->
         pka_listener_dbus_subscription_get_sources_cb(result)
    [] op = "subscription_mute" ->
         pka_listener_dbus_subscription_mute_cb(result)
    [] op = "subscription_remove_channel" ->
         pka_listener_dbus_subscription_remove_channel_cb(result)
    [] op = "subscription_remove_source" ->
         pka_listener_dbus_subscription_remove_source_cb(result)
    [] op = "subscription_set_buffer" ->
         pka_listener_dbus_subscription_set_buffer_cb(result)
    [] op = "subscription_unmute" ->
         pka_listener_dbus_subscription_unmute_cb(result)

(***************************************************************************)
(* pka_listener_dbus_<kind>_added and _removed: a path for every object.   *)
(***************************************************************************)
Added(paths, object, id)   == paths \cup {Path(object, id)}
Removed(paths, object, id) == paths \ {Path(object, id)}

pka_listener_dbus_plugin_added(paths, plugin) == Added(paths, "Plugin", plugin)
pka_listener_dbus_plugin_removed(paths, plugin) ==
  Removed(paths, "Plugin", plugin)
pka_listener_dbus_encoder_added(paths, encoder) ==
  Added(paths, "Encoder", encoder)
pka_listener_dbus_encoder_removed(paths, encoder) ==
  Removed(paths, "Encoder", encoder)
pka_listener_dbus_source_added(paths, source) == Added(paths, "Source", source)
pka_listener_dbus_source_removed(paths, source) ==
  Removed(paths, "Source", source)
pka_listener_dbus_channel_added(paths, channel) ==
  Added(paths, "Channel", channel)
pka_listener_dbus_channel_removed(paths, channel) ==
  Removed(paths, "Channel", channel)
pka_listener_dbus_subscription_added(paths, subscription) ==
  Added(paths, "Subscription", subscription)
pka_listener_dbus_subscription_removed(paths, subscription) ==
  Removed(paths, "Subscription", subscription)

(***************************************************************************)
(* The introspection data: what the bus is told that the methods of an     *)
(* object take and return.                                                 *)
(***************************************************************************)
Method(member, in, out) == [member |-> member, in |-> in, out |-> out]

ManagerIntrospection ==
  {Method("AddChannel", <<>>, <<"o">>), Method("AddSource", <<"o">>, <<"o">>),
   Method("AddSubscription", <<"u", "u">>, <<"o">>),
   Method("GetChannels", <<>>, <<"ao">>), Method("GetHostname", <<>>, <<"s">>),
   Method("GetPlugins", <<>>, <<"ao">>), Method("GetSources", <<>>, <<"ao">>),
   Method("GetSubscriptions", <<>>, <<"ao">>),
   Method("GetVersion", <<>>, <<"s">>), Method("Ping", <<>>, <<"s">>),
   Method("RemoveChannel", <<"i">>, <<"b">>),
   Method("RemoveSource", <<"o">>, <<>>),
   Method("RemoveSubscription", <<"o">>, <<"b">>),
   Method("SetDeliveryPath", <<"s">>, <<>>)}
ChannelIntrospection ==
  {Method("AddSource", <<"i">>, <<>>), Method("GetArgs", <<>>, <<"as">>),
   Method("GetCreatedAt", <<>>, <<"s">>), Method("GetEnv", <<>>, <<"as">>),
   Method("GetExitStatus", <<>>, <<"i">>), Method("GetKillPid", <<>>, <<"b">>),
   Method("GetPid", <<>>, <<"i">>), Method("GetPidSet", <<>>, <<"b">>),
   Method("GetSources", <<>>, <<"ao">>), Method("GetState", <<>>, <<"i">>),
   Method("GetTarget", <<>>, <<"s">>), Method("GetWorkingDir", <<>>, <<"s">>),
   Method("Mute", <<>>, <<>>), Method("SetArgs", <<"as">>, <<>>),
   Method("SetEnv", <<"as">>, <<>>), Method("SetKillPid", <<"b">>, <<>>),
   Method("SetPid", <<"i">>, <<>>), Method("SetTarget", <<"s">>, <<>>),
   Method("SetWorkingDir", <<"s">>, <<>>), Method("Start", <<>>, <<>>),
   Method("Stop", <<>>, <<>>), Method("Unmute", <<>>, <<>>)}
SourceIntrospection ==
  {Method("GetPlugin", <<>>, <<"o">>)}
EncoderIntrospection ==
  {Method("GetPlugin", <<>>, <<"o">>)}
PluginIntrospection ==
  {Method("GetCopyright", <<>>, <<"s">>),
   Method("GetDescription", <<>>, <<"s">>), Method("GetName", <<>>, <<"s">>),
   Method("GetType", <<>>, <<"i">>), Method("GetVersion", <<>>, <<"s">>)}
SubscriptionIntrospection ==
  {Method("AddChannel", <<"i", "b">>, <<>>),
   Method("AddSource", <<"i">>, <<>>), Method("GetBuffer", <<>>, <<"i", "i">>),
   Method("GetCreatedAt", <<>>, <<"s">>), Method("GetSources", <<>>, <<"ao">>),
   Method("Mute", <<"b">>, <<>>), Method("RemoveChannel", <<"i">>, <<>>),
   Method("RemoveSource", <<"i">>, <<>>),
   Method("SetBuffer", <<"i", "i">>, <<>>),
   Method("SetEncoder", <<"i">>, <<>>), Method("Unmute", <<>>, <<>>)}

Introspection ==
  [Manager |-> ManagerIntrospection, Channel |-> ChannelIntrospection,
   Source |-> SourceIntrospection, Encoder |-> EncoderIntrospection,
   Plugin |-> PluginIntrospection,
   Subscription |-> SubscriptionIntrospection]

\* NOTIFY_LISTENERS.
Notified(paths, n) ==
  CASE n.event = "added" /\ n.object = "Plugin" ->
         pka_listener_dbus_plugin_added(paths, n.id)
    [] n.event = "removed" /\ n.object = "Plugin" ->
         pka_listener_dbus_plugin_removed(paths, n.id)
    [] n.event = "added" /\ n.object = "Encoder" ->
         pka_listener_dbus_encoder_added(paths, n.id)
    [] n.event = "removed" /\ n.object = "Encoder" ->
         pka_listener_dbus_encoder_removed(paths, n.id)
    [] n.event = "added" /\ n.object = "Source" ->
         pka_listener_dbus_source_added(paths, n.id)
    [] n.event = "removed" /\ n.object = "Source" ->
         pka_listener_dbus_source_removed(paths, n.id)
    [] n.event = "added" /\ n.object = "Channel" ->
         pka_listener_dbus_channel_added(paths, n.id)
    [] n.event = "removed" /\ n.object = "Channel" ->
         pka_listener_dbus_channel_removed(paths, n.id)
    [] n.event = "added" /\ n.object = "Subscription" ->
         pka_listener_dbus_subscription_added(paths, n.id)
    [] n.event = "removed" /\ n.object = "Subscription" ->
         pka_listener_dbus_subscription_removed(paths, n.id)
=============================================================================
