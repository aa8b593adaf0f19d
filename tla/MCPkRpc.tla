------------------------------- MODULE MCPkRpc -------------------------------
(* An agent with two channels, one of which runs, two sources and two       *)
(* subscriptions, of which one was removed; one program that makes any one  *)
(* call, and one that starts a channel twice meanwhile.                     *)
EXTENDS PkRpc

CONSTANTS c1, c2, cpu, dbus, target, dir, arg, host, version, text

MCPlugins == <<dbus, cpu>>
MCPluginInfo ==
  [p \in {cpu, dbus} |->
     [type |-> IF p = dbus THEN PKA_PLUGIN_LISTENER ELSE PKA_PLUGIN_SOURCE,
      copyright |-> NULL, description |-> text, name |-> p,
      version |-> version]]

Wants(op, in) == [op |-> op, in |-> in]
MCSetup ==
  <<Wants("manager_add_channel", <<>>), Wants("manager_add_channel", <<>>),
    Wants("manager_add_source", <<cpu>>), Wants("manager_add_source", <<cpu>>),
    Wants("manager_add_subscription", <<0, 0>>),
    Wants("manager_add_subscription", <<0, 0>>),
    Wants("channel_add_source", <<1, 1>>),
    Wants("subscription_add_channel", <<0, 1, TRUE>>),
    Wants("manager_remove_subscription", <<1>>),
    Wants("channel_set_target", <<0, target>>),
    Wants("channel_set_pid", <<1, 9>>), Wants("channel_start", <<1>>)>>

Plain(ops) == [op : ops, in : {<<>>}]
Each(ops, ids) == [op : ops, in : {<<id>> : id \in ids}]

EveryCall ==
  Plain({"manager_add_channel", "manager_get_channels",
         "manager_get_hostname", "manager_get_plugins",
         "manager_get_sources", "manager_get_subscriptions",
         "manager_get_version", "manager_ping"})
  \cup Each({"plugin_get_copyright", "plugin_get_description",
           "plugin_get_plugin_type", "plugin_get_version"}, {cpu})
  \cup Each({"manager_add_source", "plugin_get_name"}, {cpu, dbus})
  \cup Each({"manager_remove_source", "manager_remove_subscription",
           "channel_mute", "channel_start", "channel_stop",
           "channel_get_exit_status", "channel_get_pid_set"}, {0, 1})
  \cup Each({"channel_get_args", "channel_get_created_at", "channel_get_env",
           "channel_get_kill_pid", "channel_get_pid", "channel_get_sources",
           "channel_get_state", "channel_get_target",
           "channel_get_working_dir", "channel_unmute",
           "source_get_plugin"}, {1})
  \cup Each({"encoder_get_plugin", "subscription_get_buffer",
           "subscription_get_created_at", "subscription_get_sources",
           "subscription_unmute"}, {0})
  \cup [op : {"subscription_add_source", "subscription_remove_source",
              "channel_add_source"},
        in : {<<0, 0>>, <<0, 1>>}]
  \cup {Wants("manager_add_subscription", <<3, 4>>),
        Wants("manager_remove_channel", <<2>>),
        Wants("channel_set_args", <<0, <<arg>>>>),
        Wants("channel_set_env", <<0, <<>>>>),
        Wants("channel_set_kill_pid", <<1, FALSE>>),
        Wants("channel_set_pid", <<0, 8>>),
        Wants("channel_set_target", <<0, NULL>>),
        Wants("channel_set_working_dir", <<0, dir>>),
        Wants("subscription_add_channel", <<0, 0, TRUE>>),
        Wants("subscription_remove_channel", <<0, 1>>),
        Wants("subscription_mute", <<0, TRUE>>),
        Wants("subscription_set_buffer", <<0, 3, 4>>)}

SomeCalls == {Wants("channel_start", <<0>>)}

MCCallers == {c1, c2}
MCWanted == [c \in MCCallers |-> IF c = c1 THEN EveryCall ELSE SomeCalls]
MCMaxCalls == [c \in MCCallers |-> IF c = c1 THEN 1 ELSE 2]
MCSpawned == {0, 7}
MCExitStatuses == {3}
=============================================================================
