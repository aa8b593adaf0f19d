----------------------------- MODULE PkRpcProofs -----------------------------
(***************************************************************************)
(* Proofs about PkRpc, for every set of callers, of calls, of plugins and  *)
(* of earlier calls.  First what a procedure does to the agent, to the     *)
(* paths and in a message, procedure by procedure; then the inductive      *)
(* invariant Inv and the properties that follow from it; then, at the end, *)
(* that every step of PkRpc is a step of AgentService or none.             *)
(***************************************************************************)
EXTENDS PkRpc, FiniteSetTheorems, SequenceTheorems, TLAPS

(***************************************************************************)
(* The agent.  Its objects are records with the fields of their kind, are  *)
(* numbered from 0 without a gap, and a source is in the array of the      *)
(* channel that it keeps, there only and once.                             *)
(***************************************************************************)
ChannelFields ==
  {"registered", "state", "target", "working_dir", "args", "env", "pid",
   "pid_set", "kill_pid", "exit_status", "sources", "watched", "created_at"}
SourceFields == {"registered", "plugin", "channel"}
SubscriptionFields ==
  {"registered", "muted", "channels", "sources", "timeout", "size",
   "created_at"}

Shaped(objects, fields) ==
  \A id \in DOMAIN objects : DOMAIN objects[id] = fields
AgentShape(a) ==
  /\ DOMAIN a = {"channels", "sources", "subscriptions", "now"}
  /\ Shaped(a.channels, ChannelFields)
  /\ Shaped(a.sources, SourceFields)
  /\ Shaped(a.subscriptions, SubscriptionFields)

Numbered(objects) == \E n \in Nat : DOMAIN objects = 0..(n - 1)

Attachments(a) ==
  /\ \A ch \in DOMAIN a.channels : a.channels[ch].sources \in Seq(DOMAIN a.sources)
  /\ \A id \in DOMAIN a.sources :
       a.sources[id].channel \in DOMAIN a.channels \cup {NULL}
  /\ \A ch \in DOMAIN a.channels :
       \A k \in DOMAIN a.channels[ch].sources :
         a.sources[a.channels[ch].sources[k]].channel = ch
  /\ \A ch \in DOMAIN a.channels, id \in DOMAIN a.sources :
       a.sources[id].channel = ch =>
         \E k \in DOMAIN a.channels[ch].sources : a.channels[ch].sources[k] = id
  /\ \A ch \in DOMAIN a.channels :
       \A k, l \in DOMAIN a.channels[ch].sources :
         a.channels[ch].sources[k] = a.channels[ch].sources[l] => k = l

AgentOK(a) ==
  /\ AgentShape(a)
  /\ Numbered(a.channels) /\ Numbered(a.sources) /\ Numbered(a.subscriptions)
  /\ Attachments(a)

RegistryPaths(a) ==
  FirstPaths
    \cup {Path("Channel", id) : id \in Registered(a.channels)}
    \cup {Path("Source", id) : id \in Registered(a.sources)}
    \cup {Path("Subscription", id) : id \in Registered(a.subscriptions)}

\* Channels leave their registry when the agent ends, and not before.
ChannelsStay(a) == Registered(a.channels) = DOMAIN a.channels

(***************************************************************************)
(* Most operations change fields that neither the registries nor the       *)
(* arrays of sources depend on, and tell the listeners nothing.            *)
(***************************************************************************)
Kept(a, b) ==
  /\ AgentShape(b)
  /\ DOMAIN b.channels = DOMAIN a.channels
  /\ DOMAIN b.sources = DOMAIN a.sources
  /\ DOMAIN b.subscriptions = DOMAIN a.subscriptions
  /\ \A id \in DOMAIN a.channels :
       /\ b.channels[id].registered = a.channels[id].registered
       /\ b.channels[id].sources = a.channels[id].sources
  /\ \A id \in DOMAIN a.sources :
       /\ b.sources[id].registered = a.sources[id].registered
       /\ b.sources[id].channel = a.sources[id].channel
  /\ \A id \in DOMAIN a.subscriptions :
       b.subscriptions[id].registered = a.subscriptions[id].registered

Quiet(a, r) == r.notify = <<>> /\ Kept(a, r.agent)

LEMMA KeptIsOK ==
  ASSUME NEW a, AgentOK(a), NEW b, Kept(a, b)
  PROVE  /\ AgentOK(b)
         /\ RegistryPaths(b) = RegistryPaths(a)
         /\ ChannelsStay(a) => ChannelsStay(b)
<1>1. /\ Registered(b.channels) = Registered(a.channels)
      /\ Registered(b.sources) = Registered(a.sources)
      /\ Registered(b.subscriptions) = Registered(a.subscriptions)
  BY DEF Kept, Registered
<1>2. RegistryPaths(b) = RegistryPaths(a)
  BY <1>1 DEF RegistryPaths
<1>3. Numbered(b.channels) /\ Numbered(b.sources) /\ Numbered(b.subscriptions)
  BY DEF Kept, AgentOK, Numbered
<1>4. Attachments(b)
  BY DEF Kept, AgentOK, Attachments
<1>. QED
  BY <1>1, <1>2, <1>3, <1>4 DEF Kept, AgentOK, ChannelsStay

LEMMA QuietChannel ==
  ASSUME NEW a, AgentShape(a), NEW channel \in DOMAIN a.channels, NEW value
  PROVE  /\ Quiet(a, pka_channel_set_target(a, channel, value))
         /\ Quiet(a, pka_channel_set_working_dir(a, channel, value))
         /\ Quiet(a, pka_channel_set_args(a, channel, value))
         /\ Quiet(a, pka_channel_set_env(a, channel, value))
         /\ Quiet(a, pka_channel_set_pid(a, channel, value))
         /\ Quiet(a, pka_channel_set_kill_pid(a, channel, value))
         /\ Quiet(a, pka_channel_get_exit_status(a, channel))
         /\ Quiet(a, pka_channel_start(a, channel, value))
         /\ Quiet(a, pka_channel_stop(a, channel))
         /\ Quiet(a, pka_channel_mute(a, channel))
         /\ Quiet(a, pka_channel_unmute(a, channel))
         /\ Kept(a, pka_channel_inferior_exited(a, channel, value))
<1>. USE DEF EnsureReady, Ok, Failed, Quiet, Kept, AgentShape, Shaped, ChannelFields
<1>1. Quiet(a, pka_channel_set_target(a, channel, value))
  BY DEF pka_channel_set_target
<1>2. Quiet(a, pka_channel_set_working_dir(a, channel, value))
  BY DEF pka_channel_set_working_dir
<1>3. Quiet(a, pka_channel_set_args(a, channel, value))
  BY DEF pka_channel_set_args
<1>4. Quiet(a, pka_channel_set_env(a, channel, value))
  BY DEF pka_channel_set_env
<1>5. Quiet(a, pka_channel_set_pid(a, channel, value))
  BY DEF pka_channel_set_pid
<1>6. Quiet(a, pka_channel_set_kill_pid(a, channel, value))
  BY DEF pka_channel_set_kill_pid
<1>7. Quiet(a, pka_channel_get_exit_status(a, channel))
  BY DEF pka_channel_get_exit_status
<1>8. Quiet(a, pka_channel_start(a, channel, value))
  BY DEF pka_channel_start
<1>9. Quiet(a, pka_channel_stop(a, channel))
  BY DEF pka_channel_stop
<1>10. Quiet(a, pka_channel_mute(a, channel))
  BY DEF pka_channel_mute
<1>11. Quiet(a, pka_channel_unmute(a, channel))
  BY DEF pka_channel_unmute
<1>12. Kept(a, pka_channel_inferior_exited(a, channel, value))
  BY DEF pka_channel_inferior_exited, pka_channel_stop
<1>. QED
  BY <1>1, <1>2, <1>3, <1>4, <1>5, <1>6, <1>7, <1>8, <1>9, <1>10, <1>11, <1>12

LEMMA QuietSubscription ==
  ASSUME NEW a, AgentShape(a), NEW subscription \in DOMAIN a.subscriptions,
         NEW x, NEW y
  PROVE  /\ Quiet(a, pka_subscription_add_source(a, subscription, x))
         /\ Quiet(a, pka_subscription_remove_source(a, subscription, x))
         /\ Quiet(a, pka_subscription_add_channel(a, subscription, x))
         /\ Quiet(a, pka_subscription_remove_channel(a, subscription, x))
         /\ Quiet(a, pka_subscription_mute(a, subscription, x))
         /\ Quiet(a, pka_subscription_unmute(a, subscription))
         /\ Quiet(a, pka_subscription_set_buffer(a, subscription, x, y))
<1>. USE DEF Ok, Quiet, Kept, AgentShape, Shaped, SubscriptionFields
<1>1. Quiet(a, pka_subscription_add_source(a, subscription, x))
  BY DEF pka_subscription_add_source
<1>2. Quiet(a, pka_subscription_remove_source(a, subscription, x))
  BY DEF pka_subscription_remove_source
<1>3. Quiet(a, pka_subscription_add_channel(a, subscription, x))
  BY DEF pka_subscription_add_channel
<1>4. Quiet(a, pka_subscription_remove_channel(a, subscription, x))
  BY DEF pka_subscription_remove_channel
<1>5. Quiet(a, pka_subscription_mute(a, subscription, x))
  BY DEF pka_subscription_mute, pka_subscription_set_state
<1>6. Quiet(a, pka_subscription_unmute(a, subscription))
  BY DEF pka_subscription_unmute, pka_subscription_set_state
<1>7. Quiet(a, pka_subscription_set_buffer(a, subscription, x, y))
  BY DEF pka_subscription_set_buffer
<1>. QED
  BY <1>1, <1>2, <1>3, <1>4, <1>5, <1>6, <1>7

\* What the finders answer, and what their errors do.
LEMMA Found ==
  ASSUME NEW a, AgentShape(a), NEW id, NEW r
  PROVE  /\ Quiet(a, Ok(a, r)) /\ Quiet(a, Failed(a, r))
         /\ \/ id \in DOMAIN a.channels /\ IfFound(pka_manager_find_channel(a, id), r) = r
            \/ Quiet(a, IfFound(pka_manager_find_channel(a, id), r))
         /\ \/ id \in DOMAIN a.sources /\ IfFound(pka_manager_find_source(a, id), r) = r
            \/ Quiet(a, IfFound(pka_manager_find_source(a, id), r))
         /\ \/ id \in DOMAIN a.subscriptions /\ IfFound(pka_manager_find_subscription(a, id), r) = r
            \/ Quiet(a, IfFound(pka_manager_find_subscription(a, id), r))
         /\ \/ id \in ToSet(Plugins) /\ IfFound(pka_manager_find_plugin(a, id), r) = r
            \/ Quiet(a, IfFound(pka_manager_find_plugin(a, id), r))
<1>1. Quiet(a, Ok(a, r)) /\ Quiet(a, Failed(a, r))
  BY DEF Quiet, Kept, Ok, Failed
<1>. QED
  BY <1>1 DEF Quiet, Kept, Ok, Failed, IfFound, pka_manager_find_channel, pka_manager_find_source,
     pka_manager_find_subscription, pka_manager_find_plugin, Registered

\* The procedures that change the registries or the arrays of sources.
Registering ==
  {"manager_add_channel", "manager_add_source", "manager_add_subscription",
   "manager_remove_source", "manager_remove_subscription",
   "channel_add_source"}

\* Those that only answer.
Reading ==
  {"manager_get_channels", "manager_get_hostname", "manager_get_plugins",
   "manager_get_sources", "manager_get_subscriptions", "manager_get_version",
   "manager_ping", "channel_get_args", "channel_get_created_at",
   "channel_get_env", "channel_get_exit_status", "channel_get_kill_pid",
   "channel_get_pid", "channel_get_pid_set", "channel_get_sources",
   "channel_get_state", "channel_get_target", "channel_get_working_dir",
   "source_get_plugin", "encoder_get_plugin", "plugin_get_copyright",
   "plugin_get_description", "plugin_get_name", "plugin_get_plugin_type",
   "plugin_get_version", "subscription_get_buffer",
   "subscription_get_created_at", "subscription_get_sources"}

LEMMA QuietReading ==
  ASSUME NEW a, AgentShape(a), NEW in, NEW s, NEW op \in Reading
  PROVE  Quiet(a, Performed(a, op, in, s))
<1>1. CASE op \in {"manager_get_channels", "manager_get_hostname", "manager_get_plugins",
                    "manager_get_sources", "manager_get_subscriptions",
                    "manager_get_version", "manager_ping"}
  BY <1>1, Found
  DEF Performed, pka_listener_manager_get_channels,
      pka_listener_manager_get_hostname, pka_listener_manager_get_plugins,
      pka_listener_manager_get_sources,
      pka_listener_manager_get_subscriptions,
      pka_listener_manager_get_version, pka_listener_manager_ping
<1>2. CASE op \in {"channel_get_args", "channel_get_created_at", "channel_get_env",
                    "channel_get_exit_status", "channel_get_kill_pid",
                    "channel_get_pid", "channel_get_pid_set",
                    "channel_get_sources", "channel_get_state",
                    "channel_get_target", "channel_get_working_dir"}
  BY <1>2, Found
  DEF Performed, pka_listener_channel_get_args,
      pka_listener_channel_get_created_at, pka_listener_channel_get_env,
      pka_listener_channel_get_exit_status, pka_listener_channel_get_kill_pid,
      pka_listener_channel_get_pid, pka_listener_channel_get_pid_set,
      pka_listener_channel_get_sources, pka_listener_channel_get_state,
      pka_listener_channel_get_target, pka_listener_channel_get_working_dir,
      pka_channel_get_exit_status
<1>3. CASE op \in {"source_get_plugin"}
  BY <1>3, Found
  DEF Performed, pka_listener_source_get_plugin
<1>4. CASE op \in {"encoder_get_plugin"}
  BY <1>4, Found
  DEF Performed, pka_listener_encoder_get_plugin
<1>5. CASE op \in {"plugin_get_copyright", "plugin_get_description", "plugin_get_name",
                    "plugin_get_plugin_type", "plugin_get_version"}
  BY <1>5, Found
  DEF Performed, pka_listener_plugin_get_copyright,
      pka_listener_plugin_get_description, pka_listener_plugin_get_name,
      pka_listener_plugin_get_plugin_type, pka_listener_plugin_get_version
<1>6. CASE op \in {"subscription_get_buffer", "subscription_get_created_at",
                    "subscription_get_sources"}
  BY <1>6, Found
  DEF Performed, pka_listener_subscription_get_buffer,
      pka_listener_subscription_get_created_at,
      pka_listener_subscription_get_sources
<1>. QED
  BY <1>1, <1>2, <1>3, <1>4, <1>5, <1>6 DEF Reading

\* Those that change the fields of one object.
Changing ==
  {"manager_remove_channel", "channel_mute", "channel_set_args",
   "channel_set_env", "channel_set_kill_pid", "channel_set_pid",
   "channel_set_target", "channel_set_working_dir", "channel_start",
   "channel_stop", "channel_unmute", "subscription_add_channel",
   "subscription_add_source", "subscription_mute",
   "subscription_remove_channel", "subscription_remove_source",
   "subscription_set_buffer", "subscription_unmute"}

LEMMA QuietChanging ==
  ASSUME NEW a, AgentShape(a), NEW in, NEW s, NEW op \in Changing
  PROVE  Quiet(a, Performed(a, op, in, s))
<1>1. CASE op = "manager_remove_channel"
  BY <1>1 DEF Performed, pka_listener_manager_remove_channel, Quiet, Kept,
     pka_manager_remove_channel, IfFound, pka_manager_find_channel, Ok, Failed
<1>2. CASE op \in {"channel_set_args", "channel_set_env",
                   "channel_set_kill_pid", "channel_set_pid",
                   "channel_set_target", "channel_set_working_dir"}
  BY <1>2, Found, QuietChannel
  DEF Performed, pka_listener_channel_set_args, pka_listener_channel_set_env,
      pka_listener_channel_set_kill_pid, pka_listener_channel_set_pid,
      pka_listener_channel_set_target, pka_listener_channel_set_working_dir
<1>3. CASE op \in {"channel_mute", "channel_start", "channel_stop",
                   "channel_unmute"}
  BY <1>3, Found, QuietChannel
  DEF Performed, pka_listener_channel_mute, pka_listener_channel_start,
      pka_listener_channel_stop, pka_listener_channel_unmute
<1>4. CASE op \in {"subscription_mute", "subscription_set_buffer",
                   "subscription_unmute"}
  BY <1>4, Found, QuietSubscription
  DEF Performed, pka_listener_subscription_mute,
      pka_listener_subscription_set_buffer, pka_listener_subscription_unmute
<1>5. CASE op \in {"subscription_add_channel", "subscription_remove_channel"}
  <2>1. ASSUME NEW r, in[1] \in DOMAIN a.subscriptions => Quiet(a, r)
        PROVE  Quiet(a, IfFound(pka_manager_find_subscription(a, in[1]),
                          IfFound(pka_manager_find_channel(a, in[2]), r)))
    <3>. DEFINE q == IfFound(pka_manager_find_channel(a, in[2]), r)
    <3>1. q = r \/ Quiet(a, q)
      BY Found
    <3>. HIDE DEF q
    <3>. QED BY <2>1, <3>1, Found
  <2>. QED
    BY <1>5, <2>1, QuietSubscription
    DEF Performed, pka_listener_subscription_add_channel,
        pka_listener_subscription_remove_channel
<1>6. CASE op \in {"subscription_add_source", "subscription_remove_source"}
  <2>1. ASSUME NEW r, in[1] \in DOMAIN a.subscriptions => Quiet(a, r)
        PROVE  Quiet(a, IfFound(pka_manager_find_subscription(a, in[1]),
                          IfFound(pka_manager_find_source(a, in[2]), r)))
    <3>. DEFINE q == IfFound(pka_manager_find_source(a, in[2]), r)
    <3>1. q = r \/ Quiet(a, q)
      BY Found
    <3>. HIDE DEF q
    <3>. QED BY <2>1, <3>1, Found
  <2>. QED
    BY <1>6, <2>1, QuietSubscription
    DEF Performed, pka_listener_subscription_add_source,
        pka_listener_subscription_remove_source
<1>. QED
  BY <1>1, <1>2, <1>3, <1>4, <1>5, <1>6 DEF Changing

(***************************************************************************)
(* The procedures that register and attach.                                *)
(***************************************************************************)
LEMMA SeqGrows ==
  ASSUME NEW S, NEW T, S \subseteq T, NEW seq \in Seq(S)
  PROVE  seq \in Seq(T)
  OBVIOUS

LEMMA NextIsNew ==
  ASSUME NEW objects, Numbered(objects), NEW o
  PROVE  LET b == Append1(objects, o)
         IN  /\ NextId(objects) \notin DOMAIN objects
             /\ NextId(objects) \in Nat
             /\ DOMAIN b = DOMAIN objects \cup {NextId(objects)}
             /\ \A id \in DOMAIN objects : b[id] = objects[id]
             /\ b[NextId(objects)] = o
             /\ Numbered(b)
<1>1. PICK n \in Nat : DOMAIN objects = 0..(n - 1)
  BY DEF Numbered
<1>2. NextId(objects) = n
  BY <1>1, FS_Interval, Cardinality(0..(n - 1)) = n DEF NextId
<1>. QED
  BY <1>1, <1>2 DEF Append1, Numbered

Sound(a, r) ==
  /\ AgentOK(r.agent)
  /\ RegistryPaths(r.agent) = AllNotified(RegistryPaths(a), r.notify)
  /\ ChannelsStay(a) => ChannelsStay(r.agent)

LEMMA QuietIsSound ==
  ASSUME NEW a, AgentOK(a), NEW r, Quiet(a, r)
  PROVE  Sound(a, r)
  BY KeptIsOK DEF Quiet, Sound, AllNotified

LEMMA AddChannelSound ==
  ASSUME NEW a, AgentOK(a)
  PROVE  Sound(a, pka_manager_add_channel(a))
<1>. DEFINE id == NextId(a.channels)
            o == pka_channel_init(a.now)
            objects == Append1(a.channels, o)
            b == [a EXCEPT !.channels = objects, !.now = @ + 1]
            r == pka_manager_add_channel(a)
<1>1. /\ r.agent = b
      /\ r.notify = <<[event |-> "added", object |-> "Channel", id |-> id]>>
  BY DEF pka_manager_add_channel, Notify, Ok
<1>2. /\ id \notin DOMAIN a.channels
      /\ id \in Nat
      /\ DOMAIN objects = DOMAIN a.channels \cup {id}
      /\ \A i \in DOMAIN a.channels : objects[i] = a.channels[i]
      /\ objects[id] = o
      /\ Numbered(objects)
  BY NextIsNew DEF AgentOK
<1>3. /\ b.channels = objects /\ b.sources = a.sources
      /\ b.subscriptions = a.subscriptions
      /\ DOMAIN b = DOMAIN a
  BY DEF AgentOK, AgentShape
<1>. HIDE DEF b, objects, id
<1>4. DOMAIN o = ChannelFields /\ o.registered /\ o.sources = <<>>
  BY DEF pka_channel_init, ChannelFields
<1>. HIDE DEF o
<1>5. AgentShape(b)
  BY <1>2, <1>3, <1>4 DEF AgentOK, AgentShape, Shaped
<1>6. Attachments(b)
  <2>1. \A ch \in DOMAIN b.channels : b.channels[ch].sources =
          IF ch = id THEN <<>> ELSE a.channels[ch].sources
    BY <1>2, <1>3, <1>4
  <2>2. \A i \in DOMAIN a.sources : a.sources[i].channel # id
    BY <1>2, ValuesAssumption DEF AgentOK, Attachments
  <2>3. \A ch \in DOMAIN b.channels : b.channels[ch].sources \in Seq(DOMAIN b.sources)
    <3>1. <<>> \in Seq(DOMAIN a.sources)
      OBVIOUS
    <3>2. \A ch \in DOMAIN a.channels : a.channels[ch].sources \in Seq(DOMAIN a.sources)
      BY DEF AgentOK, Attachments
    <3>. QED
      BY <1>2, <1>3, <2>1, <3>1, <3>2
  <2>4. \A ch \in DOMAIN b.channels :
          ch \in DOMAIN a.channels \/ DOMAIN b.channels[ch].sources = {}
    BY <1>2, <1>3, <2>1
  <2>. QED
    BY <1>2, <1>3, <2>1, <2>2, <2>3, <2>4 DEF AgentOK, Attachments
<1>7. Registered(b.channels) = Registered(a.channels) \cup {id}
  BY <1>2, <1>3, <1>4 DEF Registered
<1>8. RegistryPaths(b) = RegistryPaths(a) \cup {Path("Channel", id)}
  BY <1>3, <1>7 DEF RegistryPaths
<1>9. AllNotified(RegistryPaths(a), r.notify) = RegistryPaths(a) \cup {Path("Channel", id)}
  BY <1>1 DEF AllNotified, Notified, pka_listener_dbus_channel_added, Added
<1>. QED
  BY <1>1, <1>2, <1>3, <1>5, <1>6, <1>7, <1>8, <1>9 DEF Sound, AgentOK, ChannelsStay

LEMMA AddSourceSound ==
  ASSUME NEW a, AgentOK(a), NEW plugin
  PROVE  Sound(a, pka_manager_add_source(a, plugin))
<1>. DEFINE id == NextId(a.sources)
            o == [registered |-> TRUE, plugin |-> plugin, channel |-> NULL]
            objects == Append1(a.sources, o)
            b == [a EXCEPT !.sources = objects]
            r == pka_manager_add_source(a, plugin)
<1>1. CASE PluginInfo[plugin].type # PKA_PLUGIN_SOURCE
  <2>1. Quiet(a, r)
    BY <1>1, Found DEF pka_manager_add_source, AgentOK
  <2>. QED
    BY <2>1, QuietIsSound
<1>2. CASE ~(PluginInfo[plugin].type # PKA_PLUGIN_SOURCE)
  <2>1. /\ r.agent = b
        /\ r.notify = <<[event |-> "added", object |-> "Source", id |-> id]>>
    BY <1>2 DEF pka_manager_add_source, Notify, Ok
  <2>2. /\ id \notin DOMAIN a.sources
        /\ DOMAIN objects = DOMAIN a.sources \cup {id}
        /\ \A i \in DOMAIN a.sources : objects[i] = a.sources[i]
        /\ objects[id] = o
        /\ Numbered(objects)
    BY NextIsNew DEF AgentOK
  <2>3. /\ b.channels = a.channels /\ b.sources = objects
        /\ b.subscriptions = a.subscriptions
        /\ DOMAIN b = DOMAIN a
    BY DEF AgentOK, AgentShape
  <2>. HIDE DEF b, objects, id
  <2>4. AgentShape(b)
    <3>1. DOMAIN o = SourceFields
      BY DEF SourceFields
    <3>. HIDE DEF o
    <3>. QED
      BY <2>2, <2>3, <3>1 DEF AgentOK, AgentShape, Shaped
  <2>5. Attachments(b)
    <3>1. \A ch \in DOMAIN a.channels :
            /\ a.channels[ch].sources \in Seq(DOMAIN b.sources)
            /\ \A k \in DOMAIN a.channels[ch].sources :
                 a.channels[ch].sources[k] \in DOMAIN a.sources
      BY <2>2, <2>3, SeqGrows DEF AgentOK, Attachments
    <3>2. NULL \notin DOMAIN a.channels
      BY ValuesAssumption DEF AgentOK, Numbered
    <3>. QED
      BY <2>2, <2>3, <3>1, <3>2 DEF AgentOK, Attachments
  <2>6. Registered(b.sources) = Registered(a.sources) \cup {id}
    BY <2>2, <2>3 DEF Registered
  <2>7. RegistryPaths(b) = RegistryPaths(a) \cup {Path("Source", id)}
    BY <2>3, <2>6 DEF RegistryPaths
  <2>8. AllNotified(RegistryPaths(a), r.notify) = RegistryPaths(a) \cup {Path("Source", id)}
    BY <2>1 DEF AllNotified, Notified, pka_listener_dbus_source_added, Added
  <2>. QED
    BY <2>1, <2>2, <2>3, <2>4, <2>5, <2>7, <2>8 DEF Sound, AgentOK, ChannelsStay
<1>. QED
  BY <1>1, <1>2

LEMMA AddSubscriptionSound ==
  ASSUME NEW a, AgentOK(a)
  PROVE  Sound(a, pka_manager_add_subscription(a))
<1>. DEFINE id == NextId(a.subscriptions)
            o == pka_subscription_new(a.now)
            objects == Append1(a.subscriptions, o)
            b == [a EXCEPT !.subscriptions = objects, !.now = @ + 1]
            r == pka_manager_add_subscription(a)
<1>1. /\ r.agent = b
      /\ r.notify = <<[event |-> "added", object |-> "Subscription", id |-> id]>>
  BY DEF pka_manager_add_subscription, Notify, Ok
<1>2. /\ id \notin DOMAIN a.subscriptions
      /\ DOMAIN objects = DOMAIN a.subscriptions \cup {id}
      /\ \A i \in DOMAIN a.subscriptions : objects[i] = a.subscriptions[i]
      /\ objects[id] = o
      /\ Numbered(objects)
  BY NextIsNew DEF AgentOK
<1>3. /\ b.channels = a.channels /\ b.sources = a.sources
      /\ b.subscriptions = objects
      /\ DOMAIN b = DOMAIN a
  BY DEF AgentOK, AgentShape
<1>. HIDE DEF b, objects, id
<1>4. DOMAIN o = SubscriptionFields /\ o.registered
  BY DEF pka_subscription_new, SubscriptionFields
<1>. HIDE DEF o
<1>5. AgentShape(b)
  BY <1>2, <1>3, <1>4 DEF AgentOK, AgentShape, Shaped
<1>6. Attachments(b)
  BY <1>3 DEF AgentOK, Attachments
<1>7. Registered(b.subscriptions) = Registered(a.subscriptions) \cup {id}
  BY <1>2, <1>3, <1>4 DEF Registered
<1>8. RegistryPaths(b) = RegistryPaths(a) \cup {Path("Subscription", id)}
  BY <1>3, <1>7 DEF RegistryPaths
<1>9. AllNotified(RegistryPaths(a), r.notify) = RegistryPaths(a) \cup {Path("Subscription", id)}
  BY <1>1 DEF AllNotified, Notified, pka_listener_dbus_subscription_added, Added
<1>. QED
  BY <1>1, <1>2, <1>3, <1>5, <1>6, <1>8, <1>9 DEF Sound, AgentOK, ChannelsStay

LEMMA FirstPathsAreOthers ==
  ASSUME NEW id
  PROVE  /\ Path("Channel", id) \notin FirstPaths
         /\ Path("Source", id) \notin FirstPaths
         /\ Path("Subscription", id) \notin FirstPaths
         /\ Path("Encoder", id) \notin FirstPaths
  BY DEF FirstPaths, Path, ManagerPath

LEMMA PathsAreOthers ==
  ASSUME NEW object, NEW id, NEW other, NEW object2
  PROVE  /\ object # object2 => Path(object, id) # Path(object2, other)
         /\ id # other => Path(object, id) # Path(object, other)
<1>1. Path(object, id).object = object /\ Path(object, id).id = id
  BY DEF Path
<1>2. Path(object2, other).object = object2 /\ Path(object, other).id = other
  BY DEF Path
<1>. QED
  BY <1>1, <1>2

LEMMA RemoveSourceSound ==
  ASSUME NEW a, AgentOK(a), NEW source \in Registered(a.sources)
  PROVE  Sound(a, pka_manager_remove_source(a, source))
<1>. DEFINE b == [a EXCEPT !.sources[source].registered = FALSE]
            r == pka_manager_remove_source(a, source)
<1>1. /\ r.agent = b
      /\ r.notify = <<[event |-> "removed", object |-> "Source", id |-> source]>>
  BY DEF pka_manager_remove_source, Notify, Ok
<1>2. source \in DOMAIN a.sources
  BY DEF Registered
<1>3. /\ b.channels = a.channels /\ b.subscriptions = a.subscriptions
      /\ DOMAIN b = DOMAIN a
      /\ DOMAIN b.sources = DOMAIN a.sources
      /\ \A id \in DOMAIN a.sources : b.sources[id] =
           IF id = source THEN [a.sources[id] EXCEPT !.registered = FALSE]
           ELSE a.sources[id]
  BY <1>2 DEF AgentOK, AgentShape
<1>. HIDE DEF b
<1>4. AgentShape(b)
  BY <1>3 DEF AgentOK, AgentShape, Shaped
<1>5. \A id \in DOMAIN a.sources : b.sources[id].channel = a.sources[id].channel
  BY <1>3 DEF AgentOK, AgentShape, Shaped, SourceFields
<1>6. Attachments(b)
  BY <1>3, <1>5 DEF AgentOK, Attachments
<1>7. Registered(b.sources) = Registered(a.sources) \ {source}
  BY <1>3 DEF Registered, AgentOK, AgentShape, Shaped, SourceFields
<1>8. RegistryPaths(b) = RegistryPaths(a) \ {Path("Source", source)}
  BY <1>3, <1>7, FirstPathsAreOthers, PathsAreOthers DEF RegistryPaths
<1>9. AllNotified(RegistryPaths(a), r.notify) = RegistryPaths(a) \ {Path("Source", source)}
  BY <1>1 DEF AllNotified, Notified, pka_listener_dbus_source_removed, Removed
<1>. QED
  BY <1>1, <1>3, <1>4, <1>6, <1>8, <1>9 DEF Sound, AgentOK, ChannelsStay, Numbered

LEMMA RemoveSubscriptionSound ==
  ASSUME NEW a, AgentOK(a), NEW subscription \in Registered(a.subscriptions)
  PROVE  Sound(a, pka_manager_remove_subscription(a, subscription))
<1>. DEFINE b == [a EXCEPT !.subscriptions[subscription].registered = FALSE]
            r == pka_manager_remove_subscription(a, subscription)
<1>1. /\ r.agent = b
      /\ r.notify = <<[event |-> "removed", object |-> "Subscription",
                       id |-> subscription]>>
  BY DEF pka_manager_remove_subscription, Notify, Ok
<1>2. subscription \in DOMAIN a.subscriptions
  BY DEF Registered
<1>3. /\ b.channels = a.channels /\ b.sources = a.sources
      /\ DOMAIN b = DOMAIN a
      /\ DOMAIN b.subscriptions = DOMAIN a.subscriptions
      /\ \A id \in DOMAIN a.subscriptions : b.subscriptions[id] =
           IF id = subscription
           THEN [a.subscriptions[id] EXCEPT !.registered = FALSE]
           ELSE a.subscriptions[id]
  BY <1>2 DEF AgentOK, AgentShape
<1>. HIDE DEF b
<1>4. AgentShape(b)
  BY <1>3 DEF AgentOK, AgentShape, Shaped
<1>5. Attachments(b)
  BY <1>3 DEF AgentOK, Attachments
<1>6. Registered(b.subscriptions) = Registered(a.subscriptions) \ {subscription}
  BY <1>3 DEF Registered, AgentOK, AgentShape, Shaped, SubscriptionFields
<1>7. RegistryPaths(b) = RegistryPaths(a) \ {Path("Subscription", subscription)}
  BY <1>3, <1>6, FirstPathsAreOthers, PathsAreOthers DEF RegistryPaths
<1>8. AllNotified(RegistryPaths(a), r.notify)
        = RegistryPaths(a) \ {Path("Subscription", subscription)}
  BY <1>1 DEF AllNotified, Notified, pka_listener_dbus_subscription_removed, Removed
<1>. QED
  BY <1>1, <1>3, <1>4, <1>5, <1>7, <1>8 DEF Sound, AgentOK, ChannelsStay, Numbered

LEMMA AppendOnce ==
  ASSUME NEW S, NEW seq \in Seq(S), NEW e, NEW b, b = Append(seq, e)
  PROVE  /\ e \in S => b \in Seq(S)
         /\ DOMAIN b = DOMAIN seq \cup {Len(seq) + 1}
         /\ Len(seq) + 1 \notin DOMAIN seq
         /\ \A k \in DOMAIN seq : b[k] = seq[k]
         /\ b[Len(seq) + 1] = e
  OBVIOUS

LEMMA ChannelAddSourceSound ==
  ASSUME NEW a, AgentOK(a), NEW channel \in DOMAIN a.channels,
         NEW source \in DOMAIN a.sources
  PROVE  Sound(a, pka_channel_add_source(a, channel, source))
<1>. DEFINE r == pka_channel_add_source(a, channel, source)
            b == r.agent
            listed == a.channels[channel].sources
<1>1. CASE Attached(a, source)
  <2>1. Quiet(a, r)
    BY <1>1, Found DEF pka_channel_add_source, AgentOK
  <2>. QED
    BY <2>1, QuietIsSound
<1>2. CASE ~Attached(a, source)
  <2>1. r.notify = <<>>
    BY <1>2 DEF pka_channel_add_source, Ok
  <2>2. /\ DOMAIN b = DOMAIN a
        /\ DOMAIN b.channels = DOMAIN a.channels
        /\ DOMAIN b.sources = DOMAIN a.sources
        /\ DOMAIN b.subscriptions = DOMAIN a.subscriptions
        /\ \A ch \in DOMAIN a.channels : b.channels[ch] =
             IF ch = channel
             THEN [a.channels[ch] EXCEPT !.sources = Append(@, source)]
             ELSE a.channels[ch]
        /\ \A id \in DOMAIN a.sources : b.sources[id] =
             IF id = source THEN [a.sources[id] EXCEPT !.channel = channel]
             ELSE a.sources[id]
        /\ \A s \in DOMAIN a.subscriptions : b.subscriptions[s] =
             IF channel \in a.subscriptions[s].channels
             THEN [a.subscriptions[s] EXCEPT !.sources = @ \cup {source}]
             ELSE a.subscriptions[s]
    <3>. DEFINE heard == [s \in DOMAIN a.subscriptions |->
                            IF channel \in a.subscriptions[s].channels
                            THEN [a.subscriptions[s] EXCEPT !.sources = @ \cup {source}]
                            ELSE a.subscriptions[s]]
                longer == Append(listed, source)
    <3>1. DOMAIN a = {"channels", "sources", "subscriptions", "now"}
      BY DEF AgentOK, AgentShape
    <3>2. b = [[[a EXCEPT !.sources[source].channel = channel]
                   EXCEPT !.channels[channel].sources = longer]
                 EXCEPT !.subscriptions = heard]
      BY <1>2, <3>1 DEF pka_channel_add_source, Ok
    <3>. HIDE DEF b, r, heard, longer
    <3>3. /\ DOMAIN b = DOMAIN a
          /\ b.channels = [a.channels EXCEPT ![channel].sources = longer]
          /\ b.sources = [a.sources EXCEPT ![source].channel = channel]
          /\ b.subscriptions = heard
      BY <3>1, <3>2
    <3>4. \A s \in DOMAIN a.subscriptions : b.subscriptions[s] =
             IF channel \in a.subscriptions[s].channels
             THEN [a.subscriptions[s] EXCEPT !.sources = @ \cup {source}]
             ELSE a.subscriptions[s]
      BY <3>3 DEF heard
    <3>5. DOMAIN b.subscriptions = DOMAIN a.subscriptions
      BY <3>3 DEF heard
    <3>6. \A ch \in DOMAIN a.channels : b.channels[ch] =
             IF ch = channel
             THEN [a.channels[ch] EXCEPT !.sources = Append(@, source)]
             ELSE a.channels[ch]
      BY <3>3 DEF longer
    <3>. QED
      BY <3>3, <3>4, <3>5, <3>6
  <2>3. a.sources[source].channel = NULL
    BY <1>2 DEF Attached
  <2>. HIDE DEF r, b
  <2>4. AgentShape(b)
    BY <2>2 DEF AgentOK, AgentShape, Shaped
  <2>5. /\ \A ch \in DOMAIN a.channels :
             /\ b.channels[ch].registered = a.channels[ch].registered
             /\ b.channels[ch].sources = IF ch = channel THEN Append(listed, source)
                                         ELSE a.channels[ch].sources
        /\ \A id \in DOMAIN a.sources :
             /\ b.sources[id].registered = a.sources[id].registered
             /\ b.sources[id].channel = IF id = source THEN channel
                                        ELSE a.sources[id].channel
        /\ \A s \in DOMAIN a.subscriptions :
             b.subscriptions[s].registered = a.subscriptions[s].registered
    <3>1. \A ch \in DOMAIN a.channels : "registered" \in DOMAIN a.channels[ch]
                                        /\ "sources" \in DOMAIN a.channels[ch]
      BY DEF AgentOK, AgentShape, Shaped, ChannelFields
    <3>2. \A id \in DOMAIN a.sources : "registered" \in DOMAIN a.sources[id]
                                       /\ "channel" \in DOMAIN a.sources[id]
      BY DEF AgentOK, AgentShape, Shaped, SourceFields
    <3>3. \A s \in DOMAIN a.subscriptions :
            "registered" \in DOMAIN a.subscriptions[s]
      BY DEF AgentOK, AgentShape, Shaped, SubscriptionFields
    <3>. QED
      BY <2>2, <3>1, <3>2, <3>3
  <2>6. Attachments(b)
    <3>1. listed \in Seq(DOMAIN a.sources)
      BY DEF AgentOK, Attachments
    <3>. DEFINE longer == Append(listed, source)
                last == Len(listed) + 1
    <3>0. /\ listed = a.channels[channel].sources
          /\ \A ch \in DOMAIN a.channels : b.channels[ch].sources =
               IF ch = channel THEN longer ELSE a.channels[ch].sources
      BY <2>5
    <3>. HIDE DEF listed
    <3>2. /\ longer \in Seq(DOMAIN a.sources)
          /\ DOMAIN longer = DOMAIN listed \cup {last}
          /\ last \notin DOMAIN listed
          /\ \A k \in DOMAIN listed : longer[k] = listed[k]
          /\ longer[last] = source
      BY <3>1, AppendOnce
    <3>3. NULL \notin DOMAIN a.channels
      BY ValuesAssumption DEF AgentOK, Numbered
    <3>4. \A ch \in DOMAIN a.channels :
            \A k \in DOMAIN a.channels[ch].sources :
              /\ a.channels[ch].sources[k] # source
              /\ a.channels[ch].sources[k] \in DOMAIN a.sources
      BY <2>3, <3>3 DEF AgentOK, Attachments
    <3>. HIDE DEF last, longer
    <3>5. \A ch \in DOMAIN b.channels : b.channels[ch].sources \in Seq(DOMAIN b.sources)
      BY <2>2, <3>0, <3>2 DEF AgentOK, Attachments
    <3>6. \A id \in DOMAIN b.sources :
            b.sources[id].channel \in DOMAIN b.channels \cup {NULL}
      BY <2>2, <2>5 DEF AgentOK, Attachments
    <3>7. \A ch \in DOMAIN b.channels :
            \A k \in DOMAIN b.channels[ch].sources :
              b.sources[b.channels[ch].sources[k]].channel = ch
      <4>. SUFFICES ASSUME NEW ch \in DOMAIN a.channels,
                           NEW k \in DOMAIN b.channels[ch].sources
                    PROVE  b.sources[b.channels[ch].sources[k]].channel = ch
        BY <2>2
      <4>1. CASE ch = channel /\ k = last
        BY <2>5, <3>0, <3>2, <4>1
      <4>2. CASE ~(ch = channel /\ k = last)
        <5>1. /\ k \in DOMAIN a.channels[ch].sources
              /\ b.channels[ch].sources[k] = a.channels[ch].sources[k]
          BY <3>0, <3>2, <4>2
        <5>2. a.sources[a.channels[ch].sources[k]].channel = ch
          BY <5>1 DEF AgentOK, Attachments
        <5>. QED BY <2>5, <3>4, <5>1, <5>2
      <4>. QED BY <4>1, <4>2
    <3>8. \A ch \in DOMAIN b.channels, id \in DOMAIN b.sources :
            b.sources[id].channel = ch =>
              \E k \in DOMAIN b.channels[ch].sources : b.channels[ch].sources[k] = id
      <4>. SUFFICES ASSUME NEW ch \in DOMAIN a.channels, NEW id \in DOMAIN a.sources,
                           b.sources[id].channel = ch
                    PROVE  \E k \in DOMAIN b.channels[ch].sources :
                             b.channels[ch].sources[k] = id
        BY <2>2
      <4>1. CASE id = source
        BY <2>5, <3>0, <3>2, <4>1
      <4>2. CASE id # source
        <5>1. PICK k \in DOMAIN a.channels[ch].sources : a.channels[ch].sources[k] = id
          BY <2>5, <4>2 DEF AgentOK, Attachments
        <5>2. k \in DOMAIN b.channels[ch].sources /\ b.channels[ch].sources[k] = id
          BY <3>0, <3>2, <5>1
        <5>. QED BY <5>2
      <4>. QED BY <4>1, <4>2
    <3>9. \A ch \in DOMAIN b.channels :
            \A k, l \in DOMAIN b.channels[ch].sources :
              b.channels[ch].sources[k] = b.channels[ch].sources[l] => k = l
      BY <2>2, <2>5, <3>0, <3>2, <3>4 DEF AgentOK, Attachments
    <3>. QED
      BY <3>5, <3>6, <3>7, <3>8, <3>9 DEF Attachments
  <2>7. /\ Registered(b.channels) = Registered(a.channels)
        /\ Registered(b.sources) = Registered(a.sources)
        /\ Registered(b.subscriptions) = Registered(a.subscriptions)
    BY <2>2, <2>5 DEF Registered
  <2>8. RegistryPaths(b) = AllNotified(RegistryPaths(a), r.notify)
    BY <2>1, <2>7 DEF RegistryPaths, AllNotified
  <2>9. AgentOK(b)
    BY <2>2, <2>4, <2>6 DEF AgentOK, Numbered
  <2>. QED
    BY <2>2, <2>7, <2>8, <2>9 DEF Sound, ChannelsStay, b, r
<1>. QED
  BY <1>1, <1>2

Procedures == Nullary \cup Unary \cup Binary \cup Ternary

LEMMA PerformedSound ==
  ASSUME NEW a, AgentOK(a), NEW op \in Procedures, NEW in, NEW s
  PROVE  Sound(a, Performed(a, op, in, s))
<1>1. op \in Reading \cup Changing \cup Registering
  BY DEF Procedures, Nullary, Unary, Binary, Ternary, Reading, Changing,
     Registering
<1>2. CASE op \in Reading
  BY <1>2, QuietReading, QuietIsSound DEF AgentOK
<1>3. CASE op \in Changing
  BY <1>3, QuietChanging, QuietIsSound DEF AgentOK
<1>4. \A e : Sound(a, Failed(a, e))
  BY Found, QuietIsSound DEF AgentOK
<1>5. CASE op \in Registering
  <2>1. CASE op \in {"manager_add_channel", "manager_add_subscription"}
    BY <2>1, AddChannelSound, AddSubscriptionSound
    DEF Performed, pka_listener_manager_add_channel,
        pka_listener_manager_add_subscription
  <2>2. CASE op = "manager_add_source"
    BY <2>2, <1>4, AddSourceSound
    DEF Performed, pka_listener_manager_add_source, IfFound,
        pka_manager_find_plugin, Ok, Failed
  <2>3. CASE op = "manager_remove_source"
    BY <2>3, <1>4, RemoveSourceSound
    DEF Performed, pka_listener_manager_remove_source, IfFound,
        pka_manager_find_source, Ok, Failed
  <2>4. CASE op = "manager_remove_subscription"
    <3>. DEFINE q == pka_manager_remove_subscription(a, in[1])
    <3>1. /\ [q EXCEPT !.out = <<TRUE>>].agent = q.agent
          /\ [q EXCEPT !.out = <<TRUE>>].notify = q.notify
      BY DEF pka_manager_remove_subscription, Notify, Ok
    <3>2. CASE in[1] \in Registered(a.subscriptions)
      <4>1. Performed(a, op, in, s) = [q EXCEPT !.out = <<TRUE>>]
        BY <2>4, <3>2 DEF Performed, pka_listener_manager_remove_subscription,
           IfFound, pka_manager_find_subscription, Ok
      <4>2. Sound(a, q)
        BY <3>2, RemoveSubscriptionSound
      <4>. HIDE DEF q
      <4>. QED
        BY <3>1, <4>1, <4>2 DEF Sound
    <3>3. CASE in[1] \notin Registered(a.subscriptions)
      BY <2>4, <3>3, <1>4 DEF Performed,
         pka_listener_manager_remove_subscription, IfFound,
         pka_manager_find_subscription, Failed
    <3>. QED BY <3>2, <3>3
  <2>5. CASE op = "channel_add_source"
    BY <2>5, <1>4, ChannelAddSourceSound
    DEF Performed, pka_listener_channel_add_source, IfFound, Registered,
        pka_manager_find_channel, pka_manager_find_source, Ok, Failed
  <2>. QED
    BY <1>5, <2>1, <2>2, <2>3, <2>4, <2>5 DEF Registering
<1>. QED
  BY <1>1, <1>2, <1>3, <1>5

(***************************************************************************)
(* The way of a call: which message it becomes, and which call the agent   *)
(* reads from that message.                                                *)
(***************************************************************************)
Member(op) ==
  CASE op = "manager_add_channel" -> "AddChannel"
    [] op = "manager_get_channels" -> "GetChannels"
    [] op = "manager_get_hostname" -> "GetHostname"
    [] op = "manager_get_plugins" -> "GetPlugins"
    [] op = "manager_get_sources" -> "GetSources"
    [] op = "manager_get_subscriptions" -> "GetSubscriptions"
    [] op = "manager_get_version" -> "GetVersion"
    [] op = "manager_ping" -> "Ping"
    [] op = "manager_add_source" -> "AddSource"
    [] op = "manager_remove_channel" -> "RemoveChannel"
    [] op = "manager_remove_source" -> "RemoveSource"
    [] op = "manager_remove_subscription" -> "RemoveSubscription"
    [] op = "channel_get_args" -> "GetArgs"
    [] op = "channel_get_created_at" -> "GetCreatedAt"
    [] op = "channel_get_env" -> "GetEnv"
    [] op = "channel_get_exit_status" -> "GetExitStatus"
    [] op = "channel_get_kill_pid" -> "GetKillPid"
    [] op = "channel_get_pid" -> "GetPid"
    [] op = "channel_get_pid_set" -> "GetPidSet"
    [] op = "channel_get_sources" -> "GetSources"
    [] op = "channel_get_state" -> "GetState"
    [] op = "channel_get_target" -> "GetTarget"
    [] op = "channel_get_working_dir" -> "GetWorkingDir"
    [] op = "channel_mute" -> "Mute"
    [] op = "channel_start" -> "Start"
    [] op = "channel_stop" -> "Stop"
    [] op = "channel_unmute" -> "Unmute"
    [] op = "source_get_plugin" -> "GetPlugin"
    [] op = "encoder_get_plugin" -> "GetPlugin"
    [] op = "plugin_get_copyright" -> "GetCopyright"
    [] op = "plugin_get_description" -> "GetDescription"
    [] op = "plugin_get_name" -> "GetName"
    [] op = "plugin_get_plugin_type" -> "GetType"
    [] op = "plugin_get_version" -> "GetVersion"
    [] op = "subscription_get_buffer" -> "GetBuffer"
    [] op = "subscription_get_created_at" -> "GetCreatedAt"
    [] op = "subscription_get_sources" -> "GetSources"
    [] op = "subscription_unmute" -> "Unmute"
    [] op = "manager_add_subscription" -> "AddSubscription"
    [] op = "channel_add_source" -> "AddSource"
    [] op = "channel_set_args" -> "SetArgs"
    [] op = "channel_set_env" -> "SetEnv"
    [] op = "channel_set_kill_pid" -> "SetKillPid"
    [] op = "channel_set_pid" -> "SetPid"
    [] op = "channel_set_target" -> "SetTarget"
    [] op = "channel_set_working_dir" -> "SetWorkingDir"
    [] op = "subscription_add_source" -> "AddSource"
    [] op = "subscription_mute" -> "Mute"
    [] op = "subscription_remove_channel" -> "RemoveChannel"
    [] op = "subscription_remove_source" -> "RemoveSource"
    [] op = "subscription_add_channel" -> "AddChannel"
    [] op = "subscription_set_buffer" -> "SetBuffer"

LEMMA CallsAre ==
  ASSUME NEW op, NEW in
  PROVE  /\ op \in Nullary => Calls(op, in) = Rpc(op, <<>>)
         /\ op \in Unary => Calls(op, in) = Rpc(op, <<in[1]>>)
         /\ op \in Binary => Calls(op, in) = Rpc(op, <<in[1], in[2]>>)
         /\ op \in Ternary => Calls(op, in) = Rpc(op, <<in[1], in[2], in[3]>>)
<1>1. ASSUME op \in Nullary PROVE Calls(op, in) = Rpc(op, <<>>)
  BY <1>1
  DEF Nullary, Calls, pk_connection_manager_add_channel,
      pk_connection_manager_get_channels, pk_connection_manager_get_hostname,
      pk_connection_manager_get_plugins, pk_connection_manager_get_sources,
      pk_connection_manager_get_subscriptions,
      pk_connection_manager_get_version, pk_connection_manager_ping
<1>2. ASSUME op \in Unary PROVE Calls(op, in) = Rpc(op, <<in[1]>>)
  BY <1>2
  DEF Unary, Calls, pk_connection_manager_add_source,
      pk_connection_manager_remove_channel,
      pk_connection_manager_remove_source,
      pk_connection_manager_remove_subscription,
      pk_connection_channel_get_args, pk_connection_channel_get_created_at,
      pk_connection_channel_get_env, pk_connection_channel_get_exit_status,
      pk_connection_channel_get_kill_pid, pk_connection_channel_get_pid,
      pk_connection_channel_get_pid_set, pk_connection_channel_get_sources,
      pk_connection_channel_get_state, pk_connection_channel_get_target,
      pk_connection_channel_get_working_dir, pk_connection_channel_mute,
      pk_connection_channel_start, pk_connection_channel_stop,
      pk_connection_channel_unmute, pk_connection_source_get_plugin,
      pk_connection_encoder_get_plugin, pk_connection_plugin_get_copyright,
      pk_connection_plugin_get_description, pk_connection_plugin_get_name,
      pk_connection_plugin_get_plugin_type, pk_connection_plugin_get_version,
      pk_connection_subscription_get_buffer,
      pk_connection_subscription_get_created_at,
      pk_connection_subscription_get_sources,
      pk_connection_subscription_unmute
<1>3. ASSUME op \in Binary PROVE Calls(op, in) = Rpc(op, <<in[1], in[2]>>)
  BY <1>3
  DEF Binary, Calls, pk_connection_manager_add_subscription,
      pk_connection_channel_add_source, pk_connection_channel_set_args,
      pk_connection_channel_set_env, pk_connection_channel_set_kill_pid,
      pk_connection_channel_set_pid, pk_connection_channel_set_target,
      pk_connection_channel_set_working_dir,
      pk_connection_subscription_add_source, pk_connection_subscription_mute,
      pk_connection_subscription_remove_channel,
      pk_connection_subscription_remove_source
<1>4. ASSUME op \in Ternary PROVE Calls(op, in) = Rpc(op, <<in[1], in[2], in[3]>>)
  BY <1>4
  DEF Ternary, Calls, pk_connection_subscription_add_channel,
      pk_connection_subscription_set_buffer
<1>. QED
  BY <1>1, <1>2, <1>3, <1>4

LEMMA CallIsRpc ==
  ASSUME NEW want, IsCall(want)
  PROVE  /\ want.op \in Procedures
         /\ Calls(want.op, want.in) = Rpc(want.op, want.in)
  BY CallsAre DEF IsCall, Procedures

ManagerCalls ==
  {"manager_add_channel", "manager_get_channels", "manager_get_hostname",
   "manager_get_plugins", "manager_get_sources", "manager_get_subscriptions",
   "manager_get_version", "manager_ping", "manager_add_source",
   "manager_remove_channel", "manager_remove_source",
   "manager_remove_subscription", "manager_add_subscription"}
ChannelCalls ==
  {"channel_get_args", "channel_get_created_at", "channel_get_env",
   "channel_get_exit_status", "channel_get_kill_pid", "channel_get_pid",
   "channel_get_pid_set", "channel_get_sources", "channel_get_state",
   "channel_get_target", "channel_get_working_dir", "channel_mute",
   "channel_start", "channel_stop", "channel_unmute", "channel_add_source",
   "channel_set_args", "channel_set_env", "channel_set_kill_pid",
   "channel_set_pid", "channel_set_target", "channel_set_working_dir"}
SourceCalls == {"source_get_plugin"}
EncoderCalls == {"encoder_get_plugin"}
PluginCalls ==
  {"plugin_get_copyright", "plugin_get_description", "plugin_get_name",
   "plugin_get_plugin_type", "plugin_get_version"}
SubscriptionCalls ==
  {"subscription_get_buffer", "subscription_get_created_at",
   "subscription_get_sources", "subscription_unmute",
   "subscription_add_source", "subscription_mute",
   "subscription_remove_channel", "subscription_remove_source",
   "subscription_add_channel", "subscription_set_buffer"}

\* The path, interface and member of the message of a call.
LEMMA Addressed ==
  ASSUME NEW op, NEW in
  PROVE  LET m == Request(Rpc(op, in))
         IN  /\ op \in ManagerCalls =>
                  m.path = ManagerPath /\ m.interface = "Manager" /\ m.member = Member(op)
             /\ op \in ChannelCalls =>
                  /\ m.path = Path("Channel", in[1]) /\ m.interface = "Channel"
                  /\ m.member = Member(op)
             /\ op \in SourceCalls =>
                  /\ m.path = Path("Source", in[1]) /\ m.interface = "Source"
                  /\ m.member = Member(op)
             /\ op \in EncoderCalls =>
                  /\ m.path = Path("Encoder", in[1]) /\ m.interface = "Encoder"
                  /\ m.member = Member(op)
             /\ op \in PluginCalls =>
                  /\ m.path = Path("Plugin", in[1]) /\ m.interface = "Plugin"
                  /\ m.member = Member(op)
             /\ op \in SubscriptionCalls =>
                  /\ m.path = Path("Subscription", in[1]) /\ m.interface = "Subscription"
                  /\ m.member = Member(op)
<1>. DEFINE m == Request(Rpc(op, in))
<1>1. ASSUME op \in ManagerCalls
      PROVE  /\ m.path = ManagerPath /\ m.interface = "Manager"
             /\ m.member = Member(op)
  BY <1>1
  DEF ManagerCalls, Member, Request, Rpc, MethodCall,
      pk_connection_dbus_manager_add_channel_async,
      pk_connection_dbus_manager_get_channels_async,
      pk_connection_dbus_manager_get_hostname_async,
      pk_connection_dbus_manager_get_plugins_async,
      pk_connection_dbus_manager_get_sources_async,
      pk_connection_dbus_manager_get_subscriptions_async,
      pk_connection_dbus_manager_get_version_async,
      pk_connection_dbus_manager_ping_async,
      pk_connection_dbus_manager_add_source_async,
      pk_connection_dbus_manager_remove_channel_async,
      pk_connection_dbus_manager_remove_source_async,
      pk_connection_dbus_manager_remove_subscription_async,
      pk_connection_dbus_manager_add_subscription_async
<1>2. ASSUME op \in ChannelCalls
      PROVE  /\ m.path = Path("Channel", in[1]) /\ m.interface = "Channel"
             /\ m.member = Member(op)
  BY <1>2
  DEF ChannelCalls, Member, Request, Rpc, MethodCall,
      pk_connection_dbus_channel_get_args_async,
      pk_connection_dbus_channel_get_created_at_async,
      pk_connection_dbus_channel_get_env_async,
      pk_connection_dbus_channel_get_exit_status_async,
      pk_connection_dbus_channel_get_kill_pid_async,
      pk_connection_dbus_channel_get_pid_async,
      pk_connection_dbus_channel_get_pid_set_async,
      pk_connection_dbus_channel_get_sources_async,
      pk_connection_dbus_channel_get_state_async,
      pk_connection_dbus_channel_get_target_async,
      pk_connection_dbus_channel_get_working_dir_async,
      pk_connection_dbus_channel_mute_async,
      pk_connection_dbus_channel_start_async,
      pk_connection_dbus_channel_stop_async,
      pk_connection_dbus_channel_unmute_async,
      pk_connection_dbus_channel_add_source_async,
      pk_connection_dbus_channel_set_args_async,
      pk_connection_dbus_channel_set_env_async,
      pk_connection_dbus_channel_set_kill_pid_async,
      pk_connection_dbus_channel_set_pid_async,
      pk_connection_dbus_channel_set_target_async,
      pk_connection_dbus_channel_set_working_dir_async
<1>3. ASSUME op \in SourceCalls
      PROVE  /\ m.path = Path("Source", in[1]) /\ m.interface = "Source"
             /\ m.member = Member(op)
  BY <1>3
  DEF SourceCalls, Member, Request, Rpc, MethodCall,
      pk_connection_dbus_source_get_plugin_async
<1>4. ASSUME op \in EncoderCalls
      PROVE  /\ m.path = Path("Encoder", in[1]) /\ m.interface = "Encoder"
             /\ m.member = Member(op)
  BY <1>4
  DEF EncoderCalls, Member, Request, Rpc, MethodCall,
      pk_connection_dbus_encoder_get_plugin_async
<1>5. ASSUME op \in PluginCalls
      PROVE  /\ m.path = Path("Plugin", in[1]) /\ m.interface = "Plugin"
             /\ m.member = Member(op)
  BY <1>5
  DEF PluginCalls, Member, Request, Rpc, MethodCall,
      pk_connection_dbus_plugin_get_copyright_async,
      pk_connection_dbus_plugin_get_description_async,
      pk_connection_dbus_plugin_get_name_async,
      pk_connection_dbus_plugin_get_plugin_type_async,
      pk_connection_dbus_plugin_get_version_async
<1>6. ASSUME op \in SubscriptionCalls
      PROVE  /\ m.path = Path("Subscription", in[1]) /\ m.interface = "Subscription"
             /\ m.member = Member(op)
  BY <1>6
  DEF SubscriptionCalls, Member, Request, Rpc, MethodCall,
      pk_connection_dbus_subscription_get_buffer_async,
      pk_connection_dbus_subscription_get_created_at_async,
      pk_connection_dbus_subscription_get_sources_async,
      pk_connection_dbus_subscription_unmute_async,
      pk_connection_dbus_subscription_add_source_async,
      pk_connection_dbus_subscription_mute_async,
      pk_connection_dbus_subscription_remove_channel_async,
      pk_connection_dbus_subscription_remove_source_async,
      pk_connection_dbus_subscription_add_channel_async,
      pk_connection_dbus_subscription_set_buffer_async
<1>. QED
  BY <1>1, <1>2, <1>3, <1>4, <1>5, <1>6

\* What the agent reads from the message.
LEMMA Taken ==
  ASSUME NEW op \in Procedures, NEW in
  PROVE  LET m == Request(Rpc(op, in))
             taken(args) == [op |-> op, in |-> args]
         IN  /\ op \in Nullary => Dispatched(m) = taken(<<>>)
             /\ op = "manager_add_subscription" => Dispatched(m) = taken(<<0, 0>>)
             /\ op = "manager_remove_channel" => Dispatched(m) = taken(<<0>>)
             /\ op \in {"channel_set_target", "channel_set_working_dir"} =>
                  Dispatched(m) = taken(<<in[1], NonNull(in[2])>>)
             /\ op \in Unary \ {"manager_remove_channel"} =>
                  Dispatched(m) = taken(<<in[1]>>)
             /\ op \in Binary \ {"manager_add_subscription", "channel_set_target",
                                  "channel_set_working_dir"} =>
                  Dispatched(m) = taken(<<in[1], in[2]>>)
             /\ op \in Ternary => Dispatched(m) = taken(<<in[1], in[2], in[3]>>)
<1>. DEFINE m == Request(Rpc(op, in))
<1>1. CASE op \in {"manager_add_channel", "manager_get_channels",
                   "manager_get_hostname", "manager_get_plugins",
                   "manager_get_sources", "manager_get_subscriptions",
                   "manager_get_version", "manager_ping"}
  <2>1. m.args = <<>>
    BY <1>1
    DEF Request, Rpc, MethodCall,
        pk_connection_dbus_manager_add_channel_async,
        pk_connection_dbus_manager_get_channels_async,
        pk_connection_dbus_manager_get_hostname_async,
        pk_connection_dbus_manager_get_plugins_async,
        pk_connection_dbus_manager_get_sources_async,
        pk_connection_dbus_manager_get_subscriptions_async,
        pk_connection_dbus_manager_get_version_async,
        pk_connection_dbus_manager_ping_async
  <2>2. /\ m.path = ManagerPath /\ m.interface = "Manager"
        /\ m.member = Member(op)
    BY <1>1, Addressed DEF ManagerCalls
  <2>. HIDE DEF m
  <2>3. handle_manager_message(m) = ManagerBranch(m, <<>>, op, <<>>)
    BY <1>1, <2>2
    DEF Member, handle_manager_message, Manager_AddChannel,
        Manager_GetChannels, Manager_GetHostname, Manager_GetPlugins,
        Manager_GetSources, Manager_GetSubscriptions, Manager_GetVersion,
        Manager_Ping
  <2>4. Dispatched(m) = handle_manager_message(m)
    BY <2>2 DEF Dispatched, Path, ManagerPath
  <2>5. Dispatched(m) = [op |-> op, in |-> <<>>]
    BY <2>1, <2>2, <2>3, <2>4
    DEF ManagerBranch, Matches, Arg, Path, Int32, Boolean, String, StringArray, ObjectPath
  <2>. QED
    BY <1>1, <2>5 DEF m, Nullary, Unary, Binary, Ternary
<1>2. CASE op = "manager_add_source"
  <2>1. m.args = <<ObjectPath(Path("Plugin", in[1]))>>
    BY <1>2
    DEF Request, Rpc, MethodCall, pk_connection_dbus_manager_add_source_async
  <2>2. /\ m.path = ManagerPath /\ m.interface = "Manager"
        /\ m.member = Member(op)
    BY <1>2, Addressed DEF ManagerCalls
  <2>. HIDE DEF m
  <2>3. handle_manager_message(m) = ObjectBranch(m, "Plugin", op)
    BY <1>2, <2>2
    DEF Member, handle_manager_message, Manager_AddSource
  <2>4. Dispatched(m) = handle_manager_message(m)
    BY <2>2 DEF Dispatched, Path, ManagerPath
  <2>5. Dispatched(m) = [op |-> op, in |-> <<in[1]>>]
    BY <2>1, <2>2, <2>3, <2>4
    DEF ObjectBranch, Matches, Arg, Path, Int32, Boolean, String, StringArray, ObjectPath
  <2>. QED
    BY <1>2, <2>5 DEF m, Nullary, Unary, Binary, Ternary
<1>3. CASE op = "manager_remove_source"
  <2>1. m.args = <<ObjectPath(Path("Source", in[1]))>>
    BY <1>3
    DEF Request, Rpc, MethodCall,
        pk_connection_dbus_manager_remove_source_async
  <2>2. /\ m.path = ManagerPath /\ m.interface = "Manager"
        /\ m.member = Member(op)
    BY <1>3, Addressed DEF ManagerCalls
  <2>. HIDE DEF m
  <2>3. handle_manager_message(m) = ObjectBranch(m, "Source", op)
    BY <1>3, <2>2
    DEF Member, handle_manager_message, Manager_RemoveSource
  <2>4. Dispatched(m) = handle_manager_message(m)
    BY <2>2 DEF Dispatched, Path, ManagerPath
  <2>5. Dispatched(m) = [op |-> op, in |-> <<in[1]>>]
    BY <2>1, <2>2, <2>3, <2>4
    DEF ObjectBranch, Matches, Arg, Path, Int32, Boolean, String, StringArray, ObjectPath
  <2>. QED
    BY <1>3, <2>5 DEF m, Nullary, Unary, Binary, Ternary
<1>4. CASE op = "manager_remove_subscription"
  <2>1. m.args = <<ObjectPath(Path("Subscription", in[1]))>>
    BY <1>4
    DEF Request, Rpc, MethodCall,
        pk_connection_dbus_manager_remove_subscription_async
  <2>2. /\ m.path = ManagerPath /\ m.interface = "Manager"
        /\ m.member = Member(op)
    BY <1>4, Addressed DEF ManagerCalls
  <2>. HIDE DEF m
  <2>3. handle_manager_message(m) = ObjectBranch(m, "Subscription", op)
    BY <1>4, <2>2
    DEF Member, handle_manager_message, Manager_RemoveSubscription
  <2>4. Dispatched(m) = handle_manager_message(m)
    BY <2>2 DEF Dispatched, Path, ManagerPath
  <2>5. Dispatched(m) = [op |-> op, in |-> <<in[1]>>]
    BY <2>1, <2>2, <2>3, <2>4
    DEF ObjectBranch, Matches, Arg, Path, Int32, Boolean, String, StringArray, ObjectPath
  <2>. QED
    BY <1>4, <2>5 DEF m, Nullary, Unary, Binary, Ternary
<1>5. CASE op = "manager_remove_channel"
  <2>1. m.args = <<Int32(in[1])>>
    BY <1>5
    DEF Request, Rpc, MethodCall,
        pk_connection_dbus_manager_remove_channel_async
  <2>2. /\ m.path = ManagerPath /\ m.interface = "Manager"
        /\ m.member = Member(op)
    BY <1>5, Addressed DEF ManagerCalls
  <2>. HIDE DEF m
  <2>3. handle_manager_message(m) = ManagerBranch(m, <<>>, op, <<0>>)
    BY <1>5, <2>2
    DEF Member, handle_manager_message, Manager_RemoveChannel
  <2>4. Dispatched(m) = handle_manager_message(m)
    BY <2>2 DEF Dispatched, Path, ManagerPath
  <2>5. Dispatched(m) = [op |-> op, in |-> <<0>>]
    BY <2>1, <2>2, <2>3, <2>4
    DEF ManagerBranch, Matches, Arg, Path, Int32, Boolean, String, StringArray, ObjectPath
  <2>. QED
    BY <1>5, <2>5 DEF m, Nullary, Unary, Binary, Ternary
<1>6. CASE op \in {"channel_get_args", "channel_get_created_at",
                   "channel_get_env", "channel_get_exit_status",
                   "channel_get_kill_pid", "channel_get_pid",
                   "channel_get_pid_set", "channel_get_sources",
                   "channel_get_state", "channel_get_target",
                   "channel_get_working_dir", "channel_mute", "channel_start",
                   "channel_stop", "channel_unmute"}
  <2>1. m.args = <<>>
    BY <1>6
    DEF Request, Rpc, MethodCall, pk_connection_dbus_channel_get_args_async,
        pk_connection_dbus_channel_get_created_at_async,
        pk_connection_dbus_channel_get_env_async,
        pk_connection_dbus_channel_get_exit_status_async,
        pk_connection_dbus_channel_get_kill_pid_async,
        pk_connection_dbus_channel_get_pid_async,
        pk_connection_dbus_channel_get_pid_set_async,
        pk_connection_dbus_channel_get_sources_async,
        pk_connection_dbus_channel_get_state_async,
        pk_connection_dbus_channel_get_target_async,
        pk_connection_dbus_channel_get_working_dir_async,
        pk_connection_dbus_channel_mute_async,
        pk_connection_dbus_channel_start_async,
        pk_connection_dbus_channel_stop_async,
        pk_connection_dbus_channel_unmute_async
  <2>2. /\ m.path = Path("Channel", in[1]) /\ m.interface = "Channel"
        /\ m.member = Member(op)
    BY <1>6, Addressed DEF ChannelCalls
  <2>. HIDE DEF m
  <2>3. handle_channel_message(m) = Branch(m, "Channel", <<>>, op, <<m.path.id>>)
    BY <1>6, <2>2
    DEF Member, handle_channel_message, Channel_GetArgs, Channel_GetCreatedAt,
        Channel_GetEnv, Channel_GetExitStatus, Channel_GetKillPid,
        Channel_GetPid, Channel_GetPidSet, Channel_GetSources,
        Channel_GetState, Channel_GetTarget, Channel_GetWorkingDir,
        Channel_Mute, Channel_Start, Channel_Stop, Channel_Unmute
  <2>4. Dispatched(m) = handle_channel_message(m)
    BY <2>2 DEF Dispatched, Path, ManagerPath
  <2>5. Dispatched(m) = [op |-> op, in |-> <<in[1]>>]
    BY <2>1, <2>2, <2>3, <2>4
    DEF Branch, Matches, Arg, Path, Int32, Boolean, String, StringArray, ObjectPath
  <2>. QED
    BY <1>6, <2>5 DEF m, Nullary, Unary, Binary, Ternary
<1>7. CASE op = "source_get_plugin"
  <2>1. m.args = <<>>
    BY <1>7
    DEF Request, Rpc, MethodCall, pk_connection_dbus_source_get_plugin_async
  <2>2. /\ m.path = Path("Source", in[1]) /\ m.interface = "Source"
        /\ m.member = Member(op)
    BY <1>7, Addressed DEF SourceCalls
  <2>. HIDE DEF m
  <2>3. handle_source_message(m) = Branch(m, "Source", <<>>, op, <<m.path.id>>)
    BY <1>7, <2>2
    DEF Member, handle_source_message, Source_GetPlugin
  <2>4. Dispatched(m) = handle_source_message(m)
    BY <2>2 DEF Dispatched, Path, ManagerPath
  <2>5. Dispatched(m) = [op |-> op, in |-> <<in[1]>>]
    BY <2>1, <2>2, <2>3, <2>4
    DEF Branch, Matches, Arg, Path, Int32, Boolean, String, StringArray, ObjectPath
  <2>. QED
    BY <1>7, <2>5 DEF m, Nullary, Unary, Binary, Ternary
<1>8. CASE op = "encoder_get_plugin"
  <2>1. m.args = <<>>
    BY <1>8
    DEF Request, Rpc, MethodCall, pk_connection_dbus_encoder_get_plugin_async
  <2>2. /\ m.path = Path("Encoder", in[1]) /\ m.interface = "Encoder"
        /\ m.member = Member(op)
    BY <1>8, Addressed DEF EncoderCalls
  <2>. HIDE DEF m
  <2>3. handle_encoder_message(m) = Branch(m, "Encoder", <<>>, op, <<m.path.id>>)
    BY <1>8, <2>2
    DEF Member, handle_encoder_message, Encoder_GetPlugin
  <2>4. Dispatched(m) = handle_encoder_message(m)
    BY <2>2 DEF Dispatched, Path, ManagerPath
  <2>5. Dispatched(m) = [op |-> op, in |-> <<in[1]>>]
    BY <2>1, <2>2, <2>3, <2>4
    DEF Branch, Matches, Arg, Path, Int32, Boolean, String, StringArray, ObjectPath
  <2>. QED
    BY <1>8, <2>5 DEF m, Nullary, Unary, Binary, Ternary
<1>9. CASE op \in {"plugin_get_copyright", "plugin_get_description",
                   "plugin_get_name", "plugin_get_plugin_type",
                   "plugin_get_version"}
  <2>1. m.args = <<>>
    BY <1>9
    DEF Request, Rpc, MethodCall,
        pk_connection_dbus_plugin_get_copyright_async,
        pk_connection_dbus_plugin_get_description_async,
        pk_connection_dbus_plugin_get_name_async,
        pk_connection_dbus_plugin_get_plugin_type_async,
        pk_connection_dbus_plugin_get_version_async
  <2>2. /\ m.path = Path("Plugin", in[1]) /\ m.interface = "Plugin"
        /\ m.member = Member(op)
    BY <1>9, Addressed DEF PluginCalls
  <2>. HIDE DEF m
  <2>3. handle_plugin_message(m) = Branch(m, "Plugin", <<>>, op, <<m.path.id>>)
    BY <1>9, <2>2
    DEF Member, handle_plugin_message, Plugin_GetCopyright,
        Plugin_GetDescription, Plugin_GetName, Plugin_GetType,
        Plugin_GetVersion
  <2>4. Dispatched(m) = handle_plugin_message(m)
    BY <2>2 DEF Dispatched, Path, ManagerPath
  <2>5. Dispatched(m) = [op |-> op, in |-> <<in[1]>>]
    BY <2>1, <2>2, <2>3, <2>4
    DEF Branch, Matches, Arg, Path, Int32, Boolean, String, StringArray, ObjectPath
  <2>. QED
    BY <1>9, <2>5 DEF m, Nullary, Unary, Binary, Ternary
<1>10. CASE op \in {"subscription_get_buffer", "subscription_get_created_at",
                    "subscription_get_sources", "subscription_unmute"}
  <2>1. m.args = <<>>
    BY <1>10
    DEF Request, Rpc, MethodCall,
        pk_connection_dbus_subscription_get_buffer_async,
        pk_connection_dbus_subscription_get_created_at_async,
        pk_connection_dbus_subscription_get_sources_async,
        pk_connection_dbus_subscription_unmute_async
  <2>2. /\ m.path = Path("Subscription", in[1]) /\ m.interface = "Subscription"
        /\ m.member = Member(op)
    BY <1>10, Addressed DEF SubscriptionCalls
  <2>. HIDE DEF m
  <2>3. handle_subscription_message(m) = Branch(m, "Subscription", <<>>, op, <<m.path.id>>)
    BY <1>10, <2>2
    DEF Member, handle_subscription_message, Subscription_GetBuffer,
        Subscription_GetCreatedAt, Subscription_GetSources,
        Subscription_Unmute
  <2>4. Dispatched(m) = handle_subscription_message(m)
    BY <2>2 DEF Dispatched, Path, ManagerPath
  <2>5. Dispatched(m) = [op |-> op, in |-> <<in[1]>>]
    BY <2>1, <2>2, <2>3, <2>4
    DEF Branch, Matches, Arg, Path, Int32, Boolean, String, StringArray, ObjectPath
  <2>. QED
    BY <1>10, <2>5 DEF m, Nullary, Unary, Binary, Ternary
<1>11. CASE op = "manager_add_subscription"
  <2>1. m.args = <<Int32(in[1]), Int32(in[2])>>
    BY <1>11
    DEF Request, Rpc, MethodCall,
        pk_connection_dbus_manager_add_subscription_async
  <2>2. /\ m.path = ManagerPath /\ m.interface = "Manager"
        /\ m.member = Member(op)
    BY <1>11, Addressed DEF ManagerCalls
  <2>. HIDE DEF m
  <2>3. handle_manager_message(m) = ManagerBranch(m, <<>>, op, <<0, 0>>)
    BY <1>11, <2>2
    DEF Member, handle_manager_message, Manager_AddSubscription
  <2>4. Dispatched(m) = handle_manager_message(m)
    BY <2>2 DEF Dispatched, Path, ManagerPath
  <2>5. Dispatched(m) = [op |-> op, in |-> <<0, 0>>]
    BY <2>1, <2>2, <2>3, <2>4
    DEF ManagerBranch, Matches, Arg, Path, Int32, Boolean, String, StringArray, ObjectPath
  <2>. QED
    BY <1>11, <2>5 DEF m, Nullary, Unary, Binary, Ternary
<1>12. CASE op \in {"channel_add_source", "channel_set_pid"}
  <2>1. m.args = <<Int32(in[2])>>
    BY <1>12
    DEF Request, Rpc, MethodCall, pk_connection_dbus_channel_add_source_async,
        pk_connection_dbus_channel_set_pid_async
  <2>2. /\ m.path = Path("Channel", in[1]) /\ m.interface = "Channel"
        /\ m.member = Member(op)
    BY <1>12, Addressed DEF ChannelCalls
  <2>. HIDE DEF m
  <2>3. handle_channel_message(m) = Branch(m, "Channel", <<"i">>, op, <<m.path.id, Arg(m, 1)>>)
    BY <1>12, <2>2
    DEF Member, handle_channel_message, Channel_AddSource, Channel_SetPid
  <2>4. Dispatched(m) = handle_channel_message(m)
    BY <2>2 DEF Dispatched, Path, ManagerPath
  <2>5. Dispatched(m) = [op |-> op, in |-> <<in[1], in[2]>>]
    BY <2>1, <2>2, <2>3, <2>4
    DEF Branch, Matches, Arg, Path, Int32, Boolean, String, StringArray, ObjectPath
  <2>. QED
    BY <1>12, <2>5 DEF m, Nullary, Unary, Binary, Ternary
<1>13. CASE op \in {"channel_set_args", "channel_set_env"}
  <2>1. m.args = <<StringArray(in[2])>>
    BY <1>13
    DEF Request, Rpc, MethodCall, pk_connection_dbus_channel_set_args_async,
        pk_connection_dbus_channel_set_env_async
  <2>2. /\ m.path = Path("Channel", in[1]) /\ m.interface = "Channel"
        /\ m.member = Member(op)
    BY <1>13, Addressed DEF ChannelCalls
  <2>. HIDE DEF m
  <2>3. handle_channel_message(m) = Branch(m, "Channel", <<"as">>, op, <<m.path.id, Arg(m, 1)>>)
    BY <1>13, <2>2
    DEF Member, handle_channel_message, Channel_SetArgs, Channel_SetEnv
  <2>4. Dispatched(m) = handle_channel_message(m)
    BY <2>2 DEF Dispatched, Path, ManagerPath
  <2>5. Dispatched(m) = [op |-> op, in |-> <<in[1], in[2]>>]
    BY <2>1, <2>2, <2>3, <2>4
    DEF Branch, Matches, Arg, Path, Int32, Boolean, String, StringArray, ObjectPath
  <2>. QED
    BY <1>13, <2>5 DEF m, Nullary, Unary, Binary, Ternary
<1>14. CASE op = "channel_set_kill_pid"
  <2>1. m.args = <<Boolean(in[2])>>
    BY <1>14
    DEF Request, Rpc, MethodCall,
        pk_connection_dbus_channel_set_kill_pid_async
  <2>2. /\ m.path = Path("Channel", in[1]) /\ m.interface = "Channel"
        /\ m.member = Member(op)
    BY <1>14, Addressed DEF ChannelCalls
  <2>. HIDE DEF m
  <2>3. handle_channel_message(m) = Branch(m, "Channel", <<"b">>, op, <<m.path.id, Arg(m, 1)>>)
    BY <1>14, <2>2
    DEF Member, handle_channel_message, Channel_SetKillPid
  <2>4. Dispatched(m) = handle_channel_message(m)
    BY <2>2 DEF Dispatched, Path, ManagerPath
  <2>5. Dispatched(m) = [op |-> op, in |-> <<in[1], in[2]>>]
    BY <2>1, <2>2, <2>3, <2>4
    DEF Branch, Matches, Arg, Path, Int32, Boolean, String, StringArray, ObjectPath
  <2>. QED
    BY <1>14, <2>5 DEF m, Nullary, Unary, Binary, Ternary
<1>15. CASE op \in {"channel_set_target", "channel_set_working_dir"}
  <2>1. m.args = <<String(NonNull(in[2]))>>
    BY <1>15
    DEF Request, Rpc, MethodCall, pk_connection_dbus_channel_set_target_async,
        pk_connection_dbus_channel_set_working_dir_async
  <2>2. /\ m.path = Path("Channel", in[1]) /\ m.interface = "Channel"
        /\ m.member = Member(op)
    BY <1>15, Addressed DEF ChannelCalls
  <2>. HIDE DEF m
  <2>3. handle_channel_message(m) = Branch(m, "Channel", <<"s">>, op, <<m.path.id, Arg(m, 1)>>)
    BY <1>15, <2>2
    DEF Member, handle_channel_message, Channel_SetTarget,
        Channel_SetWorkingDir
  <2>4. Dispatched(m) = handle_channel_message(m)
    BY <2>2 DEF Dispatched, Path, ManagerPath
  <2>5. Dispatched(m) = [op |-> op, in |-> <<in[1], NonNull(in[2])>>]
    BY <2>1, <2>2, <2>3, <2>4
    DEF Branch, Matches, Arg, Path, Int32, Boolean, String, StringArray, ObjectPath
  <2>. QED
    BY <1>15, <2>5 DEF m, Nullary, Unary, Binary, Ternary
<1>16. CASE op \in {"subscription_add_source", "subscription_remove_channel",
                    "subscription_remove_source"}
  <2>1. m.args = <<Int32(in[2])>>
    BY <1>16
    DEF Request, Rpc, MethodCall,
        pk_connection_dbus_subscription_add_source_async,
        pk_connection_dbus_subscription_remove_channel_async,
        pk_connection_dbus_subscription_remove_source_async
  <2>2. /\ m.path = Path("Subscription", in[1]) /\ m.interface = "Subscription"
        /\ m.member = Member(op)
    BY <1>16, Addressed DEF SubscriptionCalls
  <2>. HIDE DEF m
  <2>3. handle_subscription_message(m) = Branch(m, "Subscription", <<"i">>, op, <<m.path.id, Arg(m, 1)>>)
    BY <1>16, <2>2
    DEF Member, handle_subscription_message, Subscription_AddSource,
        Subscription_RemoveChannel, Subscription_RemoveSource
  <2>4. Dispatched(m) = handle_subscription_message(m)
    BY <2>2 DEF Dispatched, Path, ManagerPath
  <2>5. Dispatched(m) = [op |-> op, in |-> <<in[1], in[2]>>]
    BY <2>1, <2>2, <2>3, <2>4
    DEF Branch, Matches, Arg, Path, Int32, Boolean, String, StringArray, ObjectPath
  <2>. QED
    BY <1>16, <2>5 DEF m, Nullary, Unary, Binary, Ternary
<1>17. CASE op = "subscription_mute"
  <2>1. m.args = <<Boolean(in[2])>>
    BY <1>17
    DEF Request, Rpc, MethodCall, pk_connection_dbus_subscription_mute_async
  <2>2. /\ m.path = Path("Subscription", in[1]) /\ m.interface = "Subscription"
        /\ m.member = Member(op)
    BY <1>17, Addressed DEF SubscriptionCalls
  <2>. HIDE DEF m
  <2>3. handle_subscription_message(m) = Branch(m, "Subscription", <<"b">>, op, <<m.path.id, Arg(m, 1)>>)
    BY <1>17, <2>2
    DEF Member, handle_subscription_message, Subscription_Mute
  <2>4. Dispatched(m) = handle_subscription_message(m)
    BY <2>2 DEF Dispatched, Path, ManagerPath
  <2>5. Dispatched(m) = [op |-> op, in |-> <<in[1], in[2]>>]
    BY <2>1, <2>2, <2>3, <2>4
    DEF Branch, Matches, Arg, Path, Int32, Boolean, String, StringArray, ObjectPath
  <2>. QED
    BY <1>17, <2>5 DEF m, Nullary, Unary, Binary, Ternary
<1>18. CASE op = "subscription_add_channel"
  <2>1. m.args = <<Int32(in[2]), Boolean(in[3])>>
    BY <1>18
    DEF Request, Rpc, MethodCall,
        pk_connection_dbus_subscription_add_channel_async
  <2>2. /\ m.path = Path("Subscription", in[1]) /\ m.interface = "Subscription"
        /\ m.member = Member(op)
    BY <1>18, Addressed DEF SubscriptionCalls
  <2>. HIDE DEF m
  <2>3. handle_subscription_message(m) = Branch(m, "Subscription", <<"i", "b">>, op, <<m.path.id, Arg(m, 1), Arg(m, 2)>>)
    BY <1>18, <2>2
    DEF Member, handle_subscription_message, Subscription_AddChannel
  <2>4. Dispatched(m) = handle_subscription_message(m)
    BY <2>2 DEF Dispatched, Path, ManagerPath
  <2>5. Dispatched(m) = [op |-> op, in |-> <<in[1], in[2], in[3]>>]
    BY <2>1, <2>2, <2>3, <2>4
    DEF Branch, Matches, Arg, Path, Int32, Boolean, String, StringArray, ObjectPath
  <2>. QED
    BY <1>18, <2>5 DEF m, Nullary, Unary, Binary, Ternary
<1>19. CASE op = "subscription_set_buffer"
  <2>1. m.args = <<Int32(in[2]), Int32(in[3])>>
    BY <1>19
    DEF Request, Rpc, MethodCall,
        pk_connection_dbus_subscription_set_buffer_async
  <2>2. /\ m.path = Path("Subscription", in[1]) /\ m.interface = "Subscription"
        /\ m.member = Member(op)
    BY <1>19, Addressed DEF SubscriptionCalls
  <2>. HIDE DEF m
  <2>3. handle_subscription_message(m) = Branch(m, "Subscription", <<"i", "i">>, op, <<m.path.id, Arg(m, 1), Arg(m, 2)>>)
    BY <1>19, <2>2
    DEF Member, handle_subscription_message, Subscription_SetBuffer
  <2>4. Dispatched(m) = handle_subscription_message(m)
    BY <2>2 DEF Dispatched, Path, ManagerPath
  <2>5. Dispatched(m) = [op |-> op, in |-> <<in[1], in[2], in[3]>>]
    BY <2>1, <2>2, <2>3, <2>4
    DEF Branch, Matches, Arg, Path, Int32, Boolean, String, StringArray, ObjectPath
  <2>. QED
    BY <1>19, <2>5 DEF m, Nullary, Unary, Binary, Ternary
<1>. QED
  BY <1>1, <1>2, <1>3, <1>4, <1>5, <1>6, <1>7, <1>8, <1>9, <1>10, <1>11,
     <1>12, <1>13, <1>14, <1>15, <1>16, <1>17, <1>18, <1>19
  DEF Procedures, Nullary, Unary, Binary, Ternary

(***************************************************************************)
(* The way back: which values a call stores, and what the reply that they  *)
(* are written into is read as.                                            *)
(***************************************************************************)
\* The calls without a result, and those with a list of numbers.
Silent ==
  {"manager_remove_source", "channel_mute", "channel_start", "channel_stop",
   "channel_unmute", "subscription_unmute", "channel_add_source",
   "channel_set_args", "channel_set_env", "channel_set_kill_pid",
   "channel_set_pid", "channel_set_target", "channel_set_working_dir",
   "subscription_add_source", "subscription_mute",
   "subscription_remove_channel", "subscription_remove_source",
   "subscription_add_channel", "subscription_set_buffer"}
Listing ==
  {"manager_get_channels", "manager_get_plugins", "manager_get_sources",
   "channel_get_sources", "subscription_get_sources",
   "manager_get_subscriptions"}

LEMMA Stored ==
  ASSUME NEW op \in Procedures, NEW a, NEW in, NEW s, Performed(a, op, in, s).ok
  PROVE  LET out == Performed(a, op, in, s).out
         IN  /\ op \in Silent => out = <<>>
             /\ op = "subscription_get_buffer" => \E v, w : out = <<v, w>>
             /\ op \in Listing =>
                  \E v : out = <<v>> /\ v = [k \in DOMAIN v |-> v[k]]
             /\ op \notin Silent \cup Listing \cup {"subscription_get_buffer"} =>
                  \E v : out = <<v>>
<1>. DEFINE out == Performed(a, op, in, s).out
<1>1. ASSUME op \in {"manager_remove_source", "channel_mute", "channel_start",
                  "channel_stop", "channel_unmute", "channel_add_source",
                  "channel_set_args", "channel_set_env",
                  "channel_set_kill_pid", "channel_set_pid",
                  "channel_set_target", "channel_set_working_dir"}
      PROVE  out = <<>>
  BY <1>1 DEF Performed, pka_listener_manager_remove_source, IfFound,
           pka_manager_find_source, pka_manager_remove_source, Ok, Failed,
           Notify, pka_listener_channel_mute, pka_manager_find_channel,
           pka_channel_mute, pka_listener_channel_start, pka_channel_start,
           pka_listener_channel_stop, pka_channel_stop,
           pka_listener_channel_unmute, pka_channel_unmute,
           pka_listener_channel_add_source, pka_channel_add_source,
           pka_listener_channel_set_args, pka_channel_set_args, EnsureReady,
           pka_listener_channel_set_env, pka_channel_set_env,
           pka_listener_channel_set_kill_pid, pka_channel_set_kill_pid,
           pka_listener_channel_set_pid, pka_channel_set_pid,
           pka_listener_channel_set_target, pka_channel_set_target,
           pka_listener_channel_set_working_dir, pka_channel_set_working_dir
<1>2. ASSUME op \in {"subscription_unmute", "subscription_add_source",
                  "subscription_mute", "subscription_remove_channel",
                  "subscription_remove_source", "subscription_add_channel",
                  "subscription_set_buffer"}
      PROVE  out = <<>>
  BY <1>2 DEF Performed, pka_listener_subscription_unmute, IfFound,
           pka_manager_find_subscription, pka_subscription_unmute, Ok, Failed,
           pka_subscription_set_state, pka_listener_subscription_add_source,
           pka_manager_find_source, pka_subscription_add_source,
           pka_listener_subscription_mute, pka_subscription_mute,
           pka_listener_subscription_remove_channel, pka_manager_find_channel,
           pka_subscription_remove_channel,
           pka_listener_subscription_remove_source,
           pka_subscription_remove_source,
           pka_listener_subscription_add_channel,
           pka_subscription_add_channel, pka_listener_subscription_set_buffer,
           pka_subscription_set_buffer
<1>3. ASSUME op \in {"subscription_get_buffer"}
      PROVE  \E v, w : out = <<v, w>>
  BY <1>3 DEF Performed, pka_listener_subscription_get_buffer, IfFound,
           pka_manager_find_subscription, Ok, Failed
<1>4. ASSUME op \in {"manager_get_channels", "manager_get_plugins",
                  "manager_get_sources", "channel_get_sources",
                  "subscription_get_sources", "manager_get_subscriptions"}
      PROVE  \E v : out = <<v>> /\ v = [k \in DOMAIN v |-> v[k]]
  <2>1. \A q : Reverse(q) = [k \in DOMAIN Reverse(q) |-> Reverse(q)[k]]
    BY DEF Reverse
  <2>2. CASE op \in {"manager_get_channels", "manager_get_sources",
                "channel_get_sources", "subscription_get_sources",
                "manager_get_subscriptions"}
    BY <2>1, <2>2 DEF Performed, Listed, pka_listener_manager_get_channels, Ok,
             pka_listener_manager_get_sources,
             pka_listener_channel_get_sources, IfFound,
             pka_manager_find_channel, Failed,
             pka_listener_subscription_get_sources,
             pka_manager_find_subscription,
             pka_listener_manager_get_subscriptions, pka_manager_get_channels,
             pka_manager_get_sources, pka_manager_get_subscriptions,
             pka_channel_get_sources, pka_subscription_get_sources
  <2>3. CASE op = "manager_get_plugins"
    <3>1. \A q, order : EntriesAt(q, order) =
            [k \in DOMAIN EntriesAt(q, order) |-> EntriesAt(q, order)[k]]
      BY DEF EntriesAt
    <3>. QED
      BY <2>3, <3>1 DEF Performed, Ok, pka_listener_manager_get_plugins
  <2>. QED
    BY <1>4, <2>2, <2>3
<1>5. ASSUME op \in {"manager_add_channel", "manager_get_hostname",
                  "manager_get_version", "manager_ping", "manager_add_source",
                  "manager_remove_channel", "manager_remove_subscription",
                  "manager_add_subscription"}
      PROVE  \E v : out = <<v>>
  BY <1>5 DEF Performed, pka_listener_manager_add_channel,
           pka_manager_add_channel, Notify, Ok,
           pka_listener_manager_get_hostname,
           pka_listener_manager_get_version, pka_listener_manager_ping,
           pka_listener_manager_add_source, IfFound, pka_manager_find_plugin,
           pka_manager_add_source, Failed,
           pka_listener_manager_remove_channel, pka_manager_find_channel,
           pka_manager_remove_channel,
           pka_listener_manager_remove_subscription,
           pka_manager_find_subscription, pka_manager_remove_subscription,
           pka_listener_manager_add_subscription, pka_manager_add_subscription
<1>6. ASSUME op \in {"channel_get_args", "channel_get_created_at",
                  "channel_get_env", "channel_get_exit_status",
                  "channel_get_kill_pid", "channel_get_pid",
                  "channel_get_pid_set", "channel_get_state",
                  "channel_get_target", "channel_get_working_dir"}
      PROVE  \E v : out = <<v>>
  BY <1>6 DEF Performed, pka_listener_channel_get_args, IfFound,
           pka_manager_find_channel, Ok, Failed,
           pka_listener_channel_get_created_at, pka_listener_channel_get_env,
           pka_listener_channel_get_exit_status, pka_channel_get_exit_status,
           pka_listener_channel_get_kill_pid, pka_listener_channel_get_pid,
           pka_listener_channel_get_pid_set, pka_listener_channel_get_state,
           pka_listener_channel_get_target,
           pka_listener_channel_get_working_dir
<1>7. ASSUME op \in {"source_get_plugin", "encoder_get_plugin",
                  "plugin_get_copyright", "plugin_get_description",
                  "plugin_get_name", "plugin_get_plugin_type",
                  "plugin_get_version", "subscription_get_created_at"}
      PROVE  \E v : out = <<v>>
  BY <1>7 DEF Performed, pka_listener_source_get_plugin, IfFound,
           pka_manager_find_source, Ok, Failed,
           pka_listener_encoder_get_plugin, pka_listener_plugin_get_copyright,
           pka_manager_find_plugin, pka_listener_plugin_get_description,
           pka_listener_plugin_get_name, pka_listener_plugin_get_plugin_type,
           pka_listener_plugin_get_version,
           pka_listener_subscription_get_created_at,
           pka_manager_find_subscription
<1>. QED
  BY <1>1, <1>2, <1>3, <1>4, <1>5, <1>6, <1>7
  DEF Silent, Listing, Procedures, Nullary, Unary, Binary, Ternary

LEMMA NoEntries ==
  ASSUME NEW f, f = [k \in DOMAIN f |-> f[k]], DOMAIN f = {}
  PROVE  f = <<>>
<1>1. f \in [1..0 -> {}]
  OBVIOUS
<1>2. f \in Seq({})
  BY <1>1
<1>3. Len(f) = 0
  BY <1>2
<1>. QED
  BY <1>2, <1>3, EmptySeq

\* What every _finish function makes of an error, and of the values that
\* the callback of the same call has written.
LEMMA Readings ==
  ASSUME NEW v, NEW w, NEW object, NEW before
  PROVE  /\ Done(MethodReturn(<<>>)) = Returned(<<>>)
         /\ Value(MethodReturn(<<Int32(v)>>), "i") = Returned(<<v>>)
         /\ Value(MethodReturn(<<Boolean(v)>>), "b") = Returned(<<v>>)
         /\ Value(MethodReturn(<<String(v)>>), "s") = Returned(<<v>>)
         /\ Value(MethodReturn(<<StringArray(v)>>), "as") = Returned(<<v>>)
         /\ Time(MethodReturn(<<String(Iso8601(v))>>)) = Returned(<<v>>)
         /\ Id(MethodReturn(<<ObjectPath(Path(object, v))>>), object, before)
              = Returned(<<v>>)
         /\ Ids(MethodReturn(<<PathArray(PathsOf(object, v))>>), object)
              = Returned(<<[k \in DOMAIN v |-> v[k]]>>)
         /\ LET m == MethodReturn(<<Int32(v), Int32(w)>>)
            IN  Decode(m, <<"i", "i">>, <<Arg(m, 1), Arg(m, 2)>>) = Returned(<<v, w>>)
<1>1. ASSUME NEW args, NEW out
      PROVE  /\ Decode(MethodReturn(args), <<>>, out) = Returned(out)
             /\ \A type : args = <<<<type, v>>>> =>
                  /\ Decode(MethodReturn(args), <<type>>, out) = Returned(out)
                  /\ Arg(MethodReturn(args), 1) = v
             /\ args = <<<<"i", v>>, <<"i", w>>>> =>
                  /\ Decode(MethodReturn(args), <<"i", "i">>, out) = Returned(out)
                  /\ Arg(MethodReturn(args), 1) = v /\ Arg(MethodReturn(args), 2) = w
  BY DEF Decode, MethodReturn, Matches, Arg
<1>2. FromIso8601(Iso8601(v)) = v
  BY DEF FromIso8601, Iso8601
<1>3. Scan(object, Path(object, v), before) = v
  BY DEF Scan, Path
<1>4. ScanAll(object, PathsOf(object, v)) = [k \in DOMAIN v |-> v[k]]
  BY DEF ScanAll, PathsOf, Scan, Path
<1>5. /\ Done(MethodReturn(<<>>)) = Returned(<<>>)
      /\ Value(MethodReturn(<<Int32(v)>>), "i") = Returned(<<v>>)
      /\ Value(MethodReturn(<<Boolean(v)>>), "b") = Returned(<<v>>)
      /\ Value(MethodReturn(<<String(v)>>), "s") = Returned(<<v>>)
      /\ Value(MethodReturn(<<StringArray(v)>>), "as") = Returned(<<v>>)
  BY <1>1 DEF Done, Value, Int32, Boolean, String, StringArray
<1>6. Time(MethodReturn(<<String(Iso8601(v))>>)) = Returned(<<v>>)
  BY <1>2 DEF Time, String, Decode, MethodReturn, Matches, Arg
<1>7. Id(MethodReturn(<<ObjectPath(Path(object, v))>>), object, before) = Returned(<<v>>)
  BY <1>3 DEF Id, ObjectPath, Decode, MethodReturn, Matches, Arg
<1>8. Ids(MethodReturn(<<PathArray(PathsOf(object, v))>>), object)
        = Returned(<<[k \in DOMAIN v |-> v[k]]>>)
  <2>. DEFINE w1 == PathsOf(object, v)
              w2 == ScanAll(object, w1)
  <2>1. ASSUME NEW p PROVE Ids(MethodReturn(<<PathArray(p)>>), object) = Returned(<<ScanAll(object, p)>>)
    BY DEF Ids, PathArray, Decode, MethodReturn, Matches, Arg
  <2>. QED
    BY <1>4, <2>1
<1>9. LET m == MethodReturn(<<Int32(v), Int32(w)>>)
      IN  Decode(m, <<"i", "i">>, <<Arg(m, 1), Arg(m, 2)>>) = Returned(<<v, w>>)
  BY <1>1 DEF Int32
<1>. QED
  BY <1>5, <1>6, <1>7, <1>8, <1>9

LEMMA ErrorIsRead ==
  ASSUME NEW op \in Procedures, NEW name, NEW text
  PROVE  Outcome(Result(op, Error(name, text))) = [ok |-> FALSE, out |-> <<>>]
<1>1. \A signature, out : Decode(Error(name, text), signature, out)
                            = Refused(name, text)
  BY DEF Decode, Error, String, Arg
<1>2. Result(op, Error(name, text)) = Refused(name, text)
  BY <1>1 DEF Result, Done, Value, Time, Id, Ids, Procedures, Nullary, Unary,
           Binary, Ternary, pk_connection_dbus_manager_add_channel_finish,
           pk_connection_dbus_manager_get_channels_finish,
           pk_connection_dbus_manager_get_hostname_finish,
           pk_connection_dbus_manager_get_plugins_finish,
           pk_connection_dbus_manager_get_sources_finish,
           pk_connection_dbus_manager_get_subscriptions_finish,
           pk_connection_dbus_manager_get_version_finish,
           pk_connection_dbus_manager_ping_finish,
           pk_connection_dbus_manager_add_source_finish,
           pk_connection_dbus_manager_remove_channel_finish,
           pk_connection_dbus_manager_remove_source_finish,
           pk_connection_dbus_manager_remove_subscription_finish,
           pk_connection_dbus_channel_get_args_finish,
           pk_connection_dbus_channel_get_created_at_finish,
           pk_connection_dbus_channel_get_env_finish,
           pk_connection_dbus_channel_get_exit_status_finish,
           pk_connection_dbus_channel_get_kill_pid_finish,
           pk_connection_dbus_channel_get_pid_finish,
           pk_connection_dbus_channel_get_pid_set_finish,
           pk_connection_dbus_channel_get_sources_finish,
           pk_connection_dbus_channel_get_state_finish,
           pk_connection_dbus_channel_get_target_finish,
           pk_connection_dbus_channel_get_working_dir_finish,
           pk_connection_dbus_channel_mute_finish,
           pk_connection_dbus_channel_start_finish,
           pk_connection_dbus_channel_stop_finish,
           pk_connection_dbus_channel_unmute_finish,
           pk_connection_dbus_source_get_plugin_finish,
           pk_connection_dbus_encoder_get_plugin_finish,
           pk_connection_dbus_plugin_get_copyright_finish,
           pk_connection_dbus_plugin_get_description_finish,
           pk_connection_dbus_plugin_get_name_finish,
           pk_connection_dbus_plugin_get_plugin_type_finish,
           pk_connection_dbus_plugin_get_version_finish,
           pk_connection_dbus_subscription_get_buffer_finish,
           pk_connection_dbus_subscription_get_created_at_finish,
           pk_connection_dbus_subscription_get_sources_finish,
           pk_connection_dbus_subscription_unmute_finish,
           pk_connection_dbus_manager_add_subscription_finish,
           pk_connection_dbus_channel_add_source_finish,
           pk_connection_dbus_channel_set_args_finish,
           pk_connection_dbus_channel_set_env_finish,
           pk_connection_dbus_channel_set_kill_pid_finish,
           pk_connection_dbus_channel_set_pid_finish,
           pk_connection_dbus_channel_set_target_finish,
           pk_connection_dbus_channel_set_working_dir_finish,
           pk_connection_dbus_subscription_add_source_finish,
           pk_connection_dbus_subscription_mute_finish,
           pk_connection_dbus_subscription_remove_channel_finish,
           pk_connection_dbus_subscription_remove_source_finish,
           pk_connection_dbus_subscription_add_channel_finish,
           pk_connection_dbus_subscription_set_buffer_finish
<1>. QED
  BY <1>2 DEF Outcome, Refused

LEMMA ErrorIsSent ==
  ASSUME NEW op \in Procedures, NEW r, ~r.ok
  PROVE  Answered(op, r) = Error("Failed", r.error)
  BY DEF Answered, Reply, Procedures, Nullary, Unary, Binary, Ternary,
         pka_listener_dbus_manager_add_channel_cb,
         pka_listener_dbus_manager_get_channels_cb,
         pka_listener_dbus_manager_get_hostname_cb,
         pka_listener_dbus_manager_get_plugins_cb,
         pka_listener_dbus_manager_get_sources_cb,
         pka_listener_dbus_manager_get_subscriptions_cb,
         pka_listener_dbus_manager_get_version_cb,
         pka_listener_dbus_manager_ping_cb,
         pka_listener_dbus_manager_add_source_cb,
         pka_listener_dbus_manager_remove_channel_cb,
         pka_listener_dbus_manager_remove_source_cb,
         pka_listener_dbus_manager_remove_subscription_cb,
         pka_listener_dbus_channel_get_args_cb,
         pka_listener_dbus_channel_get_created_at_cb,
         pka_listener_dbus_channel_get_env_cb,
         pka_listener_dbus_channel_get_exit_status_cb,
         pka_listener_dbus_channel_get_kill_pid_cb,
         pka_listener_dbus_channel_get_pid_cb,
         pka_listener_dbus_channel_get_pid_set_cb,
         pka_listener_dbus_channel_get_sources_cb,
         pka_listener_dbus_channel_get_state_cb,
         pka_listener_dbus_channel_get_target_cb,
         pka_listener_dbus_channel_get_working_dir_cb,
         pka_listener_dbus_channel_mute_cb,
         pka_listener_dbus_channel_start_cb,
         pka_listener_dbus_channel_stop_cb,
         pka_listener_dbus_channel_unmute_cb,
         pka_listener_dbus_source_get_plugin_cb,
         pka_listener_dbus_encoder_get_plugin_cb,
         pka_listener_dbus_plugin_get_copyright_cb,
         pka_listener_dbus_plugin_get_description_cb,
         pka_listener_dbus_plugin_get_name_cb,
         pka_listener_dbus_plugin_get_plugin_type_cb,
         pka_listener_dbus_plugin_get_version_cb,
         pka_listener_dbus_subscription_get_buffer_cb,
         pka_listener_dbus_subscription_get_created_at_cb,
         pka_listener_dbus_subscription_get_sources_cb,
         pka_listener_dbus_subscription_unmute_cb,
         pka_listener_dbus_manager_add_subscription_cb,
         pka_listener_dbus_channel_add_source_cb,
         pka_listener_dbus_channel_set_args_cb,
         pka_listener_dbus_channel_set_env_cb,
         pka_listener_dbus_channel_set_kill_pid_cb,
         pka_listener_dbus_channel_set_pid_cb,
         pka_listener_dbus_channel_set_target_cb,
         pka_listener_dbus_channel_set_working_dir_cb,
         pka_listener_dbus_subscription_add_source_cb,
         pka_listener_dbus_subscription_mute_cb,
         pka_listener_dbus_subscription_remove_channel_cb,
         pka_listener_dbus_subscription_remove_source_cb,
         pka_listener_dbus_subscription_add_channel_cb,
         pka_listener_dbus_subscription_set_buffer_cb

LEMMA ResultIsRead ==
  ASSUME NEW op \in Procedures, NEW r, r.ok
  PROVE  LET result == Result(op, Answered(op, r))
         IN  /\ op \in Silent => result = Returned(<<>>)
             /\ op \in Listing =>
                  result = Returned(<<[k \in DOMAIN r.out[1] |-> r.out[1][k]]>>)
             /\ op = "subscription_get_buffer" =>
                  result = Returned(<<r.out[1], r.out[2]>>)
             /\ op \in Strings => result = Returned(<<NonNull(r.out[1])>>)
             /\ op \in Vectors => result = Returned(<<NonNullV(r.out[1])>>)
             /\ op \notin Silent \cup Listing \cup Strings \cup Vectors
                         \cup {"subscription_get_buffer"} =>
                  result = Returned(<<r.out[1]>>)
<1>. DEFINE reply == Answered(op, r)
<1>1. CASE op = "manager_add_channel"
  <2>1. reply = MethodReturn(<<ObjectPath(Path("Channel", r.out[1]))>>)
    BY <1>1 DEF Answered, Reply, pka_listener_dbus_manager_add_channel_cb
  <2>2. Result(op, reply) = Id(reply, "Channel", 0)
    BY <1>1 DEF Result, pk_connection_dbus_manager_add_channel_finish
  <2>3. Id(MethodReturn(<<ObjectPath(Path("Channel", r.out[1]))>>), "Channel", 0) = Returned(<<r.out[1]>>)
    BY Readings
  <2>. QED
    BY <1>1, <2>1, <2>2, <2>3, Readings DEF Silent, Listing, Strings, Vectors
<1>2. CASE op = "manager_get_channels"
  <2>1. reply = MethodReturn(<<PathArray(PathsOf("Channel", r.out[1]))>>)
    BY <1>2 DEF Answered, Reply, pka_listener_dbus_manager_get_channels_cb
  <2>2. Result(op, reply) = Ids(reply, "Channel")
    BY <1>2 DEF Result, pk_connection_dbus_manager_get_channels_finish
  <2>. QED
    BY <1>2, <2>1, <2>2, Readings DEF Silent, Listing, Strings, Vectors
<1>3. CASE op \in {"manager_get_hostname", "manager_get_version",
               "channel_get_target", "channel_get_working_dir",
               "plugin_get_copyright", "plugin_get_description",
               "plugin_get_name", "plugin_get_version"}
  <2>1. reply = MethodReturn(<<String(NonNull(r.out[1]))>>)
    BY <1>3 DEF Answered, Reply, pka_listener_dbus_manager_get_hostname_cb,
             pka_listener_dbus_manager_get_version_cb,
             pka_listener_dbus_channel_get_target_cb,
             pka_listener_dbus_channel_get_working_dir_cb,
             pka_listener_dbus_plugin_get_copyright_cb,
             pka_listener_dbus_plugin_get_description_cb,
             pka_listener_dbus_plugin_get_name_cb,
             pka_listener_dbus_plugin_get_version_cb
  <2>2. Result(op, reply) = Value(reply, "s")
    BY <1>3 DEF Result, pk_connection_dbus_manager_get_hostname_finish,
             pk_connection_dbus_manager_get_version_finish,
             pk_connection_dbus_channel_get_target_finish,
             pk_connection_dbus_channel_get_working_dir_finish,
             pk_connection_dbus_plugin_get_copyright_finish,
             pk_connection_dbus_plugin_get_description_finish,
             pk_connection_dbus_plugin_get_name_finish,
             pk_connection_dbus_plugin_get_version_finish
  <2>. QED
    BY <1>3, <2>1, <2>2, Readings DEF Silent, Listing, Strings, Vectors
<1>4. CASE op = "manager_get_plugins"
  <2>1. reply = MethodReturn(<<PathArray(PathsOf("Plugin", r.out[1]))>>)
    BY <1>4 DEF Answered, Reply, pka_listener_dbus_manager_get_plugins_cb
  <2>2. Result(op, reply) = Ids(reply, "Plugin")
    BY <1>4 DEF Result, pk_connection_dbus_manager_get_plugins_finish
  <2>. QED
    BY <1>4, <2>1, <2>2, Readings DEF Silent, Listing, Strings, Vectors
<1>5. CASE op \in {"manager_get_sources", "channel_get_sources",
               "subscription_get_sources"}
  <2>1. reply = MethodReturn(<<PathArray(PathsOf("Source", r.out[1]))>>)
    BY <1>5 DEF Answered, Reply, pka_listener_dbus_manager_get_sources_cb,
             pka_listener_dbus_channel_get_sources_cb,
             pka_listener_dbus_subscription_get_sources_cb
  <2>2. Result(op, reply) = Ids(reply, "Source")
    BY <1>5 DEF Result, pk_connection_dbus_manager_get_sources_finish,
             pk_connection_dbus_channel_get_sources_finish,
             pk_connection_dbus_subscription_get_sources_finish
  <2>. QED
    BY <1>5, <2>1, <2>2, Readings DEF Silent, Listing, Strings, Vectors
<1>6. CASE op = "manager_get_subscriptions"
  <2>1. reply = MethodReturn(<<PathArray(PathsOf("Subscription", r.out[1]))>>)
    BY <1>6 DEF Answered, Reply, pka_listener_dbus_manager_get_subscriptions_cb
  <2>2. Result(op, reply) = Ids(reply, "Subscription")
    BY <1>6 DEF Result, pk_connection_dbus_manager_get_subscriptions_finish
  <2>. QED
    BY <1>6, <2>1, <2>2, Readings DEF Silent, Listing, Strings, Vectors
<1>7. CASE op \in {"manager_ping", "channel_get_created_at",
               "subscription_get_created_at"}
  <2>1. reply = MethodReturn(<<String(Iso8601(r.out[1]))>>)
    BY <1>7 DEF Answered, Reply, pka_listener_dbus_manager_ping_cb,
             pka_listener_dbus_channel_get_created_at_cb,
             pka_listener_dbus_subscription_get_created_at_cb
  <2>2. Result(op, reply) = Time(reply)
    BY <1>7 DEF Result, pk_connection_dbus_manager_ping_finish,
             pk_connection_dbus_channel_get_created_at_finish,
             pk_connection_dbus_subscription_get_created_at_finish
  <2>. QED
    BY <1>7, <2>1, <2>2, Readings DEF Silent, Listing, Strings, Vectors
<1>8. CASE op = "manager_add_source"
  <2>1. reply = MethodReturn(<<ObjectPath(Path("Source", r.out[1]))>>)
    BY <1>8 DEF Answered, Reply, pka_listener_dbus_manager_add_source_cb
  <2>2. Result(op, reply) = Id(reply, "Source", 0)
    BY <1>8 DEF Result, pk_connection_dbus_manager_add_source_finish
  <2>3. Id(MethodReturn(<<ObjectPath(Path("Source", r.out[1]))>>), "Source", 0) = Returned(<<r.out[1]>>)
    BY Readings
  <2>. QED
    BY <1>8, <2>1, <2>2, <2>3, Readings DEF Silent, Listing, Strings, Vectors
<1>9. CASE op \in {"manager_remove_channel", "manager_remove_subscription",
               "channel_get_kill_pid", "channel_get_pid_set"}
  <2>1. reply = MethodReturn(<<Boolean(r.out[1])>>)
    BY <1>9 DEF Answered, Reply, pka_listener_dbus_manager_remove_channel_cb,
             pka_listener_dbus_manager_remove_subscription_cb,
             pka_listener_dbus_channel_get_kill_pid_cb,
             pka_listener_dbus_channel_get_pid_set_cb
  <2>2. Result(op, reply) = Value(reply, "b")
    BY <1>9 DEF Result, pk_connection_dbus_manager_remove_channel_finish,
             pk_connection_dbus_manager_remove_subscription_finish,
             pk_connection_dbus_channel_get_kill_pid_finish,
             pk_connection_dbus_channel_get_pid_set_finish
  <2>. QED
    BY <1>9, <2>1, <2>2, Readings DEF Silent, Listing, Strings, Vectors
<1>10. CASE op \in {"manager_remove_source", "channel_mute", "channel_start",
               "channel_stop", "channel_unmute", "subscription_unmute",
               "channel_add_source", "channel_set_args", "channel_set_env",
               "channel_set_kill_pid", "channel_set_pid",
               "channel_set_target", "channel_set_working_dir",
               "subscription_add_source", "subscription_mute",
               "subscription_remove_channel", "subscription_remove_source",
               "subscription_add_channel", "subscription_set_buffer"}
  <2>1. reply = MethodReturn(<<>>)
    BY <1>10 DEF Answered, Reply, pka_listener_dbus_manager_remove_source_cb,
             pka_listener_dbus_channel_mute_cb,
             pka_listener_dbus_channel_start_cb,
             pka_listener_dbus_channel_stop_cb,
             pka_listener_dbus_channel_unmute_cb,
             pka_listener_dbus_subscription_unmute_cb,
             pka_listener_dbus_channel_add_source_cb,
             pka_listener_dbus_channel_set_args_cb,
             pka_listener_dbus_channel_set_env_cb,
             pka_listener_dbus_channel_set_kill_pid_cb,
             pka_listener_dbus_channel_set_pid_cb,
             pka_listener_dbus_channel_set_target_cb,
             pka_listener_dbus_channel_set_working_dir_cb,
             pka_listener_dbus_subscription_add_source_cb,
             pka_listener_dbus_subscription_mute_cb,
             pka_listener_dbus_subscription_remove_channel_cb,
             pka_listener_dbus_subscription_remove_source_cb,
             pka_listener_dbus_subscription_add_channel_cb,
             pka_listener_dbus_subscription_set_buffer_cb
  <2>2. Result(op, reply) = Done(reply)
    BY <1>10 DEF Result, pk_connection_dbus_manager_remove_source_finish,
             pk_connection_dbus_channel_mute_finish,
             pk_connection_dbus_channel_start_finish,
             pk_connection_dbus_channel_stop_finish,
             pk_connection_dbus_channel_unmute_finish,
             pk_connection_dbus_subscription_unmute_finish,
             pk_connection_dbus_channel_add_source_finish,
             pk_connection_dbus_channel_set_args_finish,
             pk_connection_dbus_channel_set_env_finish,
             pk_connection_dbus_channel_set_kill_pid_finish,
             pk_connection_dbus_channel_set_pid_finish,
             pk_connection_dbus_channel_set_target_finish,
             pk_connection_dbus_channel_set_working_dir_finish,
             pk_connection_dbus_subscription_add_source_finish,
             pk_connection_dbus_subscription_mute_finish,
             pk_connection_dbus_subscription_remove_channel_finish,
             pk_connection_dbus_subscription_remove_source_finish,
             pk_connection_dbus_subscription_add_channel_finish,
             pk_connection_dbus_subscription_set_buffer_finish
  <2>. QED
    BY <1>10, <2>1, <2>2, Readings DEF Silent, Listing, Strings, Vectors
<1>11. CASE op \in {"channel_get_args", "channel_get_env"}
  <2>1. reply = MethodReturn(<<StringArray(NonNullV(r.out[1]))>>)
    BY <1>11 DEF Answered, Reply, pka_listener_dbus_channel_get_args_cb,
             pka_listener_dbus_channel_get_env_cb
  <2>2. Result(op, reply) = Value(reply, "as")
    BY <1>11 DEF Result, pk_connection_dbus_channel_get_args_finish,
             pk_connection_dbus_channel_get_env_finish
  <2>. QED
    BY <1>11, <2>1, <2>2, Readings DEF Silent, Listing, Strings, Vectors
<1>12. CASE op \in {"channel_get_exit_status", "channel_get_pid",
               "channel_get_state", "plugin_get_plugin_type"}
  <2>1. reply = MethodReturn(<<Int32(r.out[1])>>)
    BY <1>12 DEF Answered, Reply, pka_listener_dbus_channel_get_exit_status_cb,
             pka_listener_dbus_channel_get_pid_cb,
             pka_listener_dbus_channel_get_state_cb,
             pka_listener_dbus_plugin_get_plugin_type_cb
  <2>2. Result(op, reply) = Value(reply, "i")
    BY <1>12 DEF Result, pk_connection_dbus_channel_get_exit_status_finish,
             pk_connection_dbus_channel_get_pid_finish,
             pk_connection_dbus_channel_get_state_finish,
             pk_connection_dbus_plugin_get_plugin_type_finish
  <2>. QED
    BY <1>12, <2>1, <2>2, Readings DEF Silent, Listing, Strings, Vectors
<1>13. CASE op \in {"source_get_plugin", "encoder_get_plugin"}
  <2>1. reply = MethodReturn(<<ObjectPath(Path("Plugin", r.out[1]))>>)
    BY <1>13 DEF Answered, Reply, pka_listener_dbus_source_get_plugin_cb,
             pka_listener_dbus_encoder_get_plugin_cb
  <2>2. Result(op, reply) = Id(reply, "Plugin", NULL)
    BY <1>13 DEF Result, pk_connection_dbus_source_get_plugin_finish,
             pk_connection_dbus_encoder_get_plugin_finish
  <2>3. Id(MethodReturn(<<ObjectPath(Path("Plugin", r.out[1]))>>), "Plugin", NULL) = Returned(<<r.out[1]>>)
    BY Readings
  <2>. QED
    BY <1>13, <2>1, <2>2, <2>3, Readings DEF Silent, Listing, Strings, Vectors
<1>14. CASE op = "subscription_get_buffer"
  <2>1. reply = MethodReturn(<<Int32(r.out[1]), Int32(r.out[2])>>)
    BY <1>14 DEF Answered, Reply, pka_listener_dbus_subscription_get_buffer_cb
  <2>2. Result(op, reply) = Decode(reply, <<"i", "i">>, <<Arg(reply, 1), Arg(reply, 2)>>)
    BY <1>14 DEF Result, pk_connection_dbus_subscription_get_buffer_finish
  <2>. QED
    BY <1>14, <2>1, <2>2, Readings DEF Silent, Listing, Strings, Vectors
<1>15. CASE op = "manager_add_subscription"
  <2>1. reply = MethodReturn(<<ObjectPath(Path("Subscription", r.out[1]))>>)
    BY <1>15 DEF Answered, Reply, pka_listener_dbus_manager_add_subscription_cb
  <2>2. Result(op, reply) = Id(reply, "Subscription", 0)
    BY <1>15 DEF Result, pk_connection_dbus_manager_add_subscription_finish
  <2>3. Id(MethodReturn(<<ObjectPath(Path("Subscription", r.out[1]))>>), "Subscription", 0) = Returned(<<r.out[1]>>)
    BY Readings
  <2>. QED
    BY <1>15, <2>1, <2>2, <2>3, Readings DEF Silent, Listing, Strings, Vectors
<1>. QED
  BY <1>1, <1>2, <1>3, <1>4, <1>5, <1>6, <1>7, <1>8, <1>9, <1>10, <1>11,
     <1>12, <1>13, <1>14, <1>15
  DEF Procedures, Nullary, Unary, Binary, Ternary

\* What an operation has stored is what the caller is given.
LEMMA ReadBack ==
  ASSUME NEW op \in Procedures, NEW a, NEW in, NEW s
  PROVE  LET r == Performed(a, op, in, s)
         IN  Outcome(Result(op, Answered(op, r))) = Read(op, r)
<1>. DEFINE r == Performed(a, op, in, s)
<1>1. CASE ~r.ok
  BY <1>1, ErrorIsSent, ErrorIsRead DEF Read
<1>2. CASE r.ok
  <2>1. \A out : Outcome(Returned(out)) = [ok |-> TRUE, out |-> out]
    BY DEF Outcome, Returned
  <2>2. /\ op \in Silent => r.out = <<>>
        /\ op = "subscription_get_buffer" => \E v, w : r.out = <<v, w>>
        /\ op \in Listing => \E v : r.out = <<v>> /\ v = [k \in DOMAIN v |-> v[k]]
        /\ op \notin Silent \cup Listing \cup {"subscription_get_buffer"} =>
             \E v : r.out = <<v>>
    BY <1>2, Stored
  <2>3. LET result == Result(op, Answered(op, r))
        IN  /\ op \in Silent => result = Returned(<<>>)
            /\ op \in Listing =>
                 result = Returned(<<[k \in DOMAIN r.out[1] |-> r.out[1][k]]>>)
            /\ op = "subscription_get_buffer" =>
                 result = Returned(<<r.out[1], r.out[2]>>)
            /\ op \in Strings => result = Returned(<<NonNull(r.out[1])>>)
            /\ op \in Vectors => result = Returned(<<NonNullV(r.out[1])>>)
            /\ op \notin Silent \cup Listing \cup Strings \cup Vectors
                        \cup {"subscription_get_buffer"} =>
                 result = Returned(<<r.out[1]>>)
    BY <1>2, ResultIsRead
  <2>. SUFFICES Outcome(Result(op, Answered(op, r))) = Read(op, r)
    OBVIOUS
  <2>. HIDE DEF r
  <2>4. CASE op \in Silent
    <3>. DEFINE q == [k \in DOMAIN r.out |->
                       IF op \in Strings /\ r.out[k] = NULL THEN Empty
                       ELSE IF op \in Vectors /\ r.out[k] = NULL THEN <<>>
                       ELSE r.out[k]]
    <3>1. q = [k \in DOMAIN q |-> q[k]]
      OBVIOUS
    <3>0. DOMAIN q = {}
      BY <2>2, <2>4
    <3>2. Read(op, r) = [ok |-> TRUE, out |-> q]
      BY <1>2 DEF Read
    <3>. HIDE DEF q
    <3>. QED
      BY <2>1, <2>3, <2>4, <3>0, <3>1, <3>2, NoEntries
  <2>5. CASE op = "subscription_get_buffer"
    BY <1>2, <2>1, <2>2, <2>3, <2>5 DEF Read, Silent, Listing, Strings, Vectors
  <2>6. CASE op \in Listing
    BY <1>2, <2>1, <2>2, <2>3, <2>6 DEF Read, Silent, Listing, Strings, Vectors
  <2>7. CASE op \notin Silent \cup Listing \cup {"subscription_get_buffer"}
    <3>1. PICK v : r.out = <<v>>
      BY <2>2, <2>7
    <3>2. CASE op \in Strings
      BY <1>2, <2>1, <2>3, <2>7, <3>1, <3>2 DEF Read, NonNull
    <3>3. CASE op \in Vectors
      BY <1>2, <2>1, <2>3, <2>7, <3>1, <3>3 DEF Read, NonNullV, Strings, Vectors
    <3>4. CASE op \notin Strings \cup Vectors
      BY <1>2, <2>1, <2>3, <2>7, <3>1, <3>4 DEF Read
    <3>. QED BY <3>2, <3>3, <3>4
  <2>. QED
    BY <2>4, <2>5, <2>6, <2>7
<1>. QED
  BY <1>1, <1>2

\* The types of the values in the reply to a call.
Types(op) ==
  CASE op \in {"manager_add_channel", "manager_add_source",
               "source_get_plugin", "encoder_get_plugin",
               "manager_add_subscription"} -> <<"o">>
    [] op \in {"manager_get_channels", "manager_get_plugins",
               "manager_get_sources", "channel_get_sources",
               "subscription_get_sources", "manager_get_subscriptions"} -> <<"ao">>
    [] op \in {"manager_get_hostname", "manager_get_version",
               "channel_get_target", "channel_get_working_dir",
               "plugin_get_copyright", "plugin_get_description",
               "plugin_get_name", "plugin_get_version", "manager_ping",
               "channel_get_created_at", "subscription_get_created_at"} -> <<"s">>
    [] op \in {"manager_remove_channel", "manager_remove_subscription",
               "channel_get_kill_pid", "channel_get_pid_set"} -> <<"b">>
    [] op \in {"channel_get_args", "channel_get_env"} -> <<"as">>
    [] op \in {"channel_get_exit_status", "channel_get_pid",
               "channel_get_state", "plugin_get_plugin_type"} -> <<"i">>
    [] op = "subscription_get_buffer" -> <<"i", "i">>
    [] OTHER -> <<>>

LEMMA Declared ==
  ASSUME NEW op \in Procedures, NEW in, NEW r, r.ok
  PROVE  LET m == Request(Rpc(op, in))
             args == Answered(op, r).args
         IN  \E d \in Introspection[m.interface] :
               d.member = m.member /\ d.out = [k \in DOMAIN args |-> args[k][1]]
<1>. DEFINE m == Request(Rpc(op, in))
            args == Answered(op, r).args
<1>1. [k \in DOMAIN args |-> args[k][1]] = Types(op)
  <2>1. \A type, v : <<<<type, v>>>> = <<<<type, v>>>> =>
          LET a == <<<<type, v>>>> IN [k \in DOMAIN a |-> a[k][1]] = <<type>>
    OBVIOUS
  <2>2. CASE op \in {"manager_add_channel", "manager_add_source",
                 "source_get_plugin", "encoder_get_plugin",
                 "manager_add_subscription"}
    <3>1. \E v : args = <<<<"o", v>>>>
      BY <2>2
      DEF Answered, Reply, MethodReturn, ObjectPath,
          pka_listener_dbus_manager_add_channel_cb,
          pka_listener_dbus_manager_add_source_cb,
          pka_listener_dbus_source_get_plugin_cb,
          pka_listener_dbus_encoder_get_plugin_cb,
          pka_listener_dbus_manager_add_subscription_cb
    <3>. QED
      BY <2>1, <2>2, <3>1 DEF Types
  <2>3. CASE op \in {"manager_get_channels", "manager_get_plugins",
                 "manager_get_sources", "channel_get_sources",
                 "subscription_get_sources", "manager_get_subscriptions"}
    <3>1. \E v : args = <<<<"ao", v>>>>
      BY <2>3
      DEF Answered, Reply, MethodReturn, PathArray,
          pka_listener_dbus_manager_get_channels_cb,
          pka_listener_dbus_manager_get_plugins_cb,
          pka_listener_dbus_manager_get_sources_cb,
          pka_listener_dbus_channel_get_sources_cb,
          pka_listener_dbus_subscription_get_sources_cb,
          pka_listener_dbus_manager_get_subscriptions_cb
    <3>. QED
      BY <2>1, <2>3, <3>1 DEF Types
  <2>4. CASE op \in {"manager_get_hostname", "manager_get_version",
                 "channel_get_target", "channel_get_working_dir",
                 "plugin_get_copyright", "plugin_get_description",
                 "plugin_get_name", "plugin_get_version", "manager_ping",
                 "channel_get_created_at", "subscription_get_created_at"}
    <3>1. \E v : args = <<<<"s", v>>>>
      BY <2>4
      DEF Answered, Reply, MethodReturn, String,
          pka_listener_dbus_manager_get_hostname_cb,
          pka_listener_dbus_manager_get_version_cb,
          pka_listener_dbus_channel_get_target_cb,
          pka_listener_dbus_channel_get_working_dir_cb,
          pka_listener_dbus_plugin_get_copyright_cb,
          pka_listener_dbus_plugin_get_description_cb,
          pka_listener_dbus_plugin_get_name_cb,
          pka_listener_dbus_plugin_get_version_cb,
          pka_listener_dbus_manager_ping_cb,
          pka_listener_dbus_channel_get_created_at_cb,
          pka_listener_dbus_subscription_get_created_at_cb
    <3>. QED
      BY <2>1, <2>4, <3>1 DEF Types
  <2>5. CASE op \in {"manager_remove_channel", "manager_remove_subscription",
                 "channel_get_kill_pid", "channel_get_pid_set"}
    <3>1. \E v : args = <<<<"b", v>>>>
      BY <2>5
      DEF Answered, Reply, MethodReturn, Boolean,
          pka_listener_dbus_manager_remove_channel_cb,
          pka_listener_dbus_manager_remove_subscription_cb,
          pka_listener_dbus_channel_get_kill_pid_cb,
          pka_listener_dbus_channel_get_pid_set_cb
    <3>. QED
      BY <2>1, <2>5, <3>1 DEF Types
  <2>6. CASE op \in {"manager_remove_source", "channel_mute", "channel_start",
                 "channel_stop", "channel_unmute", "subscription_unmute",
                 "channel_add_source", "channel_set_args", "channel_set_env",
                 "channel_set_kill_pid", "channel_set_pid",
                 "channel_set_target", "channel_set_working_dir",
                 "subscription_add_source", "subscription_mute",
                 "subscription_remove_channel", "subscription_remove_source",
                 "subscription_add_channel", "subscription_set_buffer"}
    <3>1. args = <<>>
      BY <2>6
      DEF Answered, Reply, MethodReturn,
          pka_listener_dbus_manager_remove_source_cb,
          pka_listener_dbus_channel_mute_cb,
          pka_listener_dbus_channel_start_cb,
          pka_listener_dbus_channel_stop_cb,
          pka_listener_dbus_channel_unmute_cb,
          pka_listener_dbus_subscription_unmute_cb,
          pka_listener_dbus_channel_add_source_cb,
          pka_listener_dbus_channel_set_args_cb,
          pka_listener_dbus_channel_set_env_cb,
          pka_listener_dbus_channel_set_kill_pid_cb,
          pka_listener_dbus_channel_set_pid_cb,
          pka_listener_dbus_channel_set_target_cb,
          pka_listener_dbus_channel_set_working_dir_cb,
          pka_listener_dbus_subscription_add_source_cb,
          pka_listener_dbus_subscription_mute_cb,
          pka_listener_dbus_subscription_remove_channel_cb,
          pka_listener_dbus_subscription_remove_source_cb,
          pka_listener_dbus_subscription_add_channel_cb,
          pka_listener_dbus_subscription_set_buffer_cb
    <3>2. DOMAIN args = {}
      BY <3>1
    <3>. DEFINE q == [k \in DOMAIN args |-> args[k][1]]
    <3>3. q = [k \in DOMAIN q |-> q[k]]
      OBVIOUS
    <3>4. DOMAIN q = {}
      BY <3>2
    <3>. HIDE DEF q
    <3>5. q = <<>>
      BY <3>3, <3>4, NoEntries
    <3>. QED
      BY <2>6, <3>5 DEF Types, q
  <2>7. CASE op \in {"channel_get_args", "channel_get_env"}
    <3>1. \E v : args = <<<<"as", v>>>>
      BY <2>7
      DEF Answered, Reply, MethodReturn, StringArray,
          pka_listener_dbus_channel_get_args_cb,
          pka_listener_dbus_channel_get_env_cb
    <3>. QED
      BY <2>1, <2>7, <3>1 DEF Types
  <2>8. CASE op \in {"channel_get_exit_status", "channel_get_pid",
                 "channel_get_state", "plugin_get_plugin_type"}
    <3>1. \E v : args = <<<<"i", v>>>>
      BY <2>8
      DEF Answered, Reply, MethodReturn, Int32,
          pka_listener_dbus_channel_get_exit_status_cb,
          pka_listener_dbus_channel_get_pid_cb,
          pka_listener_dbus_channel_get_state_cb,
          pka_listener_dbus_plugin_get_plugin_type_cb
    <3>. QED
      BY <2>1, <2>8, <3>1 DEF Types
  <2>9. CASE op = "subscription_get_buffer"
    <3>1. \E v, w : args = <<<<"i", v>>, <<"i", w>>>>
      BY <2>9
      DEF Answered, Reply, MethodReturn, Int32,
          pka_listener_dbus_subscription_get_buffer_cb
    <3>. QED
      BY <2>9, <3>1 DEF Types
  <2>. QED
    BY <2>2, <2>3, <2>4, <2>5, <2>6, <2>7, <2>8, <2>9
    DEF Procedures, Nullary, Unary, Binary, Ternary
<1>2. CASE op \in ManagerCalls
  <2>1. m.interface = "Manager" /\ m.member = Member(op)
    BY <1>2, Addressed
  <2>2. \E d \in ManagerIntrospection : d.member = Member(op) /\ d.out = Types(op)
    <3>1. CASE op \in {"manager_add_channel", "manager_add_source",
                     "manager_add_subscription"}
      BY <3>1 DEF ManagerIntrospection, Method, Member, Types
    <3>2. CASE op \in {"manager_get_channels", "manager_get_plugins",
                     "manager_get_sources", "manager_get_subscriptions"}
      BY <3>2 DEF ManagerIntrospection, Method, Member, Types
    <3>3. CASE op \in {"manager_get_hostname", "manager_get_version",
                     "manager_ping"}
      BY <3>3 DEF ManagerIntrospection, Method, Member, Types
    <3>4. CASE op \in {"manager_remove_channel", "manager_remove_source",
                     "manager_remove_subscription"}
      BY <3>4 DEF ManagerIntrospection, Method, Member, Types
    <3>. QED
      BY <1>2, <3>1, <3>2, <3>3, <3>4 DEF ManagerCalls
  <2>. QED
    BY <1>1, <2>1, <2>2 DEF Introspection
<1>3. CASE op \in ChannelCalls
  <2>1. m.interface = "Channel" /\ m.member = Member(op)
    BY <1>3, Addressed
  <2>2. \E d \in ChannelIntrospection : d.member = Member(op) /\ d.out = Types(op)
    <3>1. CASE op \in {"channel_get_args", "channel_get_env", "channel_get_sources"}
      BY <3>1 DEF ChannelIntrospection, Method, Member, Types
    <3>2. CASE op \in {"channel_get_created_at", "channel_get_target",
                     "channel_get_working_dir"}
      BY <3>2 DEF ChannelIntrospection, Method, Member, Types
    <3>3. CASE op \in {"channel_get_exit_status", "channel_get_pid",
                     "channel_get_state"}
      BY <3>3 DEF ChannelIntrospection, Method, Member, Types
    <3>4. CASE op \in {"channel_get_kill_pid", "channel_get_pid_set"}
      BY <3>4 DEF ChannelIntrospection, Method, Member, Types
    <3>5. CASE op \in {"channel_add_source", "channel_mute", "channel_start",
                     "channel_stop", "channel_unmute"}
      <4>1. Types(op) = <<>>
        BY <3>5 DEF Types
      <4>. QED
        BY <3>5, <4>1 DEF ChannelIntrospection, Method, Member
    <3>6. CASE op \in {"channel_set_args", "channel_set_env",
                     "channel_set_kill_pid"}
      <4>1. Types(op) = <<>>
        BY <3>6 DEF Types
      <4>. QED
        BY <3>6, <4>1 DEF ChannelIntrospection, Method, Member
    <3>7. CASE op \in {"channel_set_pid", "channel_set_target",
                     "channel_set_working_dir"}
      <4>1. Types(op) = <<>>
        BY <3>7 DEF Types
      <4>. QED
        BY <3>7, <4>1 DEF ChannelIntrospection, Method, Member
    <3>. QED
      BY <1>3, <3>1, <3>2, <3>3, <3>4, <3>5, <3>6, <3>7 DEF ChannelCalls
  <2>. QED
    BY <1>1, <2>1, <2>2 DEF Introspection
<1>4. CASE op \in SourceCalls
  <2>1. m.interface = "Source" /\ m.member = Member(op)
    BY <1>4, Addressed
  <2>2. \E d \in SourceIntrospection : d.member = Member(op) /\ d.out = Types(op)
    BY <1>4 DEF SourceCalls, SourceIntrospection, Method, Member, Types
  <2>. QED
    BY <1>1, <2>1, <2>2 DEF Introspection
<1>5. CASE op \in EncoderCalls
  <2>1. m.interface = "Encoder" /\ m.member = Member(op)
    BY <1>5, Addressed
  <2>2. \E d \in EncoderIntrospection : d.member = Member(op) /\ d.out = Types(op)
    BY <1>5 DEF EncoderCalls, EncoderIntrospection, Method, Member, Types
  <2>. QED
    BY <1>1, <2>1, <2>2 DEF Introspection
<1>6. CASE op \in PluginCalls
  <2>1. m.interface = "Plugin" /\ m.member = Member(op)
    BY <1>6, Addressed
  <2>2. \E d \in PluginIntrospection : d.member = Member(op) /\ d.out = Types(op)
    BY <1>6 DEF PluginCalls, PluginIntrospection, Method, Member, Types
  <2>. QED
    BY <1>1, <2>1, <2>2 DEF Introspection
<1>7. CASE op \in SubscriptionCalls
  <2>1. m.interface = "Subscription" /\ m.member = Member(op)
    BY <1>7, Addressed
  <2>2. \E d \in SubscriptionIntrospection : d.member = Member(op) /\ d.out = Types(op)
    BY <1>7 DEF SubscriptionCalls, SubscriptionIntrospection, Method, Member, Types
  <2>. QED
    BY <1>1, <2>1, <2>2 DEF Introspection
<1>. QED
  BY <1>2, <1>3, <1>4, <1>5, <1>6, <1>7
  DEF Procedures, Nullary, Unary, Binary, Ternary, ManagerCalls, ChannelCalls, SourceCalls,
      EncoderCalls, PluginCalls, SubscriptionCalls

(***************************************************************************)
(* The start: what the calls of Setup have left, by induction over their   *)
(* number.                                                                 *)
(***************************************************************************)
LEMMA LeastNumber ==
  ASSUME NEW T \in SUBSET Nat, T # {}
  PROVE  \E n \in T : \A m \in T : n <= m
<1>. DEFINE R == StrictSubsetOrdering(Nat)
            U == {0..n : n \in T}
<1>1. IsWellFoundedOn(R, FiniteSubsetsOf(Nat))
  BY FS_StrictSubsetOrderingWellFounded
<1>2. U \subseteq FiniteSubsetsOf(Nat) /\ U # {}
  <2>1. ASSUME NEW n \in T  PROVE  0..n \in FiniteSubsetsOf(Nat)
    <3>1. IsFiniteSet(0..n)
      BY FS_Interval
    <3>. QED BY <3>1 DEF FiniteSubsetsOf
  <2>. QED BY <2>1
<1>. HIDE DEF R
<1>3. PICK x \in U : \A y \in U : ~ (<<y, x>> \in R)
  <2>. HIDE DEF U
  <2>. QED BY <1>1, <1>2, WFMin
<1>4. PICK n \in T : x = 0..n
  OBVIOUS
<1>5. ASSUME NEW m \in T  PROVE  n <= m
  <2>1. ~ (<<0..m, 0..n>> \in R)
    BY <1>3, <1>4
  <2>2. SUFFICES ASSUME m < n PROVE FALSE
    OBVIOUS
  <2>3. 0..m \in SUBSET Nat /\ 0..n \in SUBSET Nat /\ 0..m \subseteq 0..n /\ n \in 0..n /\ n \notin 0..m
    BY <2>2
  <2>4. <<0..m, 0..n>> \in R
    BY <2>3 DEF R, StrictSubsetOrdering
  <2>. QED BY <2>1, <2>4
<1>. QED
  BY <1>5

LEMMA Descent ==
  ASSUME NEW S, 0 \in S, \A n \in Nat : n \in S => n + 1 \in S
  PROVE  Nat \subseteq S
<1>. SUFFICES ASSUME Nat \ S # {} PROVE FALSE
  OBVIOUS
<1>1. PICK n \in Nat \ S : \A m \in Nat \ S : n <= m
  BY LeastNumber
<1>2. n # 0 
  OBVIOUS
<1>3. n - 1 \in Nat /\ n - 1 \in S
  BY <1>1, <1>2
<1>. QED BY <1>3

LEMMA StartedExists ==
  /\ Started[0] = [agent |-> pka_manager_init, paths |-> FirstPaths]
  /\ \A k \in Nat : Started[k + 1] = SetUp(Started[k], Setup[k + 1])
<1>. DEFINE first == [agent |-> pka_manager_init, paths |-> FirstPaths]
            next(s, k) == SetUp(s, Setup[k])
            Run(g, n) == /\ DOMAIN g = 0..n /\ g[0] = first
                         /\ \A k \in 1..n : g[k] = next(g[k - 1], k)
            run[n \in Nat] == CHOOSE g : Run(g, n)
            f == [n \in Nat |-> run[n][n]]
<1>. HIDE DEF first, next
<1>. DEFINE Reached == {n \in Nat : \E g : Run(g, n)}
<1>1. Nat \subseteq Reached
  <2>1. Run([k \in 0..0 |-> first], 0)
    OBVIOUS
  <2>2. ASSUME NEW n \in Nat, NEW g, Run(g, n)  PROVE \E h : Run(h, n + 1)
    <3>. DEFINE h == [k \in 0..(n + 1) |-> IF k <= n THEN g[k] ELSE next(g[n], n + 1)]
    <3>1. Run(h, n + 1)
      BY <2>2
    <3>. QED BY <3>1
  <2>. HIDE DEF Run
  <2>3. 0 \in Reached
    BY <2>1
  <2>4. \A n \in Nat : n \in Reached => n + 1 \in Reached
    BY <2>2
  <2>. HIDE DEF Reached
  <2>. QED BY <2>3, <2>4, Descent
<1>2. ASSUME NEW n \in Nat, NEW g, Run(g, n), NEW m \in Nat, NEW h, Run(h, m)
      PROVE  \A k \in 0..n : k <= m => g[k] = h[k]
  <2>. DEFINE S == {k \in Nat : k <= n /\ k <= m => g[k] = h[k]}
  <2>1. 0 \in S
    BY <1>2
  <2>2. ASSUME NEW k \in S PROVE k + 1 \in S
    BY <1>2
  <2>. HIDE DEF S
  <2>3. Nat \subseteq S
    BY <2>1, <2>2, Descent
  <2>. QED
    BY <2>3 DEF S
<1>3. ASSUME NEW n \in Nat PROVE Run(run[n], n)
  BY <1>1
<1>. HIDE DEF Run, run
<1>4. f = [n \in Nat |-> IF n = 0 THEN first ELSE next(f[n - 1], n)]
  <2>1. f[0] = first
    BY <1>3 DEF Run
  <2>2. ASSUME NEW n \in Nat \ {0} PROVE f[n] = next(f[n - 1], n)
    <3>1. run[n][n] = next(run[n][n - 1], n) /\ n - 1 \in Nat
      BY <1>3 DEF Run
    <3>2. run[n][n - 1] = run[n - 1][n - 1]
      BY <1>2, <1>3, <3>1
    <3>. QED BY <3>1, <3>2
  <2>. QED BY <2>1, <2>2
<1>. HIDE DEF f
<1>5. Started = [n \in Nat |-> IF n = 0 THEN first ELSE next(Started[n - 1], n)]
  <2>1. \E g : g = [n \in Nat |-> IF n = 0 THEN first ELSE next(g[n - 1], n)]
    BY <1>4
  <2>. QED BY <2>1 DEF Started, first, next
<1>. QED
  BY <1>5 DEF first, next

LEMMA StartIsSound ==
  ASSUME \A k \in 1..Len(Setup) : IsCall(Setup[k]), Len(Setup) \in Nat
  PROVE  /\ AgentOK(AtStart.agent)
         /\ AtStart.paths = RegistryPaths(AtStart.agent)
         /\ ChannelsStay(AtStart.agent)
<1>. DEFINE Good(s) == /\ AgentOK(s.agent)
                       /\ s.paths = RegistryPaths(s.agent)
                       /\ ChannelsStay(s.agent)
            S == {k \in Nat : k <= Len(Setup) => Good(Started[k])}
<1>1. Good([agent |-> pka_manager_init, paths |-> FirstPaths])
  <2>1. pka_manager_init = [channels |-> [id \in {} |-> NULL],
                            sources |-> [id \in {} |-> NULL],
                            subscriptions |-> [id \in {} |-> NULL], now |-> 0]
    BY DEF pka_manager_init
  <2>2. AgentOK(pka_manager_init)
    <3>1. \A f : DOMAIN f = {} => Numbered(f)
      <4>1. 0 \in Nat /\ 0..(0 - 1) = {}
        OBVIOUS
      <4>. QED BY <4>1 DEF Numbered
    <3>. QED
      BY <2>1, <3>1 DEF AgentOK, AgentShape, Shaped, Attachments
  <2>3. ChannelsStay(pka_manager_init) /\ RegistryPaths(pka_manager_init) = FirstPaths
    BY <2>1 DEF ChannelsStay, RegistryPaths, Registered
  <2>. QED
    BY <2>2, <2>3
<1>2. ASSUME NEW k \in Nat, k + 1 <= Len(Setup), Good(Started[k])
      PROVE  Good(Started[k + 1])
  <2>. DEFINE s == Started[k]
              want == Setup[k + 1]
              r == Performed(s.agent, want.op, want.in, 0)
  <2>1. Started[k + 1] = [agent |-> r.agent, paths |-> AllNotified(s.paths, r.notify)]
    BY StartedExists DEF SetUp
  <2>2. want.op \in Procedures
    <3>1. IsCall(want)
      BY <1>2
    <3>. QED BY <3>1, CallIsRpc
  <2>3. Sound(s.agent, r)
    BY <1>2, <2>2, PerformedSound
  <2>. HIDE DEF r
  <2>. QED
    BY <1>2, <2>1, <2>3 DEF Sound
<1>. HIDE DEF Good
<1>3. 0 \in S
  BY <1>1, StartedExists
<1>4. \A k \in Nat : k \in S => k + 1 \in S
  BY <1>2
<1>. HIDE DEF S
<1>5. Nat \subseteq S
  BY <1>3, <1>4, Descent
<1>. QED
  BY <1>5 DEF S, Good, AtStart

(***************************************************************************)
(* A call on its way: the agent takes what was meant, and finds its object *)
(* at the paths that the listener has registered, or nowhere.              *)
(***************************************************************************)
\* The arguments with which the agent takes the call.
Given(want) ==
  IF want.op \in Unread \ {"channel_get_pid_set"}
  THEN [k \in DOMAIN want.in |-> 0]
  ELSE IF want.op \in SetStrings /\ want.in[2] = NULL
  THEN <<want.in[1], Empty>>
  ELSE want.in

LEMMA Arrives ==
  ASSUME NEW want, IsCall(want)
  PROVE  Dispatched(Request(Calls(want.op, want.in)))
           = [op |-> want.op, in |-> Given(want)]
<1>. DEFINE op == want.op
            in == want.in
            m == Request(Rpc(op, in))
            given == Given(want)
<1>1. op \in Procedures /\ Calls(want.op, want.in) = Rpc(op, in)
  BY CallIsRpc
<1>. SUFFICES Dispatched(m) = [op |-> op, in |-> given]
  BY <1>1
<1>2. CASE op \in Nullary
  <2>1. Dispatched(m) = [op |-> op, in |-> <<>>]
    BY <1>2, <1>1, Taken
  <2>2. in = <<>>
    BY <1>2 DEF IsCall, Nullary, Unary, Binary, Ternary
  <2>3. given = <<>>
    BY <1>2, <2>2
    DEF Given, Unread, SetStrings, NonNull, Nullary,
        Unary, Binary, Ternary
  <2>. HIDE DEF given, m
  <2>. QED
    BY <2>1, <2>3
<1>3. CASE op = "manager_add_subscription"
  <2>1. Dispatched(m) = [op |-> op, in |-> <<0, 0>>]
    BY <1>3, <1>1, Taken
  <2>2. in = <<in[1], in[2]>>
    BY <1>3 DEF IsCall, Nullary, Unary, Binary, Ternary
  <2>3. given = <<0, 0>>
    BY <1>3, <2>2
    DEF Given, Unread, SetStrings, NonNull, Nullary,
        Unary, Binary, Ternary
  <2>. HIDE DEF given, m
  <2>. QED
    BY <2>1, <2>3
<1>4. CASE op = "manager_remove_channel"
  <2>1. Dispatched(m) = [op |-> op, in |-> <<0>>]
    BY <1>4, <1>1, Taken
  <2>2. in = <<in[1]>>
    BY <1>4 DEF IsCall, Nullary, Unary, Binary, Ternary
  <2>3. given = <<0>>
    BY <1>4, <2>2
    DEF Given, Unread, SetStrings, NonNull, Nullary,
        Unary, Binary, Ternary
  <2>. HIDE DEF given, m
  <2>. QED
    BY <2>1, <2>3
<1>5. CASE op \in {"channel_set_target", "channel_set_working_dir"}
  <2>1. Dispatched(m) = [op |-> op, in |-> <<in[1], NonNull(in[2])>>]
    BY <1>5, <1>1, Taken
  <2>2. in = <<in[1], in[2]>>
    BY <1>5 DEF IsCall, Nullary, Unary, Binary, Ternary
  <2>3. given = <<in[1], NonNull(in[2])>>
    BY <1>5, <2>2
    DEF Given, Unread, SetStrings, NonNull, Nullary,
        Unary, Binary, Ternary
  <2>. HIDE DEF given, m
  <2>. QED
    BY <2>1, <2>3
<1>6. CASE op \in Unary \ {"manager_remove_channel"}
  <2>1. Dispatched(m) = [op |-> op, in |-> <<in[1]>>]
    BY <1>6, <1>1, Taken
  <2>2. in = <<in[1]>>
    BY <1>6 DEF IsCall, Nullary, Unary, Binary, Ternary
  <2>3. given = <<in[1]>>
    BY <1>6, <2>2
    DEF Given, Unread, SetStrings, NonNull, Nullary,
        Unary, Binary, Ternary
  <2>. HIDE DEF given, m
  <2>. QED
    BY <2>1, <2>3
<1>7. CASE op \in Binary \ {"manager_add_subscription", "channel_set_target",
                            "channel_set_working_dir"}
  <2>1. Dispatched(m) = [op |-> op, in |-> <<in[1], in[2]>>]
    BY <1>7, <1>1, Taken
  <2>2. in = <<in[1], in[2]>>
    BY <1>7 DEF IsCall, Nullary, Unary, Binary, Ternary
  <2>3. given = <<in[1], in[2]>>
    BY <1>7, <2>2
    DEF Given, Unread, SetStrings, NonNull, Nullary,
        Unary, Binary, Ternary
  <2>. HIDE DEF given, m
  <2>. QED
    BY <2>1, <2>3
<1>8. CASE op \in Ternary
  <2>1. Dispatched(m) = [op |-> op, in |-> <<in[1], in[2], in[3]>>]
    BY <1>8, <1>1, Taken
  <2>2. in = <<in[1], in[2], in[3]>>
    BY <1>8 DEF IsCall, Nullary, Unary, Binary, Ternary
  <2>3. given = <<in[1], in[2], in[3]>>
    BY <1>8, <2>2
    DEF Given, Unread, SetStrings, NonNull, Nullary,
        Unary, Binary, Ternary
  <2>. HIDE DEF given, m
  <2>. QED
    BY <2>1, <2>3
<1>. QED
  BY <1>1, <1>2, <1>3, <1>4, <1>5, <1>6, <1>7, <1>8 DEF Procedures

LEMMA IsDispatched ==
  ASSUME NEW want, IsCall(want)
  PROVE  Dispatched(Request(Calls(want.op, want.in))) # NotYetHandled
<1>1. want.op # "not yet handled"
  BY CallIsRpc DEF Procedures, Nullary, Unary, Binary, Ternary
<1>. DEFINE taken == Dispatched(Request(Calls(want.op, want.in)))
            given == Given(want)
<1>2. taken = [op |-> want.op, in |-> given]
  BY Arrives
<1>. HIDE DEF given
<1>3. taken.op = want.op
  BY <1>2
<1>4. NotYetHandled.op = "not yet handled"
  BY DEF NotYetHandled
<1>. QED
  BY <1>1, <1>3, <1>4

LEMMA IsRegistered ==
  ASSUME NEW a, NEW id
  PROVE  /\ Path("Channel", id) \in RegistryPaths(a) <=> id \in Registered(a.channels)
         /\ Path("Source", id) \in RegistryPaths(a) <=> id \in Registered(a.sources)
         /\ Path("Subscription", id) \in RegistryPaths(a)
              <=> id \in Registered(a.subscriptions)
         /\ Path("Plugin", id) \in RegistryPaths(a) <=> Announced(id)
         /\ Path("Encoder", id) \notin RegistryPaths(a)
<1>1. \A object, x, y : Path(object, x) = Path(object, y) => x = y
  BY DEF Path
<1>2. \A object, other, x, y : object # other => Path(object, x) # Path(other, y)
  BY DEF Path
<1>3. /\ "Channel" # "Source" /\ "Channel" # "Subscription" /\ "Channel" # "Plugin"
      /\ "Channel" # "Encoder" /\ "Source" # "Subscription" /\ "Source" # "Plugin"
      /\ "Source" # "Encoder" /\ "Subscription" # "Plugin"
      /\ "Subscription" # "Encoder" /\ "Plugin" # "Manager" /\ "Plugin" # "Encoder"
  OBVIOUS
<1>4. Path("Plugin", id) \in FirstPaths <=> Announced(id)
  BY <1>1, <1>2, <1>3 DEF FirstPaths, ManagerPath, Announced
<1>5. Path("Channel", id) \in RegistryPaths(a) <=> id \in Registered(a.channels)
  BY <1>1, <1>2, <1>3, FirstPathsAreOthers DEF RegistryPaths
<1>6. Path("Source", id) \in RegistryPaths(a) <=> id \in Registered(a.sources)
  BY <1>1, <1>2, <1>3, FirstPathsAreOthers DEF RegistryPaths
<1>7. Path("Subscription", id) \in RegistryPaths(a)
              <=> id \in Registered(a.subscriptions)
  BY <1>1, <1>2, <1>3, FirstPathsAreOthers DEF RegistryPaths
<1>8. Path("Encoder", id) \notin RegistryPaths(a)
  BY <1>1, <1>2, <1>3, FirstPathsAreOthers DEF RegistryPaths
<1>9. Path("Plugin", id) \in RegistryPaths(a) <=> Announced(id)
  BY <1>1, <1>2, <1>3, <1>4 DEF RegistryPaths
<1>. QED
  BY <1>5, <1>6, <1>7, <1>8, <1>9

LEMMA Reaches ==
  ASSUME NEW a, NEW want, IsCall(want), NEW s
  PROVE  LET path == Request(Calls(want.op, want.in)).path
             r == Promised(a, want.op, want.in, s)
         IN  /\ path \in RegistryPaths(a) => Service!Reachable(want)
             /\ path \notin RegistryPaths(a) /\ Service!Reachable(want) =>
                  ~r.ok /\ r.agent = a
<1>. DEFINE op == want.op
            in == want.in
            m == Request(Rpc(op, in))
            r == Promised(a, op, in, s)
<1>1. op \in Procedures /\ Calls(want.op, want.in) = Rpc(op, in)
  BY CallIsRpc
<1>. SUFFICES /\ m.path \in RegistryPaths(a) => Service!Reachable(want)
              /\ m.path \notin RegistryPaths(a) /\ Service!Reachable(want) =>
                   ~r.ok /\ r.agent = a
  BY <1>1
<1>2. CASE op \in ManagerCalls
  <2>1. m.path \in RegistryPaths(a)
    BY <1>2, Addressed DEF RegistryPaths, FirstPaths
  <2>2. Service!Reachable(want)
    BY <1>2 DEF ManagerCalls, Service!Reachable, Service!PluginProcedures
  <2>. QED BY <2>1, <2>2
<1>3. CASE op \in ChannelCalls
  <2>1. m.path = Path("Channel", in[1])
    BY <1>3, Addressed
  <2>2. m.path \in RegistryPaths(a) <=> in[1] \in Registered(a.channels)
    BY <2>1, IsRegistered
  <2>3. Service!Reachable(want)
    BY <1>3 DEF ChannelCalls, Service!Reachable, Service!PluginProcedures
  <2>4. ASSUME in[1] \notin Registered(a.channels)
        PROVE  ~r.ok /\ r.agent = a
    <3>. DEFINE f == Failed(a, "Not authorized or invalid channel.")
    <3>1. \A x : IfFound(pka_manager_find_channel(a, in[1]), x) = f
      BY <2>4 DEF IfFound, pka_manager_find_channel, Failed
    <3>2. r = f
      <4>. HIDE DEF f
      <4>. QED
        BY <1>3, <2>4, <3>1
        DEF r, ChannelCalls, Promised, Performed,
            pka_listener_channel_add_source,
            pka_listener_channel_get_args, pka_listener_channel_get_created_at,
            pka_listener_channel_get_env, pka_listener_channel_get_exit_status,
            pka_listener_channel_get_kill_pid, pka_listener_channel_get_pid,
            pka_listener_channel_get_sources, pka_listener_channel_get_state,
            pka_listener_channel_get_target, pka_listener_channel_get_working_dir,
            pka_listener_channel_mute, pka_listener_channel_set_args,
            pka_listener_channel_set_env, pka_listener_channel_set_kill_pid,
            pka_listener_channel_set_pid, pka_listener_channel_set_target,
            pka_listener_channel_set_working_dir, pka_listener_channel_start,
            pka_listener_channel_stop, pka_listener_channel_unmute
    <3>. HIDE DEF r
    <3>. QED BY <3>2 DEF Failed
  <2>. HIDE DEF r
  <2>. QED BY <2>2, <2>3, <2>4
<1>4. CASE op \in SourceCalls
  <2>1. m.path = Path("Source", in[1])
    BY <1>4, Addressed
  <2>2. m.path \in RegistryPaths(a) <=> in[1] \in Registered(a.sources)
    BY <2>1, IsRegistered
  <2>3. Service!Reachable(want)
    BY <1>4 DEF SourceCalls, Service!Reachable, Service!PluginProcedures
  <2>4. in[1] \notin Registered(a.sources) => ~r.ok /\ r.agent = a
    BY <1>4
    DEF SourceCalls, Promised, Performed, pka_listener_source_get_plugin, IfFound,
        pka_manager_find_source, Failed
  <2>. HIDE DEF r
  <2>. QED BY <2>2, <2>3, <2>4
<1>5. CASE op \in EncoderCalls
  <2>1. m.path = Path("Encoder", in[1])
    BY <1>5, Addressed
  <2>2. m.path \notin RegistryPaths(a)
    BY <2>1, IsRegistered
  <2>3. ~Service!Reachable(want)
    BY <1>5 DEF EncoderCalls, Service!Reachable
  <2>. QED BY <2>2, <2>3
<1>6. CASE op \in PluginCalls
  <2>1. m.path = Path("Plugin", in[1])
    BY <1>6, Addressed
  <2>2. m.path \in RegistryPaths(a) <=> Announced(in[1])
    BY <2>1, IsRegistered
  <2>3. Service!Reachable(want) <=> Announced(in[1])
    BY <1>6 DEF PluginCalls, Service!Reachable, Service!PluginProcedures
  <2>. QED BY <2>2, <2>3
<1>7. CASE op \in SubscriptionCalls
  <2>1. m.path = Path("Subscription", in[1])
    BY <1>7, Addressed
  <2>2. m.path \in RegistryPaths(a) <=> in[1] \in Registered(a.subscriptions)
    BY <2>1, IsRegistered
  <2>3. Service!Reachable(want)
    BY <1>7 DEF SubscriptionCalls, Service!Reachable, Service!PluginProcedures
  <2>4. ASSUME in[1] \notin Registered(a.subscriptions)
        PROVE  ~r.ok /\ r.agent = a
    <3>. DEFINE f == Failed(a, "Not authorized or invalid subscription.")
    <3>1. \A x : IfFound(pka_manager_find_subscription(a, in[1]), x) = f
      BY <2>4 DEF IfFound, pka_manager_find_subscription, Failed
    <3>2. r = f
      <4>. HIDE DEF f
      <4>. QED
        BY <1>7, <2>4, <3>1
        DEF r, SubscriptionCalls, Promised, Performed,
            pka_listener_subscription_add_channel,
            pka_listener_subscription_add_source,
            pka_listener_subscription_get_buffer,
            pka_listener_subscription_get_created_at,
            pka_listener_subscription_get_sources,
            pka_listener_subscription_mute,
            pka_listener_subscription_remove_channel,
            pka_listener_subscription_remove_source,
            pka_listener_subscription_set_buffer,
            pka_listener_subscription_unmute
    <3>. HIDE DEF r
    <3>. QED BY <3>2 DEF Failed
  <2>. HIDE DEF r
  <2>. QED BY <2>2, <2>3, <2>4
<1>. QED
  BY <1>1, <1>2, <1>3, <1>4, <1>5, <1>6, <1>7
  DEF Procedures, Nullary, Unary, Binary, Ternary, ManagerCalls, ChannelCalls,
      SourceCalls, EncoderCalls, PluginCalls, SubscriptionCalls

\* The agent performs what was promised, with the arguments that were given or
\* with those that Instead names.
LEMMA PerformsAsPromised ==
  ASSUME NEW a, AgentOK(a), NEW want, IsCall(want), NEW s
  PROVE  \E in \in {want.in} \cup Instead(want) :
           LET p == Promised(a, want.op, in, s)
               r == Performed(a, want.op, Given(want), s)
           IN  p.agent = r.agent /\ p.ok = r.ok /\ p.out = r.out
<1>. DEFINE op == want.op
            given == Given(want)
            r == Performed(a, op, given, s)
            p(in) == Promised(a, op, in, s)
<1>. SUFFICES \E in \in {want.in} \cup Instead(want) :
                p(in).agent = r.agent /\ p(in).ok = r.ok /\ p(in).out = r.out
  OBVIOUS
<1>1. CASE op = "manager_add_subscription"
  <2>. DEFINE zeros == [k \in DOMAIN want.in |-> 0]
              q == pka_manager_add_subscription(a)
              id == NextId(a.subscriptions)
              b == pka_subscription_set_buffer(q.agent, q.out[1], 0, 0).agent
  <2>1. zeros \in Instead(want)
    BY <1>1 DEF Instead, Unread
  <2>2. zeros[1] = 0 /\ zeros[2] = 0
    BY <1>1 DEF IsCall, Nullary, Unary, Binary, Ternary
  <2>3. r = q
    BY <1>1 DEF Performed, pka_listener_manager_add_subscription
  <2>. HIDE DEF zeros
  <2>4. p(zeros) = [q EXCEPT !.agent = b]
    BY <1>1, <2>2 DEF Promised
  <2>5. DOMAIN q = {"agent", "ok", "out", "error", "notify"}
        /\ q.out = <<id>>
    BY DEF pka_manager_add_subscription, Notify, Ok
  <2>6. q.agent.subscriptions = Append1(a.subscriptions, pka_subscription_new(a.now))
    BY DEF pka_manager_add_subscription, Notify, Ok, AgentOK, AgentShape
  <2>7. q.agent.subscriptions[id] = pka_subscription_new(a.now)
        /\ id \in DOMAIN q.agent.subscriptions
    <3>. DEFINE o == pka_subscription_new(a.now)
                objects == Append1(a.subscriptions, o)
    <3>1. objects[id] = o /\ DOMAIN objects = DOMAIN a.subscriptions \cup {id}
      BY NextIsNew DEF AgentOK
    <3>. QED
      BY <2>6, <3>1
  <2>8. b = q.agent
    <3>. DEFINE x == q.agent
                o == pka_subscription_new(a.now)
    <3>1. o.timeout = 0 /\ o.size = 0
          /\ o = [o EXCEPT !.timeout = 0, !.size = 0]
      <4>1. o.timeout = 0 /\ o.size = 0
            /\ o = [k \in DOMAIN o |-> o[k]]
            /\ "timeout" \in DOMAIN o /\ "size" \in DOMAIN o
        BY DEF pka_subscription_new
      <4>. HIDE DEF o
      <4>2. [o EXCEPT !.timeout = 0] = o /\ [o EXCEPT !.size = 0] = o
        BY <4>1
      <4>. QED BY <4>1, <4>2
    <3>2. x.subscriptions[id] = o
      BY <2>7
    <3>3. b = [x EXCEPT !.subscriptions =
                 [x.subscriptions EXCEPT ![id] =
                    [o EXCEPT !.timeout = 0, !.size = 0]]]
      <4>1. q.out[1] = id
        BY <2>5
      <4>. HIDE DEF o
      <4>. QED
        BY <3>2, <4>1 DEF pka_subscription_set_buffer, Ok
    <3>4. x = [x EXCEPT !.subscriptions = x.subscriptions]
          /\ x.subscriptions = [x.subscriptions EXCEPT ![id] = o]
      <4>. HIDE DEF o
      <4>1. x = [a EXCEPT !.subscriptions = x.subscriptions, !.now = @ + 1]
        BY DEF pka_manager_add_subscription, Notify, Ok, AgentOK, AgentShape
      <4>2. x.subscriptions = Append1(a.subscriptions, o)
        BY <2>6 DEF o
      <4>. QED
        BY <3>2, <4>1, <4>2 DEF Append1
    <3>. QED
      BY <3>1, <3>3, <3>4
  <2>. HIDE DEF q, b, r, p
  <2>9. /\ p(zeros).agent = b /\ p(zeros).ok = q.ok /\ p(zeros).out = q.out
    BY <2>4, <2>5
  <2>. QED
    BY <2>1, <2>3, <2>8, <2>9
<1>2. CASE op = "channel_get_pid_set"
  <2>. DEFINE zeros == [k \in DOMAIN want.in |-> 0]
  <2>1. zeros \in Instead(want)
    BY <1>2 DEF Instead, Unread
  <2>2. zeros[1] = 0
    BY <1>2 DEF IsCall, Nullary, Unary, Binary, Ternary
  <2>. HIDE DEF zeros
  <2>3. p(zeros) = r
    BY <1>2, <2>2
    DEF Promised, Performed, pka_listener_channel_get_pid_set
  <2>. HIDE DEF p, r
  <2>. QED
    BY <2>1, <2>3
<1>3. CASE op \notin {"manager_add_subscription", "channel_get_pid_set"}
  <2>1. given \in {want.in} \cup Instead(want)
    BY <1>3 DEF Given, Instead
  <2>. HIDE DEF given
  <2>2. p(given) = r
    BY <1>3 DEF Promised
  <2>. HIDE DEF p, r
  <2>. QED
    BY <2>1, <2>2
<1>. QED
  BY <1>1, <1>2, <1>3

(***************************************************************************)
(* The inductive invariant.  The agent's objects are as AgentOK says, the  *)
(* paths are those of its registries while it runs, no channel runs after  *)
(* it; what is on the bus are messages for calls that their caller means;  *)
(* and a call goes through its stages with the slot of the procedure that  *)
(* was meant, which is what tells the caller how to read the reply.        *)
(***************************************************************************)
Halted(a) ==
  \A ch \in DOMAIN a.channels :
    a.channels[ch].state \notin {PKA_CHANNEL_RUNNING, PKA_CHANNEL_MUTED}

AgentFits(a, ps, up) ==
  /\ AgentOK(a)
  /\ up => ps = RegistryPaths(a) /\ ChannelsStay(a)
  /\ ~up => Halted(a)

Message(want) == [want |-> want, message |-> Request(Calls(want.op, want.in))]
Messages(c)   == {Message(want) : want \in Wanted[c]}

AsDeclared(want, reply) ==
  reply.type = "return" =>
    LET message == Request(Calls(want.op, want.in))
        args == reply.args
    IN  \E m \in Introspection[message.interface] :
          /\ m.member = message.member
          /\ m.out = [k \in DOMAIN args |-> args[k][1]]

Aborted == [stage |-> "aborted"]
ReadReply(cl, reply) == [Replied(cl, reply) EXCEPT !.stage = "notified"]

StageFits(c, cl, messages, up) ==
  \/ cl = NotCalled
  \/ cl = Aborted
  \/ \E want \in Wanted[c] :
       \/ /\ cl = Sent(want, want.op)
          /\ up
          /\ messages # <<>>
          /\ messages[Len(messages)].want = want
       \/ /\ cl.stage = "replied"
          /\ cl = Replied(Sent(want, want.op), cl.reply)
          /\ AsDeclared(want, cl.reply)
       \/ /\ cl.stage = "notified"
          /\ cl = ReadReply(Sent(want, want.op), cl.reply)
       \/ /\ cl.stage = "finished"
          /\ cl = Finished(want, cl.result)

CallerFits(c, cl, messages, made, up) ==
  /\ messages \in Seq(Messages(c))
  /\ made \in 0..MaxCalls[c]
  /\ ~up => messages = <<>>
  /\ StageFits(c, cl, messages, up)

Inv ==
  /\ alive \in BOOLEAN
  /\ DOMAIN bus = Callers /\ DOMAIN call = Callers /\ DOMAIN calls = Callers
  /\ AgentFits(agent, paths, alive)
  /\ \A c \in Callers : CallerFits(c, call[c], bus[c], calls[c], alive)

(***************************************************************************)
(* How the invariant's parts change.                                       *)
(***************************************************************************)
LEMMA PerformedFits ==
  ASSUME NEW a, NEW ps, AgentFits(a, ps, TRUE), NEW op \in Procedures, NEW in, NEW s
  PROVE  LET r == Performed(a, op, in, s)
         IN  AgentFits(r.agent, AllNotified(ps, r.notify), TRUE)
<1>. DEFINE r == Performed(a, op, in, s)
<1>1. Sound(a, r)
  BY PerformedSound DEF AgentFits
<1>. HIDE DEF r
<1>2. SUFFICES AgentFits(r.agent, AllNotified(ps, r.notify), TRUE)
  BY DEF r
<1>. QED
  BY <1>1 DEF AgentFits, Sound

LEMMA ExitedFits ==
  ASSUME NEW a, NEW ps, AgentFits(a, ps, TRUE), NEW channel \in DOMAIN a.channels,
         NEW status
  PROVE  AgentFits(pka_channel_inferior_exited(a, channel, status), ps, TRUE)
<1>1. Kept(a, pka_channel_inferior_exited(a, channel, status))
  BY QuietChannel DEF AgentFits, AgentOK
<1>. QED
  BY <1>1, KeptIsOK DEF AgentFits

LEMMA ShutdownFits ==
  ASSUME NEW a, NEW ps, AgentFits(a, ps, TRUE)
  PROVE  AgentFits(pka_manager_shutdown(a), ps, FALSE)
<1>. DEFINE b == pka_manager_shutdown(a)
            muted(s) == pka_subscription_mute(a, s, FALSE).agent.subscriptions[s]
            stopped(c) == pka_channel_stop(a, c).agent.channels[c]
            subscriptions ==
              [s \in DOMAIN a.subscriptions |->
                 IF s \in Registered(a.subscriptions)
                 THEN [muted(s) EXCEPT !.registered = FALSE] ELSE a.subscriptions[s]]
            channels ==
              [c \in DOMAIN a.channels |->
                 IF c \in Registered(a.channels)
                 THEN [stopped(c) EXCEPT !.registered = FALSE] ELSE a.channels[c]]
<1>1. AgentOK(a) /\ AgentShape(a) /\ Registered(a.channels) = DOMAIN a.channels
  BY DEF AgentFits, ChannelsStay, AgentOK
<1>2. ASSUME NEW s \in DOMAIN a.subscriptions
      PROVE  DOMAIN subscriptions[s] = SubscriptionFields
  BY <1>1 DEF AgentShape, Shaped, pka_subscription_mute, pka_subscription_set_state,
              Ok, SubscriptionFields
<1>3. ASSUME NEW c \in DOMAIN a.channels
      PROVE  /\ DOMAIN channels[c] = ChannelFields
             /\ channels[c].sources = a.channels[c].sources
             /\ channels[c].state \notin {PKA_CHANNEL_RUNNING, PKA_CHANNEL_MUTED}
  <2>1. DOMAIN a.channels[c] = ChannelFields
    BY <1>1 DEF AgentShape, Shaped
  <2>2. /\ DOMAIN stopped(c) = ChannelFields
        /\ stopped(c).sources = a.channels[c].sources
        /\ stopped(c).state \notin {PKA_CHANNEL_RUNNING, PKA_CHANNEL_MUTED}
    BY <1>1, <2>1
    DEF AgentShape, Shaped, pka_channel_stop, Ok, Failed, ChannelFields,
        PKA_CHANNEL_READY, PKA_CHANNEL_RUNNING, PKA_CHANNEL_MUTED,
        PKA_CHANNEL_STOPPED
  <2>3. channels[c] = [stopped(c) EXCEPT !.registered = FALSE]
    BY <1>1
  <2>. HIDE DEF stopped, channels
  <2>. QED
    BY <2>2, <2>3 DEF ChannelFields
<1>4. /\ DOMAIN b = DOMAIN a
      /\ b.channels = channels /\ b.subscriptions = subscriptions
      /\ b.sources = a.sources
  <2>1. b = [a EXCEPT !.subscriptions = subscriptions, !.channels = channels]
    BY DEF pka_manager_shutdown
  <2>. HIDE DEF subscriptions, channels
  <2>. QED
    BY <1>1, <2>1 DEF AgentShape
<1>5. DOMAIN channels = DOMAIN a.channels /\ DOMAIN subscriptions = DOMAIN a.subscriptions
  OBVIOUS
<1>. HIDE DEF b, channels, subscriptions, muted, stopped
<1>6. AgentShape(b)
  BY <1>1, <1>2, <1>3, <1>4, <1>5 DEF AgentShape, Shaped
<1>7. Numbered(b.channels) /\ Numbered(b.sources) /\ Numbered(b.subscriptions)
  BY <1>1, <1>4, <1>5 DEF AgentOK, Numbered
<1>8. Attachments(b)
  <2>1. /\ DOMAIN b.channels = DOMAIN a.channels /\ b.sources = a.sources
        /\ \A ch \in DOMAIN a.channels : b.channels[ch].sources = a.channels[ch].sources
    BY <1>3, <1>4, <1>5
  <2>2. Attachments(a)
    BY <1>1 DEF AgentOK
  <2>. DEFINE listed(ch) == a.channels[ch].sources
  <2>3. \A ch \in DOMAIN b.channels : b.channels[ch].sources = listed(ch)
    BY <2>1
  <2>4. /\ \A ch \in DOMAIN a.channels : listed(ch) \in Seq(DOMAIN a.sources)
        /\ \A id \in DOMAIN a.sources :
             a.sources[id].channel \in DOMAIN a.channels \cup {NULL}
        /\ \A ch \in DOMAIN a.channels : \A k \in DOMAIN listed(ch) :
             a.sources[listed(ch)[k]].channel = ch
        /\ \A ch \in DOMAIN a.channels, id \in DOMAIN a.sources :
             a.sources[id].channel = ch => \E k \in DOMAIN listed(ch) : listed(ch)[k] = id
        /\ \A ch \in DOMAIN a.channels : \A k, l \in DOMAIN listed(ch) :
             listed(ch)[k] = listed(ch)[l] => k = l
    BY <2>2 DEF Attachments
  <2>. HIDE DEF listed
  <2>. QED
    BY <2>1, <2>3, <2>4 DEF Attachments
<1>9. Halted(b)
  BY <1>3, <1>4, <1>5 DEF Halted
<1>. QED
  BY <1>6, <1>7, <1>8, <1>9 DEF AgentFits, AgentOK, b

LEMMA AnsweredFits ==
  ASSUME NEW want, IsCall(want), NEW r
  PROVE  AsDeclared(want, Answered(want.op, r))
<1>1. want.op \in Procedures /\ Calls(want.op, want.in) = Rpc(want.op, want.in)
  BY CallIsRpc
<1>2. CASE r.ok
  <2>. DEFINE m == Request(Rpc(want.op, want.in))
              args == Answered(want.op, r).args
  <2>1. \E d \in Introspection[m.interface] :
          d.member = m.member /\ d.out = [k \in DOMAIN args |-> args[k][1]]
    BY <1>1, <1>2, Declared
  <2>2. m = Request(Calls(want.op, want.in))
    BY <1>1
  <2>. HIDE DEF m
  <2>. QED
    BY <2>1, <2>2 DEF AsDeclared
<1>3. CASE ~r.ok
  <2>1. Answered(want.op, r) = Error("Failed", r.error)
    BY <1>1, <1>3, ErrorIsSent
  <2>2. Answered(want.op, r).type = "error"
    BY <2>1 DEF Error
  <2>. QED
    BY <2>2 DEF AsDeclared
<1>. QED
  BY <1>2, <1>3

LEMMA StageKnown ==
  ASSUME NEW c \in Callers, NEW cl, NEW q, NEW up, StageFits(c, cl, q, up)
  PROVE  /\ cl.stage \in {"none", "sent", "replied", "notified", "finished", "aborted"}
         /\ cl.stage = "sent" =>
              up /\ q # <<>> /\ q[Len(q)].want = cl.want /\ cl = Sent(cl.want, cl.slot)
         /\ cl.stage \in {"sent", "replied", "notified"} =>
              cl.want \in Wanted[c] /\ cl.slot = cl.want.op
         /\ cl.stage = "replied" =>
              AsDeclared(cl.want, cl.reply) /\ cl = Replied(Sent(cl.want, cl.slot), cl.reply)
<1>1. CASE cl = NotCalled \/ cl = Aborted
  BY <1>1 DEF NotCalled, Aborted
<1>2. ASSUME NEW want \in Wanted[c], cl = Sent(want, want.op)
      PROVE  cl.stage = "sent" /\ cl.want = want /\ cl.slot = want.op
  BY <1>2 DEF Sent
<1>3. ASSUME NEW want \in Wanted[c], NEW reply, cl = Replied(Sent(want, want.op), reply)
      PROVE  cl.stage = "replied" /\ cl.want = want /\ cl.slot = want.op
  BY <1>3 DEF Sent, Replied
<1>4. ASSUME NEW want \in Wanted[c], NEW reply, cl = ReadReply(Sent(want, want.op), reply)
      PROVE  cl.stage = "notified" /\ cl.want = want /\ cl.slot = want.op
  BY <1>4 DEF Sent, Replied, ReadReply
<1>. QED
  BY <1>1, <1>2, <1>3, <1>4 DEF StageFits

LEMMA StageSteps ==
  ASSUME NEW c \in Callers, NEW cl, NEW q, NEW up, StageFits(c, cl, q, up),
         NEW r, NEW later, NEW reply
  PROVE  /\ cl.stage \in {"none", "sent", "replied", "notified", "finished", "aborted"}
         /\ cl.stage # "sent" => StageFits(c, cl, r, later)
         /\ cl.stage = "sent" =>
              /\ up /\ q # <<>> /\ q[Len(q)].want = cl.want
              /\ later /\ r # <<>> /\ r[Len(r)] = q[Len(q)] => StageFits(c, cl, r, later)
         /\ cl.stage \in {"sent", "replied"} =>
              /\ cl.want \in Wanted[c] /\ cl.slot = cl.want.op
              /\ StageFits(c, ReadReply(cl, reply), r, later)
              /\ AsDeclared(cl.want, reply) => StageFits(c, Replied(cl, reply), r, later)
         /\ cl.stage = "replied" =>
              /\ AsDeclared(cl.want, cl.reply)
              /\ StageFits(c, [cl EXCEPT !.stage = "notified"], r, later)
         /\ cl.stage = "notified" =>
              StageFits(c, Finished(cl.want, Result(cl.slot, cl.reply)), r, later)
         /\ StageFits(c, Aborted, r, later)
<1>. DEFINE Goal ==
       /\ cl.stage \in {"none", "sent", "replied", "notified", "finished", "aborted"}
       /\ cl.stage # "sent" => StageFits(c, cl, r, later)
       /\ cl.stage = "sent" =>
            /\ up /\ q # <<>> /\ q[Len(q)].want = cl.want
            /\ later /\ r # <<>> /\ r[Len(r)] = q[Len(q)] => StageFits(c, cl, r, later)
       /\ cl.stage \in {"sent", "replied"} =>
            /\ cl.want \in Wanted[c] /\ cl.slot = cl.want.op
            /\ StageFits(c, ReadReply(cl, reply), r, later)
            /\ AsDeclared(cl.want, reply) => StageFits(c, Replied(cl, reply), r, later)
       /\ cl.stage = "replied" =>
            /\ AsDeclared(cl.want, cl.reply)
            /\ StageFits(c, [cl EXCEPT !.stage = "notified"], r, later)
       /\ cl.stage = "notified" =>
            StageFits(c, Finished(cl.want, Result(cl.slot, cl.reply)), r, later)
<1>. SUFFICES Goal
  BY DEF StageFits
<1>1. CASE cl = NotCalled \/ cl = Aborted
  BY <1>1 DEF StageFits, NotCalled, Aborted
<1>2. ASSUME NEW want \in Wanted[c], cl = Sent(want, want.op),
             up, q # <<>>, q[Len(q)].want = want
      PROVE  Goal
  <2>1. cl.stage = "sent" /\ cl.want = want /\ cl.slot = want.op
    BY <1>2 DEF Sent
  <2>2. StageFits(c, ReadReply(cl, reply), r, later)
    <3>1. ReadReply(cl, reply) = ReadReply(Sent(want, want.op), reply)
      BY <1>2
    <3>2. ReadReply(cl, reply).stage = "notified" /\ ReadReply(cl, reply).reply = reply
      BY DEF ReadReply, Replied
    <3>. QED
      BY <3>1, <3>2 DEF StageFits
  <2>3. ASSUME AsDeclared(want, reply)
        PROVE  StageFits(c, Replied(cl, reply), r, later)
    <3>1. Replied(cl, reply).stage = "replied" /\ Replied(cl, reply).reply = reply
      BY DEF Replied
    <3>. QED
      BY <1>2, <2>3, <3>1 DEF StageFits
  <2>4. ASSUME later, r # <<>>, r[Len(r)] = q[Len(q)]
        PROVE  StageFits(c, cl, r, later)
    BY <1>2, <2>4 DEF StageFits
  <2>. QED
    BY <1>2, <2>1, <2>2, <2>3, <2>4
<1>3. ASSUME NEW want \in Wanted[c], cl.stage = "replied",
             cl = Replied(Sent(want, want.op), cl.reply), AsDeclared(want, cl.reply)
      PROVE  Goal
  <2>1. cl.want = want /\ cl.slot = want.op
    BY <1>3 DEF Sent, Replied
  <2>2. \A x : Replied(cl, x) = Replied(Sent(want, want.op), x)
    BY <2>1 DEF Replied, Sent
  <2>3. StageFits(c, ReadReply(cl, reply), r, later)
    <3>1. ReadReply(cl, reply) = ReadReply(Sent(want, want.op), reply)
      BY <2>2 DEF ReadReply
    <3>2. ReadReply(cl, reply).stage = "notified" /\ ReadReply(cl, reply).reply = reply
      BY DEF ReadReply, Replied
    <3>. QED
      BY <3>1, <3>2 DEF StageFits
  <2>4. ASSUME AsDeclared(want, reply)
        PROVE  StageFits(c, Replied(cl, reply), r, later)
    <3>1. Replied(cl, reply).stage = "replied" /\ Replied(cl, reply).reply = reply
      BY DEF Replied
    <3>. QED
      BY <2>2, <2>4, <3>1 DEF StageFits
  <2>5. StageFits(c, [cl EXCEPT !.stage = "notified"], r, later)
    <3>. DEFINE new == [cl EXCEPT !.stage = "notified"]
    <3>1. new = ReadReply(Sent(want, want.op), cl.reply)
      BY <1>3 DEF ReadReply
    <3>2. new.stage = "notified" /\ new.reply = cl.reply
      BY <3>1 DEF ReadReply, Replied
    <3>. HIDE DEF new
    <3>3. StageFits(c, new, r, later)
      BY <3>1, <3>2 DEF StageFits
    <3>. QED BY <3>3 DEF new
  <2>6. StageFits(c, cl, r, later)
    BY <1>3 DEF StageFits
  <2>. QED
    BY <1>3, <2>1, <2>3, <2>4, <2>5, <2>6
<1>4. ASSUME NEW want \in Wanted[c], cl.stage = "notified",
             cl = ReadReply(Sent(want, want.op), cl.reply)
      PROVE  Goal
  <2>1. cl.want = want
    BY <1>4 DEF ReadReply, Replied, Sent
  <2>2. StageFits(c, Finished(cl.want, Result(cl.slot, cl.reply)), r, later)
    <3>. DEFINE result == Result(cl.slot, cl.reply)
    <3>. HIDE DEF result
    <3>1. Finished(want, result).stage = "finished" /\ Finished(want, result).result = result
      BY DEF Finished
    <3>2. StageFits(c, Finished(cl.want, result), r, later)
      BY <2>1, <3>1 DEF StageFits
    <3>. QED BY <3>2 DEF result
  <2>3. StageFits(c, cl, r, later)
    BY <1>4 DEF StageFits
  <2>. QED
    BY <1>4, <2>2, <2>3
<1>5. ASSUME NEW want \in Wanted[c], cl.stage = "finished",
             cl = Finished(want, cl.result)
      PROVE  Goal
  BY <1>5 DEF StageFits
<1>. HIDE DEF Goal
<1>. QED
  BY <1>1, <1>2, <1>3, <1>4, <1>5 DEF StageFits

LEMMA OtherCallers ==
  ASSUME Inv, NEW c \in Callers, alive' = alive,
         AgentFits(agent', paths', alive'),
         DOMAIN bus' = Callers, DOMAIN call' = Callers, DOMAIN calls' = Callers,
         \A d \in Callers \ {c} :
           call'[d] = call[d] /\ bus'[d] = bus[d] /\ calls'[d] = calls[d],
         CallerFits(c, call'[c], bus'[c], calls'[c], alive')
  PROVE  Inv'
BY DEF Inv

LEMMA InitInv ==
  ASSUME Init
  PROVE  Inv
<1>1. AgentFits(agent, paths, alive)
  BY RpcAssumption, StartIsSound DEF Init, AgentFits
<1>2. ASSUME NEW c \in Callers
      PROVE  CallerFits(c, call[c], bus[c], calls[c], alive)
  BY RpcAssumption DEF Init, CallerFits, StageFits
<1>. QED
  BY <1>1, <1>2 DEF Init, Inv

(***************************************************************************)
(* Every step keeps the invariant.                                         *)
(***************************************************************************)
LEMMA MessagesGrow ==
  ASSUME NEW c \in Callers, NEW q \in Seq(Messages(c)), NEW want \in Wanted[c]
  PROVE  /\ Append(q, Message(want)) \in Seq(Messages(c))
         /\ Append(q, Message(want)) # <<>>
         /\ LET p == Append(q, Message(want)) IN p[Len(p)].want = want
BY DEF Message, Messages

LEMMA MessagesShrink ==
  ASSUME NEW c \in Callers, NEW q \in Seq(Messages(c)), q # <<>>
  PROVE  /\ Tail(q) \in Seq(Messages(c))
         /\ Len(q) # 1 => Tail(q) # <<>> /\ Tail(q)[Len(Tail(q))] = q[Len(q)]
         /\ \E want \in Wanted[c] : Head(q) = Message(want)
<1>1. Tail(q) \in Seq(Messages(c)) /\ Len(Tail(q)) = Len(q) - 1 /\ Len(q) \in Nat \ {0}
  OBVIOUS
<1>2. ASSUME Len(q) # 1
      PROVE  Tail(q) # <<>> /\ Tail(q)[Len(Tail(q))] = q[Len(q)]
  <2>1. Len(Tail(q)) \in 1..Len(Tail(q)) /\ Len(Tail(q)) # 0
    BY <1>1, <1>2
  <2>2. \A k \in 1..Len(Tail(q)) : Tail(q)[k] = q[k + 1]
    OBVIOUS
  <2>3. Tail(q)[Len(Tail(q))] = q[Len(Tail(q)) + 1]
    BY <2>1, <2>2
  <2>4. Len(Tail(q)) + 1 = Len(q)
    BY <1>1
  <2>5. Tail(q) # <<>>
    <3>1. Len(<<>>) = 0
      OBVIOUS
    <3>2. Tail(q) = <<>> => Len(Tail(q)) = Len(<<>>)
      OBVIOUS
    <3>. QED
      BY <2>1, <3>1, <3>2
  <2>. QED
    BY <2>3, <2>4, <2>5
<1>3. Head(q) \in Messages(c)
  OBVIOUS
<1>. QED
  BY <1>1, <1>2, <1>3 DEF Messages

LEMMA InvokeInv ==
  ASSUME Inv, NEW c \in Callers, NEW want \in Wanted[c], Invoke(c, want)
  PROVE  Inv'
<1>. DEFINE rpc == Calls(want.op, want.in)
            cl == Sent(want, want.op)
<1>1. rpc.slot = want.op
  <2>1. IsCall(want)
    BY RpcAssumption
  <2>2. rpc = Rpc(want.op, want.in)
    BY <2>1, CallIsRpc
  <2>. QED
    BY <2>2 DEF Rpc
<1>2. CallerFits(c, call[c], bus[c], calls[c], alive) /\ AgentFits(agent, paths, alive)
  BY DEF Inv
<1>3. calls[c] + 1 \in 0..MaxCalls[c] /\ calls' = [calls EXCEPT ![c] = calls[c] + 1]
  BY <1>2, RpcAssumption DEF CallerFits, Invoke, Free
<1>4. AgentFits(agent', paths', alive')
  BY <1>2 DEF Invoke
<1>5. CASE alive
  <2>1. /\ bus' = [bus EXCEPT ![c] = Append(bus[c], Message(want))]
        /\ call' = [call EXCEPT ![c] = cl]
        /\ alive' = alive
    BY <1>1, <1>5 DEF Invoke, Message
  <2>2. bus[c] \in Seq(Messages(c))
    BY <1>2 DEF CallerFits
  <2>. DEFINE q == Append(bus[c], Message(want))
  <2>3. q \in Seq(Messages(c)) /\ q # <<>> /\ q[Len(q)].want = want
    BY <2>2, MessagesGrow
  <2>. HIDE DEF q
  <2>4. StageFits(c, cl, q, TRUE)
    BY <2>3 DEF StageFits
  <2>5. CallerFits(c, cl, q, calls[c] + 1, TRUE)
    BY <1>3, <2>3, <2>4 DEF CallerFits
  <2>. HIDE DEF cl
  <2>6. /\ DOMAIN bus' = Callers /\ DOMAIN call' = Callers /\ DOMAIN calls' = Callers
        /\ \A d \in Callers \ {c} :
             call'[d] = call[d] /\ bus'[d] = bus[d] /\ calls'[d] = calls[d]
        /\ call'[c] = cl /\ bus'[c] = q /\ calls'[c] = calls[c] + 1
    BY <1>3, <2>1 DEF Inv, q
  <2>. QED
    BY <1>4, <1>5, <2>1, <2>5, <2>6, OtherCallers
<1>6. CASE ~alive
  <2>. DEFINE new == Replied(cl, ServiceUnknown)
  <2>1. /\ bus' = bus /\ alive' = alive
        /\ call' = [call EXCEPT ![c] = new]
    BY <1>1, <1>6 DEF Invoke
  <2>2. StageFits(c, new, bus[c], alive)
    <3>1. new.stage = "replied" /\ new.reply = ServiceUnknown
      BY DEF Replied
    <3>2. AsDeclared(want, ServiceUnknown)
      BY DEF AsDeclared, ServiceUnknown, Error
    <3>. QED
      BY <3>1, <3>2 DEF StageFits
  <2>. HIDE DEF new
  <2>3. CallerFits(c, new, bus[c], calls[c] + 1, alive)
    BY <1>2, <1>3, <2>2 DEF CallerFits
  <2>4. /\ DOMAIN bus' = Callers /\ DOMAIN call' = Callers /\ DOMAIN calls' = Callers
        /\ \A d \in Callers \ {c} :
             call'[d] = call[d] /\ bus'[d] = bus[d] /\ calls'[d] = calls[d]
        /\ call'[c] = new /\ bus'[c] = bus[c] /\ calls'[c] = calls[c] + 1
    BY <1>3, <2>1 DEF Inv
  <2>. QED
    BY <1>4, <2>1, <2>3, <2>4, OtherCallers
<1>. QED
  BY <1>5, <1>6

LEMMA InvokeMethodInv ==
  ASSUME Inv, NEW c \in Callers, NEW want \in Wanted[c], InvokeMethod(c, want)
  PROVE  Inv'
<1>. DEFINE result == [ok |-> FALSE, out |-> <<>>, error |-> NULL]
            new == Finished(want, result)
<1>1. CallerFits(c, call[c], bus[c], calls[c], alive) /\ AgentFits(agent, paths, alive)
  BY DEF Inv
<1>2. calls[c] + 1 \in 0..MaxCalls[c]
  BY <1>1, RpcAssumption DEF CallerFits, InvokeMethod, Free
<1>3. /\ call' = [call EXCEPT ![c] = new]
      /\ calls' = [calls EXCEPT ![c] = calls[c] + 1]
      /\ UNCHANGED <<agent, paths, alive, bus>>
  BY DEF InvokeMethod
<1>4. StageFits(c, new, bus[c], alive)
  <2>. HIDE DEF result
  <2>1. new.stage = "finished" /\ new.result = result
    BY DEF Finished
  <2>. QED
    BY <2>1 DEF StageFits
<1>. HIDE DEF new
<1>5. CallerFits(c, new, bus[c], calls[c] + 1, alive)
  BY <1>1, <1>2, <1>4 DEF CallerFits
<1>6. /\ DOMAIN bus' = Callers /\ DOMAIN call' = Callers /\ DOMAIN calls' = Callers
      /\ \A d \in Callers \ {c} :
           call'[d] = call[d] /\ bus'[d] = bus[d] /\ calls'[d] = calls[d]
      /\ call'[c] = new /\ bus'[c] = bus[c] /\ calls'[c] = calls[c] + 1
  BY <1>3 DEF Inv
<1>. QED
  BY <1>1, <1>3, <1>5, <1>6, OtherCallers

\* The steps in which only the call changes.
LEMMA CallInv ==
  ASSUME Inv, NEW c \in Callers, NEW new, StageFits(c, new, bus[c], alive),
         call' = [call EXCEPT ![c] = new],
         UNCHANGED <<agent, paths, alive, bus, calls>>
  PROVE  Inv'
<1>1. CallerFits(c, call[c], bus[c], calls[c], alive) /\ AgentFits(agent, paths, alive)
  BY DEF Inv
<1>2. CallerFits(c, new, bus[c], calls[c], alive)
  BY <1>1 DEF CallerFits
<1>3. /\ DOMAIN bus' = Callers /\ DOMAIN call' = Callers /\ DOMAIN calls' = Callers
      /\ \A d \in Callers \ {c} :
           call'[d] = call[d] /\ bus'[d] = bus[d] /\ calls'[d] = calls[d]
      /\ call'[c] = new /\ bus'[c] = bus[c] /\ calls'[c] = calls[c]
  BY DEF Inv
<1>. QED
  BY <1>1, <1>2, <1>3, OtherCallers

LEMMA WaitingInv ==
  ASSUME Inv, NEW c \in Callers,
         ReplyArrives(c) \/ CallTimesOut(c) \/ Finish(c) \/ pk_connection_dbus_cancel(c)
  PROVE  Inv'
<1>. DEFINE cl == call[c]
<1>1. DOMAIN call = Callers /\ StageFits(c, cl, bus[c], alive)
  BY DEF Inv, CallerFits
<1>2. CASE ReplyArrives(c)
  <2>. DEFINE new == [cl EXCEPT !.stage = "notified"]
  <2>1. cl.stage = "replied" /\ call' = [call EXCEPT ![c] = new]
        /\ UNCHANGED <<agent, paths, alive, bus, calls>>
    BY <1>2 DEF ReplyArrives
  <2>2. StageFits(c, new, bus[c], alive)
    BY <1>1, <2>1, StageSteps
  <2>. HIDE DEF new
  <2>. QED
    BY <2>1, <2>2, CallInv
<1>3. CASE CallTimesOut(c)
  <2>. DEFINE new == ReadReply(cl, NoReply)
  <2>1. cl.stage \in {"sent", "replied"} /\ call' = [call EXCEPT ![c] = new]
        /\ UNCHANGED <<agent, paths, alive, bus, calls>>
    BY <1>3 DEF CallTimesOut, ReadReply
  <2>2. StageFits(c, new, bus[c], alive)
    BY <1>1, <2>1, StageSteps
  <2>. HIDE DEF new
  <2>. QED
    BY <2>1, <2>2, CallInv
<1>4. CASE Finish(c)
  <2>. DEFINE new == Finished(cl.want, Result(cl.slot, cl.reply))
  <2>1. cl.stage = "notified" /\ call' = [call EXCEPT ![c] = new]
        /\ UNCHANGED <<agent, paths, alive, bus, calls>>
    BY <1>4 DEF Finish
  <2>2. StageFits(c, new, bus[c], alive)
    BY <1>1, <2>1, StageSteps
  <2>. HIDE DEF new
  <2>. QED
    BY <2>1, <2>2, CallInv
<1>5. CASE pk_connection_dbus_cancel(c)
  <2>1. call' = [call EXCEPT ![c] = Aborted]
        /\ UNCHANGED <<agent, paths, alive, bus, calls>>
    BY <1>5 DEF pk_connection_dbus_cancel, Aborted
  <2>2. StageFits(c, Aborted, bus[c], alive)
    BY <1>1, StageSteps
  <2>. QED
    BY <2>1, <2>2, CallInv
<1>. QED
  BY <1>2, <1>3, <1>4, <1>5

LEMMA ServeInv ==
  ASSUME Inv, NEW c \in Callers, Serve(c)
  PROVE  Inv'
<1>. DEFINE cl == call[c]
            q == bus[c]
<1>1. /\ CallerFits(c, cl, q, calls[c], alive) /\ AgentFits(agent, paths, TRUE)
      /\ alive = TRUE /\ alive' = TRUE /\ q # <<>> /\ calls' = calls
      /\ bus' = [bus EXCEPT ![c] = Tail(q)]
      /\ DOMAIN call = Callers /\ DOMAIN bus = Callers /\ DOMAIN calls = Callers
  BY DEF Serve, Inv
<1>2. q \in Seq(Messages(c)) /\ StageFits(c, cl, q, TRUE)
  BY <1>1 DEF CallerFits
<1>3. PICK want \in Wanted[c] : Head(q) = Message(want)
  BY <1>1, <1>2, MessagesShrink
<1>4. /\ Tail(q) \in Seq(Messages(c))
      /\ Len(q) # 1 => Tail(q) # <<>> /\ Tail(q)[Len(Tail(q))] = q[Len(q)]
  BY <1>1, <1>2, MessagesShrink
<1>5. ASSUME NEW reply, ReplyTo(c, reply),
             cl.stage = "sent" /\ Len(q) = 1 => AsDeclared(cl.want, reply),
             AgentFits(agent', paths', TRUE)
      PROVE  Inv'
  <2>. DEFINE new == IF cl.stage = "sent" /\ Len(q) = 1 THEN Replied(cl, reply) ELSE cl
  <2>1. DOMAIN call' = Callers /\ call'[c] = new /\ \A d \in Callers \ {c} : call'[d] = call[d]
    BY <1>1, <1>5 DEF ReplyTo
  <2>2. StageFits(c, new, Tail(q), TRUE)
    <3>1. CASE cl.stage = "sent" /\ Len(q) = 1
      BY <1>2, <1>5, <3>1, StageSteps
    <3>2. CASE cl.stage = "sent" /\ Len(q) # 1
      BY <1>2, <1>4, <3>2, StageSteps
    <3>3. CASE cl.stage # "sent"
      BY <1>2, <3>3, StageSteps
    <3>. QED
      BY <3>1, <3>2, <3>3
  <2>. HIDE DEF new
  <2>3. CallerFits(c, new, Tail(q), calls[c], TRUE)
    BY <1>1, <1>4, <2>2 DEF CallerFits
  <2>4. /\ DOMAIN bus' = Callers /\ DOMAIN calls' = Callers
        /\ \A d \in Callers \ {c} : bus'[d] = bus[d] /\ calls'[d] = calls[d]
        /\ bus'[c] = Tail(q) /\ calls'[c] = calls[c]
    BY <1>1
  <2>. QED
    BY <1>1, <1>5, <2>1, <2>3, <2>4, OtherCallers
<1>. DEFINE message == Head(q).message
<1>6. IsCall(want) /\ message = Request(Calls(want.op, want.in))
  BY <1>3, RpcAssumption DEF Message
<1>7. cl.stage = "sent" /\ Len(q) = 1 => cl.want = want
  <2>1. Len(q) = 1 => q[Len(q)] = Head(q)
    BY <1>2
  <2>2. cl.stage = "sent" => q[Len(q)].want = cl.want
    BY <1>2, StageKnown
  <2>3. Head(q).want = want
    BY <1>3 DEF Message
  <2>. QED
    BY <2>1, <2>2, <2>3
<1>8. CASE message.path \in paths
  <2>. DEFINE in == Given(want)
  <2>1. Dispatched(message) # NotYetHandled /\ Dispatched(message) = [op |-> want.op, in |-> in]
    BY <1>6, Arrives, IsDispatched
  <2>. HIDE DEF in
  <2>2. PICK spawned \in Spawned :
          LET r == Performed(agent, want.op, in, spawned)
          IN  /\ agent' = r.agent
              /\ paths' = AllNotified(paths, r.notify)
              /\ ReplyTo(c, Answered(want.op, r))
    BY <1>8, <2>1 DEF Serve
  <2>. DEFINE r == Performed(agent, want.op, in, spawned)
  <2>3. AgentFits(r.agent, AllNotified(paths, r.notify), TRUE)
    BY <1>1, <1>6, CallIsRpc, PerformedFits
  <2>. HIDE DEF r
  <2>4. agent' = r.agent /\ paths' = AllNotified(paths, r.notify)
        /\ ReplyTo(c, Answered(want.op, r))
    BY <2>2 DEF r
  <2>5. AsDeclared(want, Answered(want.op, r))
    BY <1>6, AnsweredFits
  <2>. QED
    BY <1>5, <1>7, <2>3, <2>4, <2>5
<1>9. CASE message.path \notin paths
  <2>1. ReplyTo(c, UnknownMethod) /\ UNCHANGED <<agent, paths>>
    BY <1>9 DEF Serve
  <2>2. AsDeclared(want, UnknownMethod)
    BY DEF AsDeclared, UnknownMethod, Error
  <2>. QED
    BY <1>1, <1>5, <1>7, <2>1, <2>2
<1>. QED
  BY <1>8, <1>9

LEMMA InferiorExitedInv ==
  ASSUME Inv, NEW channel \in DOMAIN agent.channels, NEW status,
         InferiorExited(channel, status)
  PROVE  Inv'
<1>1. AgentFits(agent, paths, TRUE) /\ alive = TRUE
  BY DEF InferiorExited, Inv
<1>2. AgentFits(agent', paths', alive')
  BY <1>1, ExitedFits DEF InferiorExited
<1>. QED
  BY <1>2 DEF InferiorExited, Inv

LEMMA AgentQuitsInv ==
  ASSUME Inv, AgentQuits
  PROVE  Inv'
<1>1. AgentFits(agent, paths, TRUE) /\ alive = TRUE
  BY DEF AgentQuits, Inv
<1>2. AgentFits(agent', paths', FALSE)
  BY <1>1, ShutdownFits DEF AgentQuits
<1>3. PICK lost \in SUBSET {c \in Callers : call[c].stage = "replied"} :
        call' = [c \in Callers |->
                   IF call[c].stage = "sent" \/ c \in lost
                   THEN Replied(call[c], NoReply) ELSE call[c]]
  BY DEF AgentQuits
<1>4. ASSUME NEW c \in Callers
      PROVE  CallerFits(c, call'[c], bus'[c], calls'[c], alive')
  <2>. DEFINE cl == call[c]
  <2>1. CallerFits(c, cl, bus[c], calls[c], TRUE)
    BY <1>1 DEF Inv
  <2>2. StageFits(c, cl, bus[c], TRUE)
    BY <2>1 DEF CallerFits
  <2>3. AsDeclared(cl.want, NoReply)
    BY DEF AsDeclared, NoReply, Error
  <2>4. StageFits(c, call'[c], <<>>, FALSE)
    <3>1. CASE cl.stage = "sent" \/ c \in lost
      <4>1. cl.stage \in {"sent", "replied"} /\ call'[c] = Replied(cl, NoReply)
        BY <1>3, <3>1
      <4>2. StageFits(c, Replied(cl, NoReply), <<>>, FALSE)
        BY <2>2, <2>3, <4>1, StageSteps
      <4>. QED
        BY <4>1, <4>2
    <3>2. CASE ~ (cl.stage = "sent" \/ c \in lost)
      <4>1. call'[c] = cl /\ cl.stage # "sent"
        BY <1>3, <3>2
      <4>2. StageFits(c, cl, <<>>, FALSE)
        BY <2>2, <4>1, StageSteps
      <4>. QED
        BY <4>1, <4>2
    <3>. QED
      BY <3>1, <3>2
  <2>5. bus'[c] = <<>> /\ calls'[c] = calls[c] /\ alive' = FALSE
    BY DEF AgentQuits
  <2>6. bus'[c] \in Seq(Messages(c)) /\ calls'[c] \in 0..MaxCalls[c]
    BY <2>1, <2>5 DEF CallerFits
  <2>. QED
    BY <2>4, <2>5, <2>6 DEF CallerFits
<1>5. DOMAIN bus' = Callers /\ DOMAIN call' = Callers /\ DOMAIN calls' = Callers
      /\ alive' = FALSE
  BY <1>3 DEF AgentQuits, Inv
<1>. QED
  BY <1>2, <1>4, <1>5 DEF Inv

LEMMA NextInv ==
  ASSUME Inv, [Next]_vars
  PROVE  Inv'
<1>1. CASE Next
  <2>1. ASSUME NEW c \in Callers, NEW want \in Wanted[c],
               Invoke(c, want) \/ InvokeMethod(c, want)
        PROVE  Inv'
    BY <2>1, InvokeInv, InvokeMethodInv
  <2>2. ASSUME NEW c \in Callers, Serve(c)
        PROVE  Inv'
    BY <2>2, ServeInv
  <2>3. ASSUME NEW c \in Callers,
               ReplyArrives(c) \/ CallTimesOut(c) \/ Finish(c)
                 \/ pk_connection_dbus_cancel(c)
        PROVE  Inv'
    BY <2>3, WaitingInv
  <2>4. ASSUME NEW channel \in DOMAIN agent.channels, NEW status \in ExitStatuses,
               InferiorExited(channel, status)
        PROVE  Inv'
    BY <2>4, InferiorExitedInv
  <2>5. ASSUME AgentQuits
        PROVE  Inv'
    BY <2>5, AgentQuitsInv
  <2>. QED
    BY <1>1, <2>1, <2>2, <2>3, <2>4, <2>5 DEF Next
<1>2. CASE UNCHANGED vars
  BY <1>2 DEF vars, Inv
<1>. QED
  BY <1>1, <1>2

(***************************************************************************)
(* What the invariant says.                                                *)
(***************************************************************************)
LEMMA InvImpliesTypeOK ==
  ASSUME Inv
  PROVE  TypeOK
<1>1. ASSUME NEW c \in Callers
      PROVE  /\ calls[c] \in 0..MaxCalls[c]
             /\ call[c].stage \in {"none", "sent", "replied", "notified",
                                   "finished", "aborted"}
             /\ call[c].stage = "sent" =>
                  /\ bus[c] # <<>>
                  /\ bus[c][Len(bus[c])].want = call[c].want
             /\ ~alive => bus[c] = <<>> /\ call[c].stage # "sent"
  <2>1. CallerFits(c, call[c], bus[c], calls[c], alive)
    BY DEF Inv
  <2>2. StageFits(c, call[c], bus[c], alive)
    BY <2>1 DEF CallerFits
  <2>3. /\ call[c].stage \in {"none", "sent", "replied", "notified", "finished", "aborted"}
        /\ call[c].stage = "sent" =>
             alive /\ bus[c] # <<>> /\ bus[c][Len(bus[c])].want = call[c].want
    BY <2>2, StageKnown
  <2>. QED
    BY <2>1, <2>3 DEF CallerFits
<1>. QED
  BY <1>1 DEF TypeOK, Inv

LEMMA InvImpliesPathsAreRegistries ==
  ASSUME Inv
  PROVE  PathsAreRegistries
BY DEF Inv, AgentFits, PathsAreRegistries, RegistryPaths

LEMMA InvImpliesAnswersAsDeclared ==
  ASSUME Inv
  PROVE  AnswersAsDeclared
<1>1. ASSUME NEW c \in Callers, call[c].stage = "replied"
      PROVE  AsDeclared(call[c].want, call[c].reply)
  <2>1. StageFits(c, call[c], bus[c], alive)
    BY DEF Inv, CallerFits
  <2>. QED
    BY <1>1, <2>1, StageKnown
<1>. QED
  BY <1>1 DEF AnswersAsDeclared, AsDeclared

LEMMA InvImpliesAttachedOnce ==
  ASSUME Inv
  PROVE  AttachedOnce
<1>. SUFFICES ASSUME NEW id \in DOMAIN agent.sources, NEW ch \in DOMAIN agent.channels
              PROVE  LET places == {k \in DOMAIN agent.channels[ch].sources :
                                      agent.channels[ch].sources[k] = id}
                     IN  Cardinality(places)
                           = IF agent.sources[id].channel = ch THEN 1 ELSE 0
  BY DEF AttachedOnce
<1>. DEFINE listed == agent.channels[ch].sources
            places == {k \in DOMAIN listed : listed[k] = id}
<1>1. Attachments(agent)
  BY DEF Inv, AgentFits, AgentOK
<1>2. CASE agent.sources[id].channel = ch
  <2>1. PICK k \in DOMAIN listed : listed[k] = id
    BY <1>1, <1>2 DEF Attachments
  <2>2. \A l \in DOMAIN listed : listed[l] = id => l = k
    BY <1>1, <2>1 DEF Attachments
  <2>3. places = {k}
    BY <2>1, <2>2
  <2>. QED
    BY <1>2, <2>3, FS_Singleton
<1>3. CASE agent.sources[id].channel # ch
  <2>1. places = {}
    BY <1>1, <1>3 DEF Attachments
  <2>. QED
    BY <1>3, <2>1, FS_EmptySet
<1>. QED
  BY <1>2, <1>3

LEMMA InvImpliesShutdownStops ==
  ASSUME Inv
  PROVE  ShutdownStops
BY DEF Inv, AgentFits, ShutdownStops, Halted

\* Inv holds in every state.
LEMMA Invariance == Spec => []Inv
<1>1. Init => Inv
  BY InitInv
<1>2. Inv /\ [Next]_vars => Inv'
  BY NextInv
<1>. QED
  BY <1>1, <1>2, PTL DEF Spec

\* Every variable keeps to its range, and a call that waits for its reply is
\* the last of its connection (pk-connection-dbus.c:1112).
THEOREM TypesHold == Spec => []TypeOK
BY Invariance, InvImpliesTypeOK, PTL

\* The paths that the listener has registered are those of the registries,
\* whatever calls are made and were made before (pka-manager.c:41).
THEOREM PathsHold == Spec => []PathsAreRegistries
BY Invariance, InvImpliesPathsAreRegistries, PTL

\* Each of the 52 procedures is answered with the types that the introspection
\* data declare for its member (pka-listener-dbus.c:84).
THEOREM AnswersHold == Spec => []AnswersAsDeclared
BY Invariance, InvImpliesAnswersAsDeclared, PTL

\* An attached source is in its channel's array once and in no other's
\* (pka-channel.c:538).
THEOREM AttachmentHolds == Spec => []AttachedOnce
BY Invariance, InvImpliesAttachedOnce, PTL

\* The agent leaves no channel running behind (pka_manager_shutdown).
THEOREM ShutdownHolds == Spec => []ShutdownStops
BY Invariance, InvImpliesShutdownStops, PTL

(***************************************************************************)
(* The callers' view.  A call that goes on keeps what the caller is shown, *)
(* or changes it as a step of AgentService does.                           *)
(***************************************************************************)
LEMMA ShownIs ==
  ASSUME NEW want, NEW slot, NEW reply, NEW result, NEW cl
  PROVE  /\ Shown(NotCalled) = Service!Idle
         /\ Shown(Sent(want, slot)) = Service!Waiting(want)
         /\ Shown(Replied(cl, reply)) = Service!Answer(Outcome(Result(cl.slot, reply)))
         /\ Shown(ReadReply(cl, reply)) = Service!Answer(Outcome(Result(cl.slot, reply)))
         /\ Shown(Aborted) = Service!Ended
         /\ Shown(Finished(want, result)) = Service!Told(Outcome(result))
<1>1. Shown(NotCalled) = Service!Idle
  BY DEF Shown, NotCalled, Service!Idle
<1>2. Shown(Sent(want, slot)) = Service!Waiting(want)
  BY DEF Shown, Sent, Service!Waiting
<1>3. Shown(Replied(cl, reply)) = Service!Answer(Outcome(Result(cl.slot, reply)))
  <2>. DEFINE new == Replied(cl, reply)
  <2>1. new.stage = "replied" /\ new.slot = cl.slot /\ new.reply = reply
    BY DEF Replied
  <2>. HIDE DEF new
  <2>2. Shown(new) = Service!Answer(Outcome(Result(cl.slot, reply)))
    BY <2>1 DEF Shown, Service!Answer
  <2>. QED BY <2>2 DEF new
<1>4. Shown(ReadReply(cl, reply)) = Service!Answer(Outcome(Result(cl.slot, reply)))
  <2>. DEFINE new == ReadReply(cl, reply)
  <2>1. new.stage = "notified" /\ new.slot = cl.slot /\ new.reply = reply
    BY DEF ReadReply, Replied
  <2>. HIDE DEF new
  <2>2. Shown(new) = Service!Answer(Outcome(Result(cl.slot, reply)))
    BY <2>1 DEF Shown, Service!Answer
  <2>. QED BY <2>2 DEF new
<1>5. Shown(Aborted) = Service!Ended
  BY DEF Shown, Aborted, Service!Ended
<1>6. Shown(Finished(want, result)) = Service!Told(Outcome(result))
  BY DEF Shown, Finished, Service!Told
<1>. QED
  BY <1>1, <1>2, <1>3, <1>4, <1>5, <1>6

LEMMA AppendIs ==
  ASSUME NEW S, NEW s \in Seq(S), NEW e
  PROVE  Append(s, e) = [k \in 1..(Len(s) + 1) |-> IF k = Len(s) + 1 THEN e ELSE s[k]]
<1>. DEFINE T == S \cup {e}
            p == Append(s, e)
<1>1. s \in Seq(T) /\ e \in T
  BY SeqGrows
<1>. HIDE DEF T
<1>2. /\ p \in Seq(T) /\ Len(p) = Len(s) + 1
      /\ \A k \in 1..Len(s) : p[k] = s[k]
      /\ p[Len(s) + 1] = e
  BY <1>1, AppendProperties
<1>3. Len(s) \in Nat
  OBVIOUS
<1>. HIDE DEF p
<1>4. p = [k \in 1..Len(p) |-> p[k]]
  BY <1>2
<1>5. \A k \in 1..(Len(s) + 1) : k # Len(s) + 1 => k \in 1..Len(s)
  BY <1>3
<1>6. \A k \in 1..(Len(s) + 1) : p[k] = IF k = Len(s) + 1 THEN e ELSE s[k]
  BY <1>2, <1>5
<1>7. p = [k \in 1..(Len(s) + 1) |-> IF k = Len(s) + 1 THEN e ELSE s[k]]
  BY <1>2, <1>4, <1>6
<1>. QED
  BY <1>7 DEF p

LEMMA TailIs ==
  ASSUME NEW S, NEW s \in Seq(S), s # <<>>
  PROVE  Tail(s) = [k \in 1..(Len(s) - 1) |-> s[k + 1]]
<1>. DEFINE p == Tail(s)
<1>1. p \in Seq(S) /\ Len(p) = Len(s) - 1 /\ \A k \in 1..Len(p) : p[k] = s[k + 1]
  BY HeadTailProperties
<1>. HIDE DEF p
<1>2. p = [k \in 1..Len(p) |-> p[k]]
  BY <1>1
<1>3. p = [k \in 1..(Len(s) - 1) |-> s[k + 1]]
  BY <1>1, <1>2
<1>. QED
  BY <1>3 DEF p

LEMMA MeantIs ==
  ASSUME NEW c \in Callers, NEW q \in Seq(Messages(c)), NEW want
  PROVE  /\ Meant(<<>>) = <<>>
         /\ Meant(q) = <<>> <=> q = <<>>
         /\ Len(Meant(q)) = Len(q)
         /\ Meant(Append(q, Message(want))) = Append(Meant(q), want)
         /\ q # <<>> => /\ Meant(Tail(q)) = Tail(Meant(q))
                        /\ Head(Meant(q)) = Head(q).want
<1>1. Meant(<<>>) = <<>>
  <2>. DEFINE f == Meant(<<>>)
  <2>1. f = [k \in DOMAIN f |-> f[k]] /\ DOMAIN f = {}
    BY DEF Meant
  <2>. HIDE DEF f
  <2>2. f = <<>>
    BY <2>1, NoEntries
  <2>. QED
    BY <2>2 DEF f
<1>2. q = [k \in 1..Len(q) |-> q[k]] /\ Len(q) \in Nat /\ DOMAIN q = 1..Len(q)
  OBVIOUS
<1>. DEFINE W == {q[k].want : k \in 1..Len(q)}
<1>3. Meant(q) = [k \in 1..Len(q) |-> q[k].want]
  BY <1>2 DEF Meant
<1>4. Meant(q) \in Seq(W) /\ Len(Meant(q)) = Len(q)
  BY <1>2, <1>3
<1>5. Meant(Append(q, Message(want))) = Append(Meant(q), want)
  <2>. DEFINE e == Message(want)
              p == Append(q, e)
  <2>1. e.want = want
    BY DEF Message
  <2>. HIDE DEF e
  <2>2. /\ DOMAIN p = 1..(Len(q) + 1)
        /\ \A k \in 1..(Len(q) + 1) : p[k] = IF k = Len(q) + 1 THEN e ELSE q[k]
    OBVIOUS
  <2>. HIDE DEF p
  <2>3. Meant(p) = [k \in 1..(Len(q) + 1) |-> IF k = Len(q) + 1 THEN want ELSE q[k].want]
    BY <2>1, <2>2 DEF Meant
  <2>. DEFINE s == Meant(q)
  <2>4. s \in Seq(W) /\ Len(s) = Len(q) /\ \A k \in 1..Len(q) : s[k] = q[k].want
    BY <1>3, <1>4
  <2>. HIDE DEF s, W
  <2>5. Append(s, want) = [k \in 1..(Len(q) + 1) |-> IF k = Len(q) + 1 THEN want ELSE s[k]]
    <3>1. Append(s, want) = [k \in 1..(Len(s) + 1) |-> IF k = Len(s) + 1 THEN want ELSE s[k]]
      BY <2>4, AppendIs
    <3>. QED
      BY <2>4, <3>1
  <2>6. \A k \in 1..(Len(q) + 1) : k # Len(q) + 1 => s[k] = q[k].want
    <3>1. \A k \in 1..(Len(q) + 1) : k # Len(q) + 1 => k \in 1..Len(q)
      BY <1>2
    <3>. QED
      BY <2>4, <3>1
  <2>7. Append(s, want) = Meant(p)
    BY <2>3, <2>5, <2>6
  <2>. QED
    BY <2>7 DEF s, p, e
<1>6. ASSUME q # <<>>
      PROVE  Meant(Tail(q)) = Tail(Meant(q)) /\ Head(Meant(q)) = Head(q).want
  <2>. DEFINE p == Tail(q)
              s == Meant(q)
  <2>0. Len(q) # 0
    BY <1>2, <1>6
  <2>1. DOMAIN p = 1..(Len(q) - 1) /\ \A k \in 1..(Len(q) - 1) : p[k] = q[k + 1]
    BY <1>2, <1>6
  <2>. HIDE DEF p
  <2>2. Meant(p) = [k \in 1..(Len(q) - 1) |-> q[k + 1].want]
    BY <2>1 DEF Meant
  <2>3. s \in Seq(W) /\ Len(s) = Len(q) /\ \A k \in 1..Len(q) : s[k] = q[k].want
    BY <1>3, <1>4
  <2>. HIDE DEF s, W
  <2>4. Tail(s) = [k \in 1..(Len(q) - 1) |-> s[k + 1]]
    <3>1. s # <<>>
      BY <2>0, <2>3
    <3>2. Tail(s) = [k \in 1..(Len(s) - 1) |-> s[k + 1]]
      BY <2>3, <3>1, TailIs
    <3>. QED
      BY <2>3, <3>2
  <2>5. \A k \in 1..(Len(q) - 1) : s[k + 1] = q[k + 1].want
    <3>1. \A k \in 1..(Len(q) - 1) : k + 1 \in 1..Len(q)
      BY <1>2
    <3>. QED
      BY <2>3, <3>1
  <2>6. Meant(p) = Tail(s)
    BY <2>2, <2>4, <2>5
  <2>7. Head(s) = s[1] /\ Head(q) = q[1] /\ 1 \in 1..Len(q)
    BY <1>2, <2>0, <2>3
  <2>8. Head(s) = Head(q).want
    BY <2>3, <2>7
  <2>. QED
    BY <2>6, <2>8 DEF s, p
<1>7. Meant(q) = <<>> <=> q = <<>>
  <2>1. \A T, s : s \in Seq(T) => (s = <<>> <=> Len(s) = 0)
    BY EmptySeq
  <2>. HIDE DEF W
  <2>. QED
    BY <1>4, <2>1
<1>. QED
  BY <1>1, <1>4, <1>5, <1>6, <1>7

(***************************************************************************)
(* Each step is a step of AgentService.                                    *)
(***************************************************************************)
LEMMA Faces ==
  ASSUME Inv, NEW c \in Callers
  PROVE  /\ StageFits(c, call[c], bus[c], alive) /\ bus[c] \in Seq(Messages(c))
         /\ DOMAIN bus = Callers /\ DOMAIN call = Callers /\ DOMAIN calls = Callers
         /\ askedBar[c] = Shown(call[c]) /\ queueBar[c] = Meant(bus[c])
         /\ call[c].stage \in {"none", "finished"} => askedBar[c].stage \in {"idle", "told"}
         /\ call[c].stage \in {"sent", "replied"} =>
              askedBar[c].stage \in {"waiting", "answered"}
         /\ call[c].stage = "sent" <=> askedBar[c].stage = "waiting"
         /\ call[c].stage \in {"replied", "notified"} <=> askedBar[c].stage = "answered"
<1>1. StageFits(c, call[c], bus[c], alive) /\ bus[c] \in Seq(Messages(c))
  BY DEF Inv, CallerFits
<1>2. call[c].stage \in {"none", "sent", "replied", "notified", "finished", "aborted"}
  BY <1>1, StageKnown
<1>3. askedBar[c] = Shown(call[c]) /\ queueBar[c] = Meant(bus[c])
  BY DEF askedBar, queueBar
<1>4. /\ call[c].stage = "none" => Shown(call[c]).stage = "idle"
      /\ call[c].stage = "sent" => Shown(call[c]).stage = "waiting"
      /\ call[c].stage = "replied" => Shown(call[c]).stage = "answered"
      /\ call[c].stage = "notified" => Shown(call[c]).stage = "answered"
      /\ call[c].stage = "aborted" => Shown(call[c]).stage = "ended"
      /\ call[c].stage = "finished" => Shown(call[c]).stage = "told"
  <2>. DEFINE cl == call[c]
  <2>. HIDE DEF cl
  <2>1. /\ cl.stage = "none" => Shown(cl).stage = "idle"
        /\ cl.stage = "sent" => Shown(cl).stage = "waiting"
        /\ cl.stage = "replied" => Shown(cl).stage = "answered"
        /\ cl.stage = "notified" => Shown(cl).stage = "answered"
        /\ cl.stage = "aborted" => Shown(cl).stage = "ended"
        /\ cl.stage = "finished" => Shown(cl).stage = "told"
    BY DEF Shown
  <2>. QED BY <2>1 DEF cl
<1>. QED
  BY <1>1, <1>2, <1>3, <1>4 DEF Inv

\* One caller's call changes, and with it what the caller is shown.
LEMMA OneFace ==
  ASSUME Inv, NEW c \in Callers, NEW new, call' = [call EXCEPT ![c] = new]
  PROVE  askedBar' = [askedBar EXCEPT ![c] = Shown(new)]
<1>1. DOMAIN call = Callers
  BY DEF Inv
<1>2. askedBar' = [d \in Callers |-> Shown(call'[d])]
  BY DEF askedBar
<1>3. call'[c] = new /\ \A d \in Callers \ {c} : call'[d] = call[d]
  BY <1>1
<1>4. [askedBar EXCEPT ![c] = Shown(new)]
        = [d \in Callers |-> IF d = c THEN Shown(new) ELSE Shown(call[d])]
  BY DEF askedBar
<1>. QED
  BY <1>2, <1>3, <1>4

LEMMA OneQueue ==
  ASSUME Inv, NEW c \in Callers, NEW q, bus' = [bus EXCEPT ![c] = q]
  PROVE  queueBar' = [queueBar EXCEPT ![c] = Meant(q)]
<1>1. DOMAIN bus = Callers
  BY DEF Inv
<1>2. queueBar' = [d \in Callers |-> Meant(bus'[d])]
  BY DEF queueBar
<1>3. bus'[c] = q /\ \A d \in Callers \ {c} : bus'[d] = bus[d]
  BY <1>1
<1>4. [queueBar EXCEPT ![c] = Meant(q)]
        = [d \in Callers |-> IF d = c THEN Meant(q) ELSE Meant(bus[d])]
  BY DEF queueBar
<1>. QED
  BY <1>2, <1>3, <1>4

\* The slot's reading of an error is a failure.
LEMMA ErrorShows ==
  ASSUME NEW c \in Callers, NEW cl, cl.want \in Wanted[c], cl.slot = cl.want.op,
         NEW name, NEW text
  PROVE  /\ Shown(Replied(cl, Error(name, text))) = Service!Answer(Service!Failure)
         /\ Shown(ReadReply(cl, Error(name, text))) = Service!Answer(Service!Failure)
<1>1. cl.slot \in Procedures
  <2>1. IsCall(cl.want)
    BY RpcAssumption
  <2>. QED BY <2>1, CallIsRpc
<1>2. Outcome(Result(cl.slot, Error(name, text))) = Service!Failure
  BY <1>1, ErrorIsRead DEF Service!Failure
<1>. QED
  BY <1>2, ShownIs

LEMMA InvokeIsAsk ==
  ASSUME Inv, NEW c \in Callers, NEW want \in Wanted[c], Invoke(c, want)
  PROVE  Service!Ask(c)
<1>. DEFINE rpc == Calls(want.op, want.in)
            cl == Sent(want, want.op)
<1>1. rpc.slot = want.op
  <2>1. IsCall(want)
    BY RpcAssumption
  <2>2. rpc = Rpc(want.op, want.in)
    BY <2>1, CallIsRpc
  <2>. QED
    BY <2>2 DEF Rpc
<1>2. Service!MayCall(c)
  BY Faces DEF Invoke, Free, Service!MayCall
<1>3. UNCHANGED <<agent, alive>>
  BY DEF Invoke
<1>4. CASE alive
  <2>1. /\ bus' = [bus EXCEPT ![c] = Append(bus[c], Message(want))]
        /\ call' = [call EXCEPT ![c] = cl]
    BY <1>1, <1>4, Faces DEF Invoke, Message
  <2>2. askedBar' = [askedBar EXCEPT ![c] = Service!Waiting(want)]
    <3>1. askedBar' = [askedBar EXCEPT ![c] = Shown(cl)]
      <4>. HIDE DEF cl
      <4>. QED BY <2>1, OneFace
    <3>. QED
      BY <3>1, ShownIs
  <2>3. queueBar' = [queueBar EXCEPT ![c] = Append(queueBar[c], want)]
    <3>. DEFINE q == Append(bus[c], Message(want))
    <3>1. queueBar' = [queueBar EXCEPT ![c] = Meant(q)]
      <4>. HIDE DEF q
      <4>. QED BY <2>1, OneQueue DEF q
    <3>2. Meant(q) = Append(Meant(bus[c]), want)
      BY Faces, MeantIs
    <3>3. queueBar[c] = Meant(bus[c])
      BY Faces
    <3>. QED
      BY <3>1, <3>2, <3>3
  <2>. QED
    BY <1>2, <1>3, <1>4, <2>2, <2>3 DEF Service!Ask
<1>5. CASE ~alive
  <2>. DEFINE new == Replied(cl, ServiceUnknown)
  <2>1. call' = [call EXCEPT ![c] = new] /\ bus' = bus
    BY <1>1, <1>5 DEF Invoke
  <2>2. Shown(new) = Service!Answer(Service!Failure)
    <3>1. cl.want = want /\ cl.slot = want.op
      BY DEF Sent
    <3>. HIDE DEF cl
    <3>. QED
      BY <3>1, ErrorShows DEF ServiceUnknown
  <2>3. askedBar' = [askedBar EXCEPT ![c] = Shown(new)]
    <3>. HIDE DEF new
    <3>. QED BY <2>1, OneFace
  <2>4. queueBar' = queueBar
    BY <2>1 DEF queueBar
  <2>. QED
    BY <1>2, <1>3, <1>5, <2>2, <2>3, <2>4 DEF Service!Ask
<1>. QED
  BY <1>4, <1>5

LEMMA InvokeMethodIsRefuse ==
  ASSUME Inv, NEW c \in Callers, NEW want \in Wanted[c], InvokeMethod(c, want)
  PROVE  Service!Refuse(c)
<1>. DEFINE result == [ok |-> FALSE, out |-> <<>>, error |-> NULL]
            new == Finished(want, result)
<1>1. Service!MayCall(c)
  BY Faces DEF InvokeMethod, Free, Service!MayCall
<1>2. /\ call' = [call EXCEPT ![c] = new]
      /\ UNCHANGED <<agent, alive>> /\ bus' = bus
  BY DEF InvokeMethod
<1>3. Shown(new) = Service!Told(Service!Failure)
  <2>1. Outcome(result) = Service!Failure
    BY DEF Outcome, Service!Failure
  <2>. HIDE DEF result
  <2>2. Shown(new) = Service!Told(Outcome(result))
    BY ShownIs
  <2>. QED
    BY <2>1, <2>2
<1>4. askedBar' = [askedBar EXCEPT ![c] = Shown(new)]
  <2>. HIDE DEF new
  <2>. QED BY <1>2, OneFace
<1>5. queueBar' = queueBar
  BY <1>2 DEF queueBar
<1>6. Disconnected(want)
  BY DEF InvokeMethod, Disconnected, ConstructedWith
<1>. QED
  BY <1>1, <1>2, <1>3, <1>4, <1>5, <1>6 DEF Service!Refuse

LEMMA ReplyArrivesStutters ==
  ASSUME Inv, NEW c \in Callers, ReplyArrives(c)
  PROVE  askedBar' = askedBar /\ queueBar' = queueBar
<1>. DEFINE cl == call[c]
            new == [cl EXCEPT !.stage = "notified"]
<1>1. cl.stage = "replied" /\ call' = [call EXCEPT ![c] = new] /\ bus' = bus
  BY DEF ReplyArrives
<1>2. Shown(new) = Shown(cl)
  <2>1. StageFits(c, cl, bus[c], alive)
    BY Faces
  <2>2. cl = Replied(Sent(cl.want, cl.slot), cl.reply)
    BY <1>1, <2>1, StageKnown
  <2>3. new = ReadReply(Sent(cl.want, cl.slot), cl.reply)
    BY <2>2 DEF ReadReply
  <2>. DEFINE reply == cl.reply
              sent == Sent(cl.want, cl.slot)
  <2>4. cl = Replied(sent, reply) /\ new = ReadReply(sent, reply)
    BY <2>2, <2>3
  <2>. HIDE DEF reply, sent, new, cl
  <2>. QED
    BY <2>4, ShownIs
<1>3. askedBar' = [askedBar EXCEPT ![c] = Shown(new)]
  <2>. HIDE DEF new
  <2>. QED BY <1>1, OneFace
<1>4. askedBar[c] = Shown(cl)
  BY Faces
<1>5. [askedBar EXCEPT ![c] = askedBar[c]] = askedBar
  BY DEF askedBar
<1>6. queueBar' = queueBar
  BY <1>1 DEF queueBar
<1>. QED
  BY <1>2, <1>3, <1>4, <1>5, <1>6

LEMMA CallTimesOutIsGiveUp ==
  ASSUME Inv, NEW c \in Callers, CallTimesOut(c)
  PROVE  Service!GiveUp(c)
<1>. DEFINE cl == call[c]
            new == ReadReply(cl, NoReply)
<1>1. /\ cl.stage \in {"sent", "replied"}
      /\ call' = [call EXCEPT ![c] = new]
      /\ UNCHANGED <<agent, paths, alive, bus, calls>>
  BY DEF CallTimesOut, ReadReply
<1>2. Shown(new) = Service!Answer(Service!Failure)
  <2>1. cl.want \in Wanted[c] /\ cl.slot = cl.want.op
    BY <1>1, Faces, StageKnown
  <2>. HIDE DEF cl
  <2>. QED
    BY <2>1, ErrorShows DEF NoReply
<1>3. askedBar' = [askedBar EXCEPT ![c] = Shown(new)]
  <2>. HIDE DEF new
  <2>. QED BY <1>1, OneFace
<1>4. queueBar' = queueBar
  BY <1>1 DEF queueBar
<1>5. askedBar[c].stage \in {"waiting", "answered"}
  BY <1>1, Faces
<1>. QED
  BY <1>1, <1>2, <1>3, <1>4, <1>5 DEF Service!GiveUp

LEMMA FinishIsTell ==
  ASSUME Inv, NEW c \in Callers, Finish(c)
  PROVE  Service!Tell(c)
<1>. DEFINE cl == call[c]
            result == Result(cl.slot, cl.reply)
            new == Finished(cl.want, result)
<1>1. /\ cl.stage = "notified"
      /\ call' = [call EXCEPT ![c] = new]
      /\ UNCHANGED <<agent, paths, alive, bus, calls>>
  BY DEF Finish
<1>2. Shown(cl) = Service!Answer(Outcome(result))
  <2>. HIDE DEF cl
  <2>. QED
    BY <1>1 DEF Shown, Service!Answer
<1>3. Shown(new) = Service!Told(Outcome(result))
  <2>. HIDE DEF cl, result
  <2>. QED
    BY ShownIs
<1>4. askedBar' = [askedBar EXCEPT ![c] = Shown(new)]
  <2>. HIDE DEF new
  <2>. QED BY <1>1, OneFace
<1>5. askedBar[c] = Shown(cl)
  BY Faces
<1>6. queueBar' = queueBar
  BY <1>1 DEF queueBar
<1>. DEFINE outcome == Outcome(result)
<1>7. askedBar[c].stage = "answered" /\ askedBar[c].outcome = outcome
  <2>. HIDE DEF outcome
  <2>. QED
    BY <1>2, <1>5 DEF Service!Answer, outcome
<1>. HIDE DEF outcome, new
<1>8. askedBar' = [askedBar EXCEPT ![c] = Service!Told(askedBar[c].outcome)]
  BY <1>3, <1>4, <1>7 DEF outcome
<1>. QED
  BY <1>1, <1>6, <1>7, <1>8 DEF Service!Tell

LEMMA CancelIsCancel ==
  ASSUME Inv, NEW c \in Callers, pk_connection_dbus_cancel(c)
  PROVE  Service!Cancel(c)
<1>1. /\ call[c].stage \in {"sent", "replied"}
      /\ call' = [call EXCEPT ![c] = Aborted]
      /\ UNCHANGED <<agent, paths, alive, bus, calls>>
  BY DEF pk_connection_dbus_cancel, Aborted
<1>2. askedBar' = [askedBar EXCEPT ![c] = Service!Ended]
  BY <1>1, OneFace, ShownIs
<1>3. queueBar' = queueBar
  BY <1>1 DEF queueBar
<1>4. askedBar[c].stage \in {"waiting", "answered"}
  BY <1>1, Faces
<1>. QED
  BY <1>1, <1>2, <1>3, <1>4 DEF Service!Cancel

\* A reply reaches the caller that is still waiting for it, and no other.
LEMMA ReplyShows ==
  ASSUME Inv, NEW c \in Callers, NEW reply, ReplyTo(c, reply), NEW outcome,
         call[c].stage = "sent" /\ Len(bus[c]) = 1 =>
           Outcome(Result(call[c].slot, reply)) = outcome
  PROVE  Service!Outcome(c, outcome)
<1>. DEFINE cl == call[c]
            new == Replied(cl, reply)
<1>1. Len(queueBar[c]) = Len(bus[c]) /\ (cl.stage = "sent" <=> askedBar[c].stage = "waiting")
  BY Faces, MeantIs
<1>2. CASE cl.stage = "sent" /\ Len(bus[c]) = 1
  <2>1. call' = [call EXCEPT ![c] = new]
    BY <1>2, Faces DEF ReplyTo
  <2>2. Shown(new) = Service!Answer(outcome)
    <3>1. Shown(new) = Service!Answer(Outcome(Result(cl.slot, reply)))
      BY ShownIs
    <3>. QED
      BY <1>2, <3>1
  <2>3. askedBar' = [askedBar EXCEPT ![c] = Shown(new)]
    <3>. HIDE DEF new
    <3>. QED BY <2>1, OneFace
  <2>. QED
    BY <1>1, <1>2, <2>2, <2>3 DEF Service!Outcome
<1>3. CASE ~ (cl.stage = "sent" /\ Len(bus[c]) = 1)
  <2>1. call' = call
    BY <1>3 DEF ReplyTo
  <2>2. askedBar' = askedBar
    BY <2>1 DEF askedBar
  <2>. QED
    BY <1>1, <1>3, <2>2 DEF Service!Outcome
<1>. QED
  BY <1>2, <1>3

LEMMA ServeIsPerform ==
  ASSUME Inv, NEW c \in Callers, Serve(c)
  PROVE  Service!Perform(c)
<1>. DEFINE cl == call[c]
            q == bus[c]
            message == Head(q).message
<1>1. /\ alive = TRUE /\ UNCHANGED <<alive, calls>> /\ q # <<>>
      /\ bus' = [bus EXCEPT ![c] = Tail(q)]
  BY DEF Serve, Inv
<1>2. q \in Seq(Messages(c)) /\ queueBar[c] = Meant(q) /\ StageFits(c, cl, q, alive)
  BY Faces
<1>3. PICK want \in Wanted[c] : Head(q) = Message(want)
  BY <1>1, <1>2, MessagesShrink
<1>4. IsCall(want) /\ message = Request(Calls(want.op, want.in)) /\ Head(q).want = want
  BY <1>3, RpcAssumption DEF Message
<1>5. /\ queueBar[c] # <<>> /\ Head(queueBar[c]) = want
      /\ queueBar' = [queueBar EXCEPT ![c] = Tail(queueBar[c])]
  <2>1. /\ Meant(q) # <<>> /\ Head(Meant(q)) = Head(q).want
        /\ Meant(Tail(q)) = Tail(Meant(q))
    BY <1>1, <1>2, MeantIs
  <2>. DEFINE p == Tail(q)
  <2>2. queueBar' = [queueBar EXCEPT ![c] = Meant(p)]
    <3>1. bus' = [bus EXCEPT ![c] = p]
      BY <1>1
    <3>. HIDE DEF p
    <3>. QED BY <3>1, OneQueue
  <2>. QED
    BY <1>2, <1>4, <2>1, <2>2
<1>6. cl.stage = "sent" /\ Len(q) = 1 => cl.slot = want.op
  <2>1. Len(q) = 1 => q[Len(q)] = Head(q)
    BY <1>2
  <2>2. cl.stage = "sent" => q[Len(q)].want = cl.want /\ cl.slot = cl.want.op
    BY <1>2, StageKnown
  <2>. QED
    BY <1>4, <2>1, <2>2
<1>7. want.op \in Procedures
  BY <1>4, CallIsRpc
<1>8. paths = RegistryPaths(agent)
  BY <1>1 DEF Inv, AgentFits
<1>9. CASE message.path \in paths
  <2>. DEFINE given == Given(want)
  <2>1. Dispatched(message) # NotYetHandled
        /\ Dispatched(message) = [op |-> want.op, in |-> given]
    BY <1>4, Arrives, IsDispatched
  <2>2. Service!Reachable(want)
    BY <1>4, <1>8, <1>9, Reaches
  <2>. HIDE DEF given
  <2>3. PICK spawned \in Spawned :
          LET r == Performed(agent, want.op, given, spawned)
          IN  /\ agent' = r.agent
              /\ paths' = AllNotified(paths, r.notify)
              /\ ReplyTo(c, Answered(want.op, r))
    BY <1>9, <2>1 DEF Serve
  <2>. DEFINE r == Performed(agent, want.op, given, spawned)
              p(in) == Promised(agent, want.op, in, spawned)
  <2>4. Outcome(Result(want.op, Answered(want.op, r))) = Read(want.op, r)
    BY <1>7, ReadBack
  <2>5. PICK in \in {want.in} \cup Instead(want) :
          p(in).agent = r.agent /\ p(in).ok = r.ok /\ p(in).out = r.out
    <3>1. AgentOK(agent)
      BY DEF Inv, AgentFits
    <3>2. \E in \in {want.in} \cup Instead(want) :
            LET b == Promised(agent, want.op, in, spawned)
                f == Performed(agent, want.op, Given(want), spawned)
            IN  b.agent = f.agent /\ b.ok = f.ok /\ b.out = f.out
      BY <1>4, <3>1, PerformsAsPromised
    <3>. QED BY <3>2 DEF given
  <2>6. agent' = r.agent /\ ReplyTo(c, Answered(want.op, r))
    BY <2>3
  <2>. HIDE DEF r, p
  <2>7. Read(want.op, p(in)) = Read(want.op, r)
    BY <2>5 DEF Read
  <2>8. agent' = p(in).agent /\ Service!Outcome(c, Read(want.op, p(in)))
    BY <1>6, <2>4, <2>5, <2>6, <2>7, ReplyShows
  <2>. QED
    BY <1>1, <1>5, <2>2, <2>8 DEF Service!Perform, p
<1>10. CASE message.path \notin paths
  <2>1. ReplyTo(c, UnknownMethod) /\ UNCHANGED agent
    BY <1>10 DEF Serve
  <2>. DEFINE failure == [ok |-> FALSE, out |-> <<>>]
  <2>2. Outcome(Result(want.op, UnknownMethod)) = failure
    BY <1>7, ErrorIsRead DEF UnknownMethod
  <2>. HIDE DEF failure
  <2>3. Service!Outcome(c, failure)
    BY <1>6, <2>1, <2>2, ReplyShows
  <2>4. CASE Service!Reachable(want)
    <3>1. PICK spawned \in Spawned : TRUE
      BY RpcAssumption
    <3>. DEFINE p(in) == Promised(agent, want.op, in, spawned)
    <3>2. ~p(want.in).ok /\ p(want.in).agent = agent
      BY <1>4, <1>8, <1>10, <2>4, Reaches
    <3>. HIDE DEF p
    <3>3. Read(want.op, p(want.in)) = failure
      BY <3>2 DEF Read, failure
    <3>4. agent' = p(want.in).agent
          /\ Service!Outcome(c, Read(want.op, p(want.in)))
      BY <2>1, <2>3, <3>2, <3>3
    <3>. QED
      BY <1>1, <1>5, <2>4, <3>4 DEF Service!Perform, p
  <2>5. CASE ~Service!Reachable(want)
    BY <1>1, <1>5, <2>1, <2>3, <2>5 DEF Service!Perform, Service!Failure, failure
  <2>. QED
    BY <2>4, <2>5
<1>. QED
  BY <1>9, <1>10

LEMMA InferiorExitedIsExited ==
  ASSUME NEW channel \in DOMAIN agent.channels, NEW status,
         InferiorExited(channel, status)
  PROVE  Service!Exited(channel, status)
<1>1. askedBar' = askedBar /\ queueBar' = queueBar
  BY DEF InferiorExited, askedBar, queueBar
<1>. QED
  BY <1>1 DEF InferiorExited, Service!Exited

LEMMA AgentQuitsIsQuit ==
  ASSUME Inv, AgentQuits
  PROVE  Service!Quit
<1>1. PICK lost \in SUBSET {c \in Callers : call[c].stage = "replied"} :
        call' = [c \in Callers |->
                   IF call[c].stage = "sent" \/ c \in lost
                   THEN Replied(call[c], NoReply) ELSE call[c]]
  BY DEF AgentQuits
<1>2. ASSUME NEW c \in Callers
      PROVE  Shown(call'[c]) = IF askedBar[c].stage = "waiting" \/ c \in lost
                               THEN Service!Answer(Service!Failure) ELSE askedBar[c]
  <2>. DEFINE cl == call[c]
  <2>1. /\ askedBar[c] = Shown(cl) /\ StageFits(c, cl, bus[c], alive)
        /\ cl.stage = "sent" <=> askedBar[c].stage = "waiting"
    BY Faces
  <2>2. CASE cl.stage = "sent" \/ c \in lost
    <3>1. cl.stage \in {"sent", "replied"} /\ call'[c] = Replied(cl, NoReply)
      BY <1>1, <2>2
    <3>2. cl.want \in Wanted[c] /\ cl.slot = cl.want.op
      BY <2>1, <3>1, StageKnown
    <3>. HIDE DEF cl
    <3>3. Shown(Replied(cl, NoReply)) = Service!Answer(Service!Failure)
      BY <3>2, ErrorShows DEF NoReply
    <3>. QED
      BY <2>1, <2>2, <3>1, <3>3
  <2>3. CASE ~ (cl.stage = "sent" \/ c \in lost)
    <3>1. call'[c] = cl
      BY <1>1, <2>3
    <3>. QED
      BY <2>1, <2>3, <3>1
  <2>. QED
    BY <2>2, <2>3
<1>3. askedBar' = [c \in Callers |->
                     IF askedBar[c].stage = "waiting" \/ c \in lost
                     THEN Service!Answer(Service!Failure) ELSE askedBar[c]]
  <2>1. askedBar' = [c \in Callers |-> Shown(call'[c])]
    BY DEF askedBar
  <2>. QED
    BY <1>2, <2>1
<1>4. lost \in SUBSET {c \in Callers : askedBar[c].stage = "answered"}
  BY <1>1, Faces
<1>5. queueBar' = [c \in Callers |-> <<>>]
  <2>1. queueBar' = [c \in Callers |-> Meant(bus'[c])]
    BY DEF queueBar
  <2>2. \A c \in Callers : Meant(bus'[c]) = <<>>
    <3>1. ASSUME NEW c \in Callers PROVE Meant(bus'[c]) = <<>>
      <4>1. bus'[c] = <<>>
        BY DEF AgentQuits
      <4>2. Meant(<<>>) = <<>>
        BY Faces, MeantIs
      <4>. QED BY <4>1, <4>2
    <3>. QED BY <3>1
  <2>. QED
    BY <2>1, <2>2
<1>6. /\ alive /\ alive' = FALSE /\ agent' = pka_manager_shutdown(agent)
      /\ UNCHANGED calls
  BY DEF AgentQuits
<1>. QED
  BY <1>3, <1>4, <1>5, <1>6 DEF Service!Quit

LEMMA InitIsInit ==
  ASSUME Init
  PROVE  Service!Init
<1>1. agent = AtStart.agent
  BY DEF Init
<1>2. askedBar = [c \in Callers |-> Service!Idle]
  <2>1. \A c \in Callers : Shown(call[c]) = Service!Idle
    BY ShownIs DEF Init
  <2>. QED
    BY <2>1 DEF askedBar
<1>3. queueBar = [c \in Callers |-> <<>>]
  <2>1. \A c \in Callers : Meant(bus[c]) = <<>>
    <3>1. ASSUME NEW c \in Callers  PROVE Meant(bus[c]) = <<>>
      <4>1. bus[c] = <<>>
        BY DEF Init
      <4>2. Inv
        BY InitInv
      <4>3. Meant(<<>>) = <<>>
        BY <4>2, Faces, MeantIs
      <4>. QED BY <4>1, <4>3
    <3>. QED BY <3>1
  <2>. QED
    BY <2>1 DEF queueBar
<1>. QED
  BY <1>1, <1>2, <1>3 DEF Init, Service!Init

LEMMA NextIsNext ==
  ASSUME Inv, [Next]_vars
  PROVE  [Service!Next]_(Service!vars)
<1>1. CASE Next
  <2>1. ASSUME NEW c \in Callers, NEW want \in Wanted[c], Invoke(c, want)
        PROVE  Service!Next
    BY <2>1, InvokeIsAsk DEF Service!Next
  <2>2. ASSUME NEW c \in Callers, NEW want \in Wanted[c], InvokeMethod(c, want)
        PROVE  Service!Next
    BY <2>2, InvokeMethodIsRefuse DEF Service!Next
  <2>3. ASSUME NEW c \in Callers, Serve(c)
        PROVE  Service!Next
    BY <2>3, ServeIsPerform DEF Service!Next
  <2>4. ASSUME NEW c \in Callers, ReplyArrives(c)
        PROVE  UNCHANGED Service!vars
    <3>1. askedBar' = askedBar /\ queueBar' = queueBar
      BY <2>4, ReplyArrivesStutters
    <3>. QED
      BY <2>4, <3>1 DEF ReplyArrives, Service!vars
  <2>5. ASSUME NEW c \in Callers, CallTimesOut(c)
        PROVE  Service!Next
    BY <2>5, CallTimesOutIsGiveUp DEF Service!Next
  <2>6. ASSUME NEW c \in Callers, Finish(c)
        PROVE  Service!Next
    BY <2>6, FinishIsTell DEF Service!Next
  <2>7. ASSUME NEW c \in Callers, pk_connection_dbus_cancel(c)
        PROVE  Service!Next
    BY <2>7, CancelIsCancel DEF Service!Next
  <2>8. ASSUME NEW channel \in DOMAIN agent.channels, NEW status \in ExitStatuses,
               InferiorExited(channel, status)
        PROVE  Service!Next
    BY <2>8, InferiorExitedIsExited DEF Service!Next
  <2>9. ASSUME AgentQuits
        PROVE  Service!Next
    BY <2>9, AgentQuitsIsQuit DEF Service!Next
  <2>. QED
    BY <1>1, <2>1, <2>2, <2>3, <2>4, <2>5, <2>6, <2>7, <2>8, <2>9 DEF Next
<1>2. CASE UNCHANGED vars
  BY <1>2 DEF vars, Service!vars, askedBar, queueBar
<1>. QED
  BY <1>1, <1>2

(***************************************************************************)
(* The methods of the library's objects.  They fail because an object has  *)
(* no connection; given one, they lose nothing.                            *)
(***************************************************************************)
\* With a connection a method makes the call of its name on it, with the
\* number of its object and the arguments that it was given: none of the 36
\* passes another object's number, swaps two arguments or calls another one
\* (pk-channel.c:65 and those like it).
THEOREM MethodsPassOn ==
  ASSUME NEW op \in Methods, NEW in, NEW connection, connection # NULL
  PROVE  MethodCalls(op, in, connection) = Calls(op, in)
<1>1. CASE op \in {"channel_get_args", "channel_get_env",
               "channel_get_exit_status", "channel_get_kill_pid",
               "channel_get_pid", "channel_get_pid_set",
               "channel_get_sources", "channel_get_state",
               "channel_get_target", "channel_get_working_dir"}
  BY <1>1
  DEF MethodCalls, Calls, Object, On, pk_channel_get_args, pk_channel_get_env,
      pk_channel_get_exit_status, pk_channel_get_kill_pid, pk_channel_get_pid,
      pk_channel_get_pid_set, pk_channel_get_sources, pk_channel_get_state,
      pk_channel_get_target, pk_channel_get_working_dir
<1>2. CASE op \in {"channel_set_args", "channel_set_env",
               "channel_set_kill_pid", "channel_set_pid",
               "channel_set_target", "channel_set_working_dir"}
  BY <1>2
  DEF MethodCalls, Calls, Object, On, pk_channel_set_args, pk_channel_set_env,
      pk_channel_set_kill_pid, pk_channel_set_pid, pk_channel_set_target,
      pk_channel_set_working_dir
<1>3. CASE op \in {"channel_add_source", "channel_mute", "channel_start",
               "channel_stop", "channel_unmute"}
  BY <1>3
  DEF MethodCalls, Calls, Object, On, pk_channel_add_source, pk_channel_mute,
      pk_channel_start, pk_channel_stop, pk_channel_unmute
<1>4. CASE op \in {"subscription_add_channel", "subscription_add_source",
               "subscription_mute", "subscription_remove_channel",
               "subscription_remove_source", "subscription_set_buffer",
               "subscription_unmute"}
  BY <1>4
  DEF MethodCalls, Calls, Object, On, pk_subscription_add_channel,
      pk_subscription_add_source, pk_subscription_mute,
      pk_subscription_remove_channel, pk_subscription_remove_source,
      pk_subscription_set_buffer, pk_subscription_unmute
<1>5. CASE op \in {"manager_get_plugins", "source_get_plugin",
               "encoder_get_plugin", "plugin_get_copyright",
               "plugin_get_description", "plugin_get_name",
               "plugin_get_plugin_type", "plugin_get_version"}
  BY <1>5
  DEF MethodCalls, Calls, Object, On, pk_manager_get_plugins,
      pk_source_get_plugin, pk_encoder_get_plugin, pk_plugin_get_copyright,
      pk_plugin_get_description, pk_plugin_get_name,
      pk_plugin_get_plugin_type, pk_plugin_get_version
<1>. QED
  BY <1>1, <1>2, <1>3, <1>4, <1>5 DEF Methods

\* To its callers the agent is AgentService: behind 52 pairs of a writer and a
\* reader in each direction every argument arrives as it was given, every
\* result is told as it was stored, and what was asked is performed at most
\* once and in its turn.  Instead and Disconnected name what is not promised:
\* the arguments of three calls, null strings, and the methods of objects.
THEOREM Refinement == Spec => IsService
<1>1. Init => Service!Init
  BY InitIsInit
<1>2. Inv /\ [Next]_vars => [Service!Next]_(Service!vars)
  BY NextIsNext
<1>. QED
  BY <1>1, <1>2, Invariance, PTL DEF Spec, Service!Spec, IsService
=============================================================================
