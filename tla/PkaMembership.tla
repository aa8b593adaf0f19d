---------------------------- MODULE PkaMembership ----------------------------
(***************************************************************************)
(* Who observes what, and what keeps it alive: the subscriptions of the    *)
(* agent (perfkit-agent/pka-subscription.c), the sources and channels they *)
(* observe, and the registries that RPCs find them in                      *)
(* (perfkit-agent/pka-manager.c).                                          *)
(*                                                                         *)
(* Every action is an RPC: the handler (pka-listener.c) finds the objects  *)
(* by number, which takes a reference on each, calls one operation and     *)
(* drops the references.  All of it is one step of the main thread.  The   *)
(* sampling thread only reads what is here; PkaSource shows what it does.  *)
(*                                                                         *)
(* A membership is kept four times: in the trees of the subscription, in   *)
(* the array of the source, as a reference on the subscription and, for a  *)
(* channel, as a signal handler that holds the subscription's address and  *)
(* no reference.                                                           *)
(***************************************************************************)
EXTENDS Naturals, FiniteSets

CONSTANTS
  Subscriptions,
  Sources,
  Channels,
  NoChannel,   \* a NULL PkaChannel
  MaxEntries,  \* bound: entries a subscription has in the array of a source
  MaxRefs      \* bound: references on a subscription

ASSUME MembershipAssumption ==
  /\ IsFiniteSet(Sources)
  /\ NoChannel \notin Channels
  /\ MaxEntries \in Nat
  /\ MaxRefs \in Nat

VARIABLES
  created,    \* subscriptions that have been created; a number is used once
  registered, \* manager.subscriptions
  refs,       \* subscription->ref_count
  observed,   \* subscription->sources: a tree, one node per source
  followed,   \* subscription->channels: a tree, one node per channel
  made,       \* sources that have been created
  published,  \* manager.sources
  home,       \* priv->channel of a source, which is in that channel's array
  entries,    \* priv->subscriptions of a source: how often each is in it
  connected,  \* handlers of "source-added" and "source-removed" per channel
  left        \* history: <<s, r>> once the client took r out of s

subscriptionVars == <<created, registered, refs, observed, followed>>
sourceVars       == <<made, published, home>>
mvars == <<subscriptionVars, sourceVars, entries, connected, left>>
-----------------------------------------------------------------------------
Alive(s)  == refs[s] > 0
Member(c) == {r \in Sources : home[r] = c}
One(b)    == IF b THEN 1 ELSE 0

\* What holds a reference on a source; the last one to go finalizes it.
Kept(r) == \/ r \in published'
           \/ home'[r] # NoChannel
           \/ \E s \in Subscriptions : r \in observed'[s]

\* pka_source_finalize drops the array and not what its entries refer to.
Finalize(counts) ==
  entries' = [r \in Sources |-> IF Kept(r)
                                THEN counts[r]
                                ELSE [s \in Subscriptions |-> 0]]

Init ==
  /\ created = {}
  /\ registered = {}
  /\ refs = [s \in Subscriptions |-> 0]
  /\ observed = [s \in Subscriptions |-> {}]
  /\ followed = [s \in Subscriptions |-> {}]
  /\ made = {}
  /\ published = {}
  /\ home = [r \in Sources |-> NoChannel]
  /\ entries = [r \in Sources |-> [s \in Subscriptions |-> 0]]
  /\ connected = [c \in Channels |-> [s \in Subscriptions |-> 0]]
  /\ left = {}

(***************************************************************************)
(* pka_subscription_add_source and pka_subscription_remove_source, applied *)
(* to the sources in adds or takes.  Adding inserts a node, which replaces *)
(* one for the same source, and appends an entry with its reference;       *)
(* taking out removes one entry, its reference and the node.               *)
(***************************************************************************)
Observe(s, adds) ==
  /\ \A r \in adds : entries[r][s] < MaxEntries
  /\ observed' = [observed EXCEPT ![s] = @ \cup adds]
  /\ entries' = [r \in Sources |->
                   [entries[r] EXCEPT ![s] = @ + One(r \in adds)]]
  /\ refs' = [refs EXCEPT ![s] = @ + Cardinality(adds)]
  /\ refs'[s] <= MaxRefs

UnrefsAlways(s, takes) == Cardinality(takes) \* faulty: unref without a match
Unrefs(s, takes) == Cardinality({r \in takes : entries[r][s] > 0})

KeepsNodes(s, takes) == observed[s]          \* faulty: no g_tree_remove
WithoutNodes(s, takes) == observed[s] \ takes

Forget(s, takes) ==
  /\ observed' = [observed EXCEPT ![s] = WithoutNodes(s, takes)]
  /\ entries' = [r \in Sources |->
                   [entries[r] EXCEPT ![s] =
                      @ - One(r \in takes /\ entries[r][s] > 0)]]
  /\ refs' = [refs EXCEPT ![s] = @ - Unrefs(s, takes)]

(***************************************************************************)
(* Subscriptions.                                                          *)
(***************************************************************************)
ManagerAddSubscription(s) ==
  /\ s \notin created
  /\ created' = created \cup {s}
  /\ registered' = registered \cup {s}
  /\ refs' = [refs EXCEPT ![s] = 1]
  /\ UNCHANGED <<observed, followed, sourceVars, entries, connected, left>>

\* The registry's reference goes; a subscription nobody else holds is
\* destroyed with its trees.  Its sources and channels are told nothing.
ManagerRemoveSubscription(s) ==
  /\ s \in registered
  /\ registered' = registered \ {s}
  /\ refs' = [refs EXCEPT ![s] = @ - 1]
  /\ observed' = [observed EXCEPT ![s] = IF refs'[s] = 0 THEN {} ELSE @]
  /\ followed' = [followed EXCEPT ![s] = IF refs'[s] = 0 THEN {} ELSE @]
  /\ UNCHANGED sourceVars
  /\ Finalize(entries)
  /\ UNCHANGED <<created, connected, left>>

SubscriptionAddSource(s, r) ==
  /\ s \in registered /\ r \in published
  /\ Observe(s, {r})
  /\ left' = left \ {<<s, r>>}
  /\ UNCHANGED <<created, registered, followed, sourceVars, connected>>

SubscriptionRemoveSource(s, r) ==
  /\ s \in registered /\ r \in published
  /\ Forget(s, {r})
  /\ left' = left \cup {<<s, r>>}
  /\ UNCHANGED <<created, registered, followed, sourceVars, connected>>

NewcomersOnly(s, c) == {}           \* faulty: only sources still to come
Joins(s, c) == Member(c)

SubscriptionAddChannel(s, c) ==
  /\ s \in registered
  /\ connected[c][s] < MaxEntries
  /\ followed' = [followed EXCEPT ![s] = @ \cup {c}]
  /\ connected' = [connected EXCEPT ![c][s] = @ + 1]
  /\ Observe(s, Joins(s, c))
  /\ left' = left \ ({s} \X Member(c))
  /\ UNCHANGED <<created, registered, sourceVars>>

DisconnectsOne(n) ==                \* faulty: one of several stays
  IF n > 0 THEN n - 1 ELSE 0
Disconnects(n) == 0

\* g_signal_handlers_disconnect_by_func takes out every match.
SubscriptionRemoveChannel(s, c) ==
  /\ s \in registered
  /\ connected' = [connected EXCEPT ![c][s] = Disconnects(@)]
  /\ Forget(s, Member(c))
  /\ followed' = [followed EXCEPT ![s] = @ \ {c}]
  /\ left' = left \cup ({s} \X Member(c))
  /\ UNCHANGED <<created, registered, sourceVars>>

\* SetHandler of a client without a delivery path: the early return keeps
\* the reference that finding the subscription took.
SetHandlerRefused(s) ==
  /\ s \in registered
  /\ refs[s] < MaxRefs
  /\ refs' = [refs EXCEPT ![s] = @ + 1]
  /\ UNCHANGED <<created, registered, observed, followed, sourceVars, entries,
                 connected, left>>

(***************************************************************************)
(* Sources and channels.  No RPC takes a channel out of the registry, or a *)
(* source out of its channel.                                              *)
(***************************************************************************)
ManagerAddSource(r) ==
  /\ r \notin made
  /\ made' = made \cup {r}
  /\ published' = published \cup {r}
  /\ UNCHANGED <<subscriptionVars, home, entries, connected, left>>

ManagerRemoveSource(r) ==
  /\ r \in published
  /\ published' = published \ {r}
  /\ UNCHANGED <<made, home, subscriptionVars>>
  /\ Finalize(entries)
  /\ UNCHANGED <<connected, left>>

\* Every handler of "source-added" adds the source to its subscription.  If
\* that has been destroyed what follows is undefined; a build that survives
\* it leaves the living ones as they should be.
ChannelAddSource(c, r) ==
  /\ r \in published
  /\ home[r] = NoChannel
  /\ home' = [home EXCEPT ![r] = c]
  /\ LET told == {s \in Subscriptions : connected[c][s] > 0 /\ Alive(s)}
         more == [s \in Subscriptions |->
                    IF s \in told THEN connected[c][s] ELSE 0]
     IN  /\ observed' = [s \in Subscriptions |->
                           observed[s] \cup (IF s \in told THEN {r} ELSE {})]
         /\ entries' = [entries EXCEPT ![r] =
                          [s \in Subscriptions |-> @[s] + more[s]]]
         /\ refs' = [s \in Subscriptions |-> refs[s] + more[s]]
         /\ left' = left \ (told \X {r})
  /\ \A s \in Subscriptions : entries'[r][s] <= MaxEntries
                              /\ refs'[s] <= MaxRefs
  /\ UNCHANGED <<created, registered, followed, made, published, connected>>
-----------------------------------------------------------------------------
Next ==
  \/ \E s \in Subscriptions :
       \/ ManagerAddSubscription(s)
       \/ ManagerRemoveSubscription(s)
       \/ SetHandlerRefused(s)
       \/ \E r \in Sources : SubscriptionAddSource(s, r)
       \/ \E r \in Sources : SubscriptionRemoveSource(s, r)
       \/ \E c \in Channels : SubscriptionAddChannel(s, c)
       \/ \E c \in Channels : SubscriptionRemoveChannel(s, c)
  \/ \E r \in Sources :
       \/ ManagerAddSource(r)
       \/ ManagerRemoveSource(r)
       \/ \E c \in Channels : ChannelAddSource(c, r)

Spec == Init /\ [][Next]_mvars
-----------------------------------------------------------------------------
TypeOK ==
  /\ registered \subseteq created /\ created \subseteq Subscriptions
  /\ refs \in [Subscriptions -> Nat]
  /\ observed \in [Subscriptions -> SUBSET Sources]
  /\ followed \in [Subscriptions -> SUBSET Channels]
  /\ published \subseteq made /\ made \subseteq Sources
  /\ home \in [Sources -> Channels \cup {NoChannel}]
  /\ entries \in [Sources -> [Subscriptions -> 0 .. MaxEntries]]
  /\ connected \in [Channels -> [Subscriptions -> Nat]]
  /\ left \subseteq Subscriptions \X Sources

(***************************************************************************)
(* A subscription is not destroyed while the registry or a source still    *)
(* has it: every one of them has a reference of its own, however often it  *)
(* was added, directly and through channels, and taken out again.          *)
(***************************************************************************)
Entries(s) ==
  {e \in Sources \X (1 .. MaxEntries) : e[2] <= entries[e[1]][s]}
Holders(s) == One(s \in registered) + Cardinality(Entries(s))
HeldIsAlive == \A s \in Subscriptions : refs[s] >= Holders(s)

(***************************************************************************)
(* What pka_subscription_get_sources answers is true: a source it lists    *)
(* has the subscription in its array, and is not finalized.                *)
(***************************************************************************)
ListedIsObserved ==
  \A s \in Subscriptions : \A r \in observed[s] : entries[r][s] > 0

(***************************************************************************)
(* The channels a subscription lists and the channels that would tell it   *)
(* of a new source are the same, also when it added one twice.             *)
(***************************************************************************)
ListedChannelTells ==
  \A s \in Subscriptions, c \in Channels :
    Alive(s) => (c \in followed[s] <=> connected[c][s] > 0)

(***************************************************************************)
(* pka_subscription_add_channel: the sources a channel has and those it    *)
(* gets later are observed alike, until the client takes one of them out.  *)
(***************************************************************************)
FollowsChannel ==
  \A s \in Subscriptions, r \in Sources :
    /\ Alive(s)
    /\ home[r] \in followed[s]
    /\ <<s, r>> \notin left
    => entries[r][s] > 0
=============================================================================
