----------------------------- MODULE AgentService -----------------------------
(***************************************************************************)
(* What the agent promises to the programs that call it, without the       *)
(* library, the bus and the messages between them.  A caller asks for a    *)
(* procedure; what it asked for is performed at most once, with the        *)
(* arguments that it gave, in the order in which that caller asked; the    *)
(* outcome that it is told is the outcome of that performance.  A caller   *)
(* that has waited too long is told that the call failed, and what it      *)
(* asked for may be performed nevertheless.  A program that cancels a call *)
(* before it is answered ends.                                             *)
(*                                                                         *)
(* Who keeps less than this has to name it: Instead is what a call may be  *)
(* performed with in place of its own arguments, Refused are the calls     *)
(* that may be turned away.  With Instead == {} and nothing refused the    *)
(* promise is kept in full.                                                *)
(***************************************************************************)
EXTENDS Naturals, Sequences, PkValues

CONSTANTS
  \* The procedures, and what becomes of the agent without being asked to.
  Performed(_, _, _, _),
  pka_channel_inferior_exited(_, _, _),
  pka_manager_shutdown(_),
  FirstAgent,    \* the agent at the start
  Announced(_),  \* the plugins that callers are told of
  Read(_, _),    \* Read(op, r): what a caller is told of the result r
  Instead(_),    \* exempted: other arguments that a call may arrive with
  Refused(_),    \* exempted: the calls that may be turned away unasked
  Callers,
  Wanted,        \* Wanted[c]: the calls [op, in] that c may make
  Spawned,       \* what g_spawn_async may give: process numbers, and 0
  ExitStatuses,
  MaxCalls       \* MaxCalls[c]: bound on the calls of c

VARIABLES
  agent,
  alive,   \* the agent runs
  queue,   \* queue[c]: what c asked for and has not been performed
  asked,   \* asked[c]: what c is waiting for, and what it is to be told
  calls    \* the number of calls of each caller

vars == <<agent, alive, queue, asked, calls>>

Failure == [ok |-> FALSE, out |-> <<>>]

\* A call goes to an object that has been announced, and there are none for
\* encoders.  Every procedure but those of a plugin looks its object up again.
PluginProcedures == {"plugin_get_copyright", "plugin_get_description",
                     "plugin_get_name", "plugin_get_plugin_type",
                     "plugin_get_version"}
Reachable(want) ==
  /\ want.op \in PluginProcedures => Announced(want.in[1])
  /\ want.op # "encoder_get_plugin"

Idle == [stage |-> "idle"]
Waiting(want)  == [stage |-> "waiting", want |-> want]
Answer(out)    == [stage |-> "answered", outcome |-> out]
Told(out)      == [stage |-> "told", outcome |-> out]
Ended          == [stage |-> "ended"]

Init ==
  /\ agent = FirstAgent
  /\ alive = TRUE
  /\ queue = [c \in Callers |-> <<>>]
  /\ asked = [c \in Callers |-> Idle]
  /\ calls = [c \in Callers |-> 0]

MayCall(c) == /\ asked[c].stage \in {"idle", "told"}
              /\ calls[c] < MaxCalls[c]
              /\ calls' = [calls EXCEPT ![c] = @ + 1]

Ask(c) ==
  /\ MayCall(c)
  /\ IF alive
     THEN \E want \in Wanted[c] :
            /\ queue' = [queue EXCEPT ![c] = Append(@, want)]
            /\ asked' = [asked EXCEPT ![c] = Waiting(want)]
     ELSE /\ asked' = [asked EXCEPT ![c] = Answer(Failure)]
          /\ UNCHANGED queue
  /\ UNCHANGED <<agent, alive>>

\* The call is turned away, and nothing is asked.
Refuse(c) ==
  /\ MayCall(c)
  /\ \E want \in Wanted[c] : Refused(want)
  /\ asked' = [asked EXCEPT ![c] = Told(Failure)]
  /\ UNCHANGED <<agent, alive, queue>>

\* The caller only learns of what it is still waiting for.
Outcome(c, outcome) ==
  asked' = IF asked[c].stage = "waiting" /\ Len(queue[c]) = 1
           THEN [asked EXCEPT ![c] = Answer(outcome)]
           ELSE asked

Perform(c) ==
  /\ alive
  /\ queue[c] # <<>>
  /\ queue' = [queue EXCEPT ![c] = Tail(@)]
  /\ LET want == Head(queue[c])
     IN  IF Reachable(want)
         THEN \E in \in {want.in} \cup Instead(want), spawned \in Spawned :
                LET r == Performed(agent, want.op, in, spawned)
                IN  agent' = r.agent /\ Outcome(c, Read(want.op, r))
         ELSE UNCHANGED agent /\ Outcome(c, Failure)
  /\ UNCHANGED <<alive, calls>>

GiveUp(c) ==
  /\ asked[c].stage \in {"waiting", "answered"}
  /\ asked' = [asked EXCEPT ![c] = Answer(Failure)]
  /\ UNCHANGED <<agent, alive, queue, calls>>

Cancel(c) ==
  /\ asked[c].stage \in {"waiting", "answered"}
  /\ asked' = [asked EXCEPT ![c] = Ended]
  /\ UNCHANGED <<agent, alive, queue, calls>>

Tell(c) ==
  /\ asked[c].stage = "answered"
  /\ asked' = [asked EXCEPT ![c] = Told(@.outcome)]
  /\ UNCHANGED <<agent, alive, queue, calls>>

Exited(channel, status) ==
  /\ alive
  /\ channel \in DOMAIN agent.channels
  /\ agent.channels[channel].watched
  /\ agent' = pka_channel_inferior_exited(agent, channel, status)
  /\ UNCHANGED <<alive, queue, asked, calls>>

\* When the agent ends it stops what it started, and drops what is in its
\* queues; some answers are lost on their way.
Quit ==
  /\ alive
  /\ agent' = pka_manager_shutdown(agent)
  /\ alive' = FALSE
  /\ queue' = [c \in Callers |-> <<>>]
  /\ \E lost \in SUBSET {c \in Callers : asked[c].stage = "answered"} :
       asked' = [c \in Callers |->
                   IF asked[c].stage = "waiting" \/ c \in lost
                   THEN Answer(Failure) ELSE asked[c]]
  /\ UNCHANGED calls

Next ==
  \/ \E c \in Callers :
       \/ Ask(c)
       \/ Refuse(c)
       \/ Perform(c)
       \/ GiveUp(c)
       \/ Cancel(c)
       \/ Tell(c)
  \/ \E channel \in DOMAIN agent.channels, status \in ExitStatuses :
       Exited(channel, status)
  \/ Quit

Spec == Init /\ [][Next]_vars
=============================================================================
