------------------------------ MODULE PkaChannel ------------------------------
(***************************************************************************)
(* One PkaChannel (perfkit-agent/pka-channel.c): the state machine that    *)
(* starts, mutes and stops a set of sources, and the inferior process that *)
(* it spawns or attaches to.                                               *)
(*                                                                         *)
(* In the agent the main thread makes every call and runs the child watch. *)
(* The methods lock priv->mutex and are documented as thread-safe, so the  *)
(* calling threads are a parameter.  A method is one step but for the      *)
(* three that go on after an unlock: start notifies the sources, and the   *)
(* child watch stops the channel after it has stored the exit status.      *)
(*                                                                         *)
(* A call refused by ENSURE_STATE, or that finds nothing to do, changes    *)
(* nothing: it is a stuttering step and has no action here.                *)
(***************************************************************************)
EXTENDS Naturals, FiniteSets

CONSTANTS
  Sources,   \* the sources that may be added to the channel
  Threads,   \* the threads that call its methods
  Main,      \* the thread of the main loop, which runs the child watch
  Pids,      \* the processes the channel may spawn, a pid each
  External,  \* a process that exists, and that nobody here spawned
  NoPid      \* priv->pid is 0

ASSUME ChannelAssumption ==
  /\ Main \in Threads
  /\ External \notin Pids
  /\ NoPid \notin Pids \cup {External}

VARIABLES
  state,      \* priv->state
  sources,    \* priv->sources
  late,       \* history: the sources added to the run that is on
  running,    \* priv->running of each source
  hasTarget,  \* priv->target is set
  pid,        \* priv->pid
  pidSet,     \* priv->pid_set
  killPid,    \* priv->kill_pid
  exitStatus, \* the process whose status priv->exit_status holds
  processes,  \* the kernel's view of each process
  watches,    \* processes with a child watch on the main loop
  calls,      \* what each thread still has to do after an unlock
  notice,     \* the notification the sources get in this step
  kills       \* history: pids sent SIGKILL, and what they named then

config  == <<hasTarget, pidSet, killPid>>
process == <<pid, exitStatus, processes, watches, kills>>
cvars   == <<state, sources, late, running, config, process, calls, notice>>
-----------------------------------------------------------------------------
States    == {"READY", "RUNNING", "MUTED", "STOPPED", "FAILED"}
Started   == {"RUNNING", "MUTED"}
Notices   == {"none", "reset", "started", "stopped", "muted", "unmuted"}
AllPids   == Pids \cup {External}
Inferiors == {p \in Pids : processes[p] = "alive"}

Say(kind) == notice' = kind
Silent    == Say("none")
Tell(on)  == running' = [s \in Sources |-> IF s \in sources THEN on
                                                            ELSE running[s]]

ChannelInit ==
  /\ state = "READY"
  /\ sources = {}
  /\ late = {}
  /\ running = [s \in Sources |-> FALSE]
  /\ hasTarget = FALSE
  /\ pid = NoPid
  /\ pidSet = FALSE
  /\ killPid = TRUE
  /\ exitStatus = NoPid
  /\ processes = [p \in AllPids |-> IF p = External THEN "alive" ELSE "free"]
  /\ watches = {}
  /\ calls = [t \in Threads |-> "idle"]
  /\ notice = "none"
  /\ kills = {}

(***************************************************************************)
(* Setters.  SET_FIELD_COPY stands for the target, the arguments, the      *)
(* environment and the working directory; only the target decides anything.*)
(***************************************************************************)
SetTarget(t, set) ==
  /\ calls[t] = "idle"
  /\ state = "READY"
  /\ hasTarget' = set
  /\ Silent
  /\ UNCHANGED <<state, sources, late, running, pidSet, killPid, process,
                 calls>>

\* Any pid is stored, 0 and that of a process spawned before among them.
SetPid(t, p) ==
  /\ calls[t] = "idle"
  /\ state = "READY"
  /\ pid' = p
  /\ pidSet' = TRUE
  /\ hasTarget' = FALSE
  /\ Silent
  /\ UNCHANGED <<state, sources, late, running, killPid, exitStatus, processes,
                 watches, kills, calls>>

SetKillPid(t, kill) ==
  /\ calls[t] = "idle"
  /\ killPid' = kill
  /\ Silent
  /\ UNCHANGED <<state, sources, late, running, hasTarget, pidSet, process,
                 calls>>

\* pka_source_set_channel refuses a source that has a channel already.  The
\* source is not told of the channel's state: it is not started if the channel
\* has been, whatever the comment above pka_channel_add_source says.
AddSource(t, s) ==
  /\ calls[t] = "idle"
  /\ s \notin sources
  /\ sources' = sources \cup {s}
  /\ late' = IF state \in Started THEN late \cup {s} ELSE late
  /\ Silent
  /\ UNCHANGED <<state, running, config, process, calls>>

(***************************************************************************)
(* pka_channel_start, under priv->mutex.  A stopped channel resets its     *)
(* sources and is ready again, whatever comes of the rest.                 *)
(***************************************************************************)
StartingUnchecked(t) ==                 \* faulty: no ENSURE_STATE
  /\ calls[t] = "idle"
  /\ Say(IF state = "STOPPED" THEN "reset" ELSE "none")
Starting(t) ==
  /\ calls[t] = "idle"
  /\ state \in {"READY", "STOPPED"}
  /\ Say(IF state = "STOPPED" THEN "reset" ELSE "none")

SpawnsAgain == hasTarget                \* faulty: a known pid is ignored
NeedsSpawn  == pid = NoPid /\ hasTarget

\* A source's modify_spawn_info fails: the channel is left ready.
StartRefused(t) ==
  /\ Starting(t)
  /\ sources # {}
  /\ state' = "READY"
  /\ UNCHANGED <<sources, late, running, config, process, calls>>

StartSpawnFails(t) ==
  /\ Starting(t)
  /\ NeedsSpawn
  /\ state' = "FAILED"
  /\ UNCHANGED <<sources, late, running, config, process, calls>>

Unwatched(p) == watches                 \* faulty: no g_child_watch_add
Watch(p)     == watches \cup {p}

StartSpawns(t, p) ==
  /\ Starting(t)
  /\ NeedsSpawn
  /\ processes[p] = "free"
  /\ processes' = [processes EXCEPT ![p] = "alive"]
  /\ pid' = p
  /\ watches' = Watch(p)
  /\ state' = "RUNNING"
  /\ calls' = [calls EXCEPT ![t] = "notify_started"]
  /\ UNCHANGED <<sources, late, running, config, exitStatus, kills>>

StartAttaches(t) ==
  /\ Starting(t)
  /\ ~NeedsSpawn
  /\ state' = "RUNNING"
  /\ calls' = [calls EXCEPT ![t] = "notify_started"]
  /\ UNCHANGED <<sources, late, running, config, process>>

\* After the unlock: every source of the array is notified.
NotifyStarted(t) ==
  /\ calls[t] = "notify_started"
  /\ Tell(TRUE)
  /\ Say("started")
  /\ calls' = [calls EXCEPT ![t] = "idle"]
  /\ UNCHANGED <<state, sources, late, config, process>>

(***************************************************************************)
(* pka_channel_stop, all of it under priv->mutex.                          *)
(***************************************************************************)
KillsAttached == killPid /\ pid # NoPid \* faulty: pid_set is not looked at
KillsInferior == killPid /\ ~pidSet /\ pid # NoPid

\* What a pid names when it is signalled: 0 is the agent's process group.
Named(p) == IF p = NoPid THEN "agent" ELSE processes[p]

Kill(p) ==
  /\ kills' = kills \cup {<<p, Named(p)>>}
  /\ processes' = [processes EXCEPT ![p] = IF @ = "alive" THEN "zombie" ELSE @]

ToldNothing == UNCHANGED running        \* faulty: stop forgets the sources
TellStopped == Tell(FALSE)

StopStarted ==
  /\ state \in Started
  /\ state' = "STOPPED"
  /\ late' = {}
  /\ TellStopped
  /\ Say("stopped")
  /\ IF KillsInferior THEN Kill(pid) ELSE UNCHANGED <<kills, processes>>
  /\ UNCHANGED <<sources, config, pid, exitStatus, watches>>

Stop(t) ==
  /\ calls[t] = "idle"
  /\ StopStarted
  /\ UNCHANGED calls

Mute(t) ==
  /\ calls[t] = "idle"
  /\ state = "RUNNING"
  /\ state' = "MUTED"
  /\ Say("muted")
  /\ UNCHANGED <<sources, late, running, config, process, calls>>

Unmute(t) ==
  /\ calls[t] = "idle"
  /\ state = "MUTED"
  /\ state' = "RUNNING"
  /\ Say("unmuted")
  /\ UNCHANGED <<sources, late, running, config, process, calls>>

(***************************************************************************)
(* The inferior.  It exits on its own, or is killed; the child watch reaps *)
(* it and runs pka_channel_inferior_exited, which takes the lock twice.    *)
(***************************************************************************)
ProcessExits(p) ==
  /\ processes[p] = "alive"
  /\ processes' = [processes EXCEPT ![p] = "zombie"]
  /\ Silent
  /\ UNCHANGED <<state, sources, late, running, config, pid, exitStatus,
                 watches, kills, calls>>

InferiorExited(p) ==
  /\ calls[Main] = "idle"
  /\ p \in watches
  /\ processes[p] = "zombie"
  /\ processes' = [processes EXCEPT ![p] = "reaped"]
  /\ watches' = watches \ {p}
  /\ exitStatus' = p
  /\ calls' = [calls EXCEPT ![Main] = "exited"]
  /\ Silent
  /\ UNCHANGED <<state, sources, late, running, config, pid, kills>>

\* pka_channel_stop returns early unless the channel is started.
StopExited ==
  /\ calls[Main] = "exited"
  /\ calls' = [calls EXCEPT ![Main] = "idle"]
  /\ \/ StopStarted
     \/ /\ state \notin Started
        /\ Silent
        /\ UNCHANGED <<state, sources, late, running, config, process>>
-----------------------------------------------------------------------------
Configure(t) ==
  \/ \E set \in BOOLEAN : SetTarget(t, set) \/ SetKillPid(t, set)
  \/ \E p \in AllPids \cup {NoPid} : SetPid(t, p)
  \/ \E s \in Sources : AddSource(t, s)

Start(t) ==
  \/ StartRefused(t)
  \/ StartSpawnFails(t)
  \/ \E p \in Pids : StartSpawns(t, p)
  \/ StartAttaches(t)

Call(t) ==
  \/ Configure(t)
  \/ Start(t)
  \/ Stop(t)
  \/ Mute(t)
  \/ Unmute(t)

ChannelNext ==
  \/ \E t \in Threads : Call(t) \/ NotifyStarted(t)
  \/ \E p \in AllPids : ProcessExits(p)
  \/ \E p \in Pids : InferiorExited(p)
  \/ StopExited

ChannelSpec == ChannelInit /\ [][ChannelNext]_cvars

\* A thread that is in a call goes on with it, and the main loop runs the
\* watch of a process that has exited.  No one has to call anything.
ChannelFairness ==
  /\ \A t \in Threads : WF_cvars(NotifyStarted(t))
  /\ WF_cvars(StopExited)
  /\ \A p \in Pids : SF_cvars(InferiorExited(p))

FairChannelSpec == ChannelSpec /\ ChannelFairness
-----------------------------------------------------------------------------
ChannelTypeOK ==
  /\ state \in States
  /\ sources \subseteq Sources
  /\ late \subseteq sources
  /\ running \in [Sources -> BOOLEAN]
  /\ hasTarget \in BOOLEAN
  /\ pid \in AllPids \cup {NoPid}
  /\ pidSet \in BOOLEAN
  /\ killPid \in BOOLEAN
  /\ exitStatus \in Pids \cup {NoPid}
  /\ processes \in [AllPids -> {"free", "alive", "zombie", "reaped"}]
  /\ watches \subseteq Pids
  /\ calls \in [Threads -> {"idle", "notify_started", "exited"}]
  /\ notice \in Notices
  /\ kills \subseteq AllPids \X {"free", "alive", "zombie", "reaped"}

(***************************************************************************)
(* No source runs in a channel that is ready, stopped or failed, whatever  *)
(* one thread has called and whenever the inferior exited.  (A second      *)
(* thread can stop the channel before pka_channel_start has notified the   *)
(* sources, pka-channel.c:815, and is not asked about: the agent has one.) *)
(***************************************************************************)
NoSourceLeftRunning == state \notin Started => \A s \in Sources : ~running[s]

(***************************************************************************)
(* Until a caller sets a pid, the only process that can be alive is the    *)
(* one in priv->pid: however often the channel is stopped without a kill,  *)
(* refused and started again, no inferior is lost sight of and none is     *)
(* spawned beside another.  (set_pid(0) makes the channel forget one.)     *)
(***************************************************************************)
InferiorIsKnown == ~pidSet => Inferiors \subseteq {pid}

(***************************************************************************)
(* A process that was attached with pka_channel_set_pid is never killed,   *)
(* in whatever order the pid, kill_pid and the state were changed.         *)
(***************************************************************************)
AttachedIsSpared == \A k \in kills : k[1] # External

(***************************************************************************)
(* pka_channel_inferior_exited stops the channel: one that is started when *)
(* its inferior exits does not stay started.                               *)
(***************************************************************************)
ExitStopsChannel ==
  \A p \in Pids :
    processes[p] = "zombie" /\ state \in Started ~> state \notin Started

(***************************************************************************)
(* The channel keeps what ChannelLifecycle promises.  A run begins when    *)
(* pka_channel_start has notified the sources, not when it sets the state. *)
(*                                                                         *)
(* One promise it does not keep: pka-channel.c:530 and pk-connection.c:259 *)
(* say that a source added to a started channel is started at once, and    *)
(* nothing starts it.  Those sources are exempted, by name: a late one is  *)
(* no member of the run that is on, and becomes one when that run ends.    *)
(***************************************************************************)
NotifyPending == \E t \in Threads : calls[t] = "notify_started"

Phase ==
  IF NotifyPending
  THEN "idle"
  ELSE CASE state = "READY"   -> "idle"
         [] state = "RUNNING" -> "active"
         [] state = "MUTED"   -> "quiet"
         [] state = "STOPPED" -> "over"
         [] state = "FAILED"  -> "failed"

Lifecycle == INSTANCE ChannelLifecycle WITH
  phase   <- Phase,
  members <- sources \ late,
  active  <- {s \in Sources : running[s]}

KeepsLifecycle == Lifecycle!Spec

(***************************************************************************)
(* pka_channel_stop: "Kill the process only if settings permit and we      *)
(* spawned the process outself": the pid it kills still names that process.*)
(***************************************************************************)
KillsOwnProcess == \A k \in kills : k[2] # "reaped"
=============================================================================
