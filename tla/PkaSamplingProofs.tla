--------------------------- MODULE PkaSamplingProofs ---------------------------
(***************************************************************************)
(* Proofs about PkaChannel and PkaSampling.                                *)
(*                                                                         *)
(* The channel, for any sources, processes and, where it is not said       *)
(* otherwise, any calling threads: the type invariant, what is killed and  *)
(* that no inferior is lost; and, for calls from one thread, that no       *)
(* source is left running and that ChannelLifecycle is kept.               *)
(*                                                                         *)
(* Sampling, for any number of sources, subscriptions and queued events,   *)
(* when one thread makes the calls, as in the agent: what a source still   *)
(* has to emit always leads to the right number of entries in the shared   *)
(* list, however mutes, automatic mutes and stops were mixed.              *)
(***************************************************************************)
EXTENDS PkaSampling, SequenceTheorems, TLAPS

-----------------------------------------------------------------------------
(* Types.                                                                  *)

LEMMA ChannelInitTypes == ChannelInit => ChannelTypeOK
BY ChannelAssumption
   DEF ChannelInit, ChannelTypeOK, States, Notices, AllPids

LEMMA StopStartedTypes ==
  ASSUME ChannelTypeOK, StopStarted,
         calls' \in [Threads -> {"idle", "notify_started", "exited"}],
         UNCHANGED config
  PROVE  ChannelTypeOK'
<1>1. running' \in [Sources -> BOOLEAN]
  BY DEF ChannelTypeOK, StopStarted, TellStopped, Tell
<1>2. /\ processes' \in [AllPids -> {"free", "alive", "zombie", "reaped"}]
      /\ kills' \subseteq AllPids \X {"free", "alive", "zombie", "reaped"}
  <2>1. CASE KillsInferior
    <3>1. pid \in AllPids
      BY <2>1 DEF KillsInferior, ChannelTypeOK
    <3>2. Named(pid) \in {"free", "alive", "zombie", "reaped"}
      BY <2>1, <3>1 DEF Named, KillsInferior, ChannelTypeOK
    <3>3. QED
      BY <2>1, <3>1, <3>2 DEF StopStarted, Kill, ChannelTypeOK
  <2>2. CASE ~KillsInferior
    BY <2>2 DEF StopStarted, ChannelTypeOK
  <2>3. QED
    BY <2>1, <2>2
<1>3. QED
  BY <1>1, <1>2
     DEF ChannelTypeOK, StopStarted, States, Notices, Say, config

LEMMA ChannelNextTypes == ChannelTypeOK /\ [ChannelNext]_cvars => ChannelTypeOK'
<1> SUFFICES ASSUME ChannelTypeOK, [ChannelNext]_cvars
             PROVE  ChannelTypeOK'
  OBVIOUS
<1> USE DEF ChannelTypeOK, Say, Silent, Notices, States, config, process
<1>1. ASSUME NEW t \in Threads, Configure(t)
      PROVE  ChannelTypeOK'
  BY <1>1 DEF Configure, SetTarget, SetPid, SetKillPid, AddSource, AllPids
<1>2. ASSUME NEW t \in Threads, Start(t)
      PROVE  ChannelTypeOK'
  BY <1>2 DEF Start, StartRefused, StartSpawnFails, StartSpawns,
              StartAttaches, Starting, Watch, AllPids
<1>3. ASSUME NEW t \in Threads, Stop(t)
      PROVE  ChannelTypeOK'
  <2>1. StopStarted /\ UNCHANGED <<config, calls>>
    BY <1>3 DEF Stop, StopStarted
  <2>2. QED
    BY <2>1, StopStartedTypes
<1>4. ASSUME NEW t \in Threads, Mute(t) \/ Unmute(t) \/ NotifyStarted(t)
      PROVE  ChannelTypeOK'
  BY <1>4 DEF Mute, Unmute, NotifyStarted, Tell
<1>5. ASSUME NEW p \in AllPids, ProcessExits(p)
      PROVE  ChannelTypeOK'
  BY <1>5 DEF ProcessExits
<1>6. ASSUME NEW p \in Pids, InferiorExited(p)
      PROVE  ChannelTypeOK'
  BY <1>6 DEF InferiorExited, AllPids
<1>7. CASE StopExited
  <2>1. calls' \in [Threads -> {"idle", "notify_started", "exited"}]
    BY <1>7 DEF StopExited
  <2>2. CASE StopStarted
    <3>1. UNCHANGED config
      BY <2>2 DEF StopStarted
    <3>2. QED
      BY <2>1, <2>2, <3>1, StopStartedTypes
  <2>3. CASE /\ UNCHANGED <<state, sources, late, running, config, process>>
             /\ Silent
    BY <2>1, <2>3
  <2>4. QED
    BY <1>7, <2>2, <2>3 DEF StopExited
<1>8. CASE UNCHANGED cvars
  BY <1>8 DEF cvars
<1>9. QED
  BY <1>1, <1>2, <1>3, <1>4, <1>5, <1>6, <1>7, <1>8 DEF ChannelNext, Call

(***************************************************************************)
(* Every state of a channel is well typed: in particular a pid that is     *)
(* killed is one the channel has.                                          *)
(***************************************************************************)
THEOREM ChannelTypes == ChannelSpec => []ChannelTypeOK
BY ChannelInitTypes, ChannelNextTypes, PTL DEF ChannelSpec

-----------------------------------------------------------------------------
(* The inferior.                                                           *)

\* Until a caller sets the pid, it is known once something was spawned, and
\* nothing else lives; and nothing attached was killed.
ProcessInv ==
  /\ pid = External => pidSet
  /\ \A p \in Pids : processes[p] # "free" /\ ~pidSet => pid # NoPid
  /\ InferiorIsKnown
  /\ AttachedIsSpared

LEMMA StopStartedKeepsProcessInv ==
  ASSUME ChannelTypeOK, ProcessInv, StopStarted, UNCHANGED pidSet
  PROVE  ProcessInv'
<1>1. CASE KillsInferior
  <2>1. pid # External /\ pid \in AllPids
    BY <1>1 DEF KillsInferior, ProcessInv, ChannelTypeOK
  <2>2. AttachedIsSpared'
    BY <1>1, <2>1 DEF StopStarted, Kill, ProcessInv, AttachedIsSpared
  <2>3. Inferiors' \subseteq Inferiors
    BY <1>1 DEF StopStarted, Kill, Inferiors, ChannelTypeOK, AllPids
  <2>4. \A p \in Pids : processes'[p] # "free" => processes[p] # "free"
    BY <1>1 DEF StopStarted, Kill, ChannelTypeOK, AllPids
  <2>5. pid' = pid
    BY DEF StopStarted
  <2>6. QED
    BY <2>2, <2>3, <2>4, <2>5 DEF ProcessInv, InferiorIsKnown
<1>2. CASE ~KillsInferior
  BY <1>2 DEF StopStarted, ProcessInv, AttachedIsSpared, InferiorIsKnown,
              Inferiors
<1>3. QED
  BY <1>1, <1>2

LEMMA ProcessInvStep ==
  ChannelTypeOK /\ ProcessInv /\ [ChannelNext]_cvars => ProcessInv'
<1> SUFFICES ASSUME ChannelTypeOK, ProcessInv, [ChannelNext]_cvars
             PROVE  ProcessInv'
  OBVIOUS
<1> DEFINE Same == UNCHANGED <<pid, pidSet, processes, kills>>
<1>1. CASE Same
  BY <1>1 DEF ProcessInv, AttachedIsSpared, InferiorIsKnown, Inferiors
<1>2. ASSUME NEW t \in Threads, Configure(t)
      PROVE  ProcessInv'
  <2> DEFINE Sets == \E p \in AllPids \cup {NoPid} : SetPid(t, p)
  <2>1. CASE Sets
    BY <2>1 DEF SetPid, ProcessInv, AttachedIsSpared, InferiorIsKnown
  <2>2. CASE ~Sets
    <3>1. Same
      BY <1>2, <2>2 DEF Configure, SetTarget, SetKillPid, AddSource,
                        config, process
    <3>2. QED
      BY <1>1, <3>1
  <2>3. QED
    BY <2>1, <2>2
\* A process is spawned for a channel without a pid: if nobody has set it,
\* none was before.
<1>3. ASSUME NEW t \in Threads, NEW p \in Pids, StartSpawns(t, p)
      PROVE  ProcessInv'
  <2>1. pid = NoPid /\ pid' = p /\ p # External /\ p # NoPid
    BY <1>3, ChannelAssumption DEF StartSpawns, NeedsSpawn
  <2>2. InferiorIsKnown'
    <3> SUFFICES ASSUME ~pidSet'
                 PROVE  Inferiors' \subseteq {p}
      BY <2>1 DEF InferiorIsKnown
    <3>1. \A q \in Pids : processes[q] = "free"
      BY <1>3, <2>1 DEF ProcessInv, StartSpawns, config
    <3>2. QED
      BY <1>3, <3>1 DEF StartSpawns, Inferiors, ChannelTypeOK, AllPids
  <2>3. \A q \in Pids : processes'[q] # "free" /\ ~pidSet' => pid' # NoPid
    BY <2>1
  <2>4. AttachedIsSpared'
    BY <1>3 DEF StartSpawns, ProcessInv, AttachedIsSpared
  <2>5. QED
    BY <2>1, <2>2, <2>3, <2>4 DEF ProcessInv
<1>4. ASSUME NEW t \in Threads,
             \/ StartRefused(t) \/ StartSpawnFails(t) \/ StartAttaches(t)
             \/ Mute(t) \/ Unmute(t) \/ NotifyStarted(t)
      PROVE  ProcessInv'
  <2>1. Same
    BY <1>4 DEF StartRefused, StartSpawnFails, StartAttaches, Mute, Unmute,
                NotifyStarted, config, process
  <2>2. QED
    BY <1>1, <2>1
<1>5. CASE StopStarted
  BY <1>5, StopStartedKeepsProcessInv DEF StopStarted, config
\* A process that exits, or is reaped, was alive, or had been: it was known.
<1>6. ASSUME NEW p \in AllPids, NEW to \in {"zombie", "reaped"},
             processes[p] # "free",
             processes' = [processes EXCEPT ![p] = to],
             UNCHANGED <<pid, pidSet, kills>>
      PROVE  ProcessInv'
  <2>1. Inferiors' \subseteq Inferiors
    BY <1>6 DEF Inferiors, ChannelTypeOK, AllPids
  <2>2. \A q \in Pids : processes'[q] # "free" => processes[q] # "free"
    BY <1>6 DEF ChannelTypeOK, AllPids
  <2>3. QED
    BY <1>6, <2>1, <2>2 DEF ProcessInv, AttachedIsSpared, InferiorIsKnown
<1>7. ASSUME NEW p \in AllPids, ProcessExits(p)
      PROVE  ProcessInv'
  BY <1>6, <1>7 DEF ProcessExits, config
<1>8. ASSUME NEW p \in Pids, InferiorExited(p)
      PROVE  ProcessInv'
  BY <1>6, <1>8 DEF InferiorExited, config, AllPids
<1>9. CASE StopExited
  BY <1>1, <1>5, <1>9 DEF StopExited, config, process
<1>10. CASE UNCHANGED cvars
  BY <1>1, <1>10 DEF cvars, config, process
<1>11. QED
  BY <1>2, <1>3, <1>4, <1>5, <1>7, <1>8, <1>9, <1>10
     DEF ChannelNext, Call, Start, Stop

LEMMA ProcessInvariant == ChannelSpec => []ProcessInv
<1>1. ChannelInit => ProcessInv
  BY ChannelAssumption
     DEF ChannelInit, ProcessInv, AttachedIsSpared, InferiorIsKnown,
         Inferiors, AllPids
<1>2. QED
  BY <1>1, ChannelTypes, ProcessInvStep, PTL DEF ChannelSpec

(***************************************************************************)
(* Whichever threads call, and in whatever order, a process that was       *)
(* attached is never killed.                                               *)
(***************************************************************************)
THEOREM AttachedIsNeverKilled == ChannelSpec => []AttachedIsSpared
<1>1. ProcessInv => AttachedIsSpared
  BY DEF ProcessInv
<1>2. QED
  BY <1>1, ProcessInvariant, PTL

(***************************************************************************)
(* Whichever threads call, and however often the channel is started: until *)
(* a caller sets its pid, nothing but the process in priv->pid is alive of *)
(* what the channel has spawned.                                           *)
(***************************************************************************)
THEOREM InferiorStaysKnown == ChannelSpec => []InferiorIsKnown
<1>1. ProcessInv => InferiorIsKnown
  BY DEF ProcessInv
<1>2. QED
  BY <1>1, ProcessInvariant, PTL

-----------------------------------------------------------------------------
(* The sources, when one thread makes every call, as in the agent.         *)

\* Only sources of the channel run; between the unlock of start and its
\* notifications the channel is running and its sources are not, and none is
\* late until they have been.
RunInv ==
  /\ \A s \in Sources : running[s] => s \in sources
  /\ NotifyPending => state = "RUNNING"
  /\ state \notin Started \/ NotifyPending =>
       late = {} /\ \A s \in Sources : ~running[s]

OneThread == Threads = {Main}

LEMMA PendingIsMain ==
  ASSUME OneThread
  PROVE  /\ NotifyPending <=> calls[Main] = "notify_started"
         /\ NotifyPending' <=> calls'[Main] = "notify_started"
BY DEF OneThread, NotifyPending

\* A call that leaves the sources alone begins with none of them running, or
\* leaves the channel started.
LEMMA RunInvCalm ==
  ASSUME RunInv, UNCHANGED running, sources \subseteq sources',
         late' = late \/ (state' \in Started /\ ~NotifyPending'),
         NotifyPending' => state' = "RUNNING",
         state' \notin Started \/ NotifyPending' =>
           state \notin Started \/ NotifyPending
  PROVE  RunInv'
BY DEF RunInv

LEMMA RunInvStopStarted ==
  ASSUME ChannelTypeOK, RunInv, StopStarted, ~NotifyPending'
  PROVE  RunInv'
<1>1. late' = {} /\ \A s \in Sources : ~running'[s]
  BY DEF StopStarted, TellStopped, Tell, ChannelTypeOK, RunInv
<1>2. QED
  BY <1>1 DEF RunInv

LEMMA RunInvStep ==
  ASSUME OneThread, ChannelTypeOK, RunInv, [ChannelNext]_cvars
  PROVE  RunInv'
<1> USE PendingIsMain
<1>1. CASE /\ UNCHANGED <<state, running, calls>>
           /\ sources \subseteq sources'
           /\ late' = late \/ (state' \in Started /\ ~NotifyPending')
  BY <1>1, RunInvCalm DEF RunInv
<1>2. ASSUME NEW t \in Threads, Configure(t)
      PROVE  RunInv'
  <2>1. ASSUME NEW s \in Sources, AddSource(t, s)
        PROVE  RunInv'
    <3>1. ~NotifyPending'
      BY <2>1 DEF OneThread, AddSource
    <3>2. QED
      BY <1>1, <2>1, <3>1 DEF AddSource
  <2>2. CASE ~\E s \in Sources : AddSource(t, s)
    BY <1>1, <1>2, <2>2 DEF Configure, SetTarget, SetPid, SetKillPid
  <2>3. QED
    BY <2>1, <2>2
<1>3. ASSUME NEW t \in Threads, Start(t)
      PROVE  RunInv'
  <2>1. t = Main /\ state \notin Started /\ calls[Main] = "idle"
    BY <1>3 DEF OneThread, Start, StartRefused, StartSpawnFails, StartSpawns,
                StartAttaches, Starting, Started
  <2>2. UNCHANGED <<running, sources, late>>
    BY <1>3 DEF Start, StartRefused, StartSpawnFails, StartSpawns,
                StartAttaches
  <2>3. calls'[Main] = "notify_started" => state' = "RUNNING"
    BY <1>3, <2>1 DEF Start, StartRefused, StartSpawnFails, StartSpawns,
                      StartAttaches
  <2>4. QED
    BY <2>1, <2>2, <2>3, RunInvCalm
<1>4. ASSUME NEW t \in Threads, NotifyStarted(t)
      PROVE  RunInv'
  <2>1. t = Main /\ calls[Main] = "notify_started" /\ state = "RUNNING"
    BY <1>4 DEF OneThread, NotifyStarted, RunInv
  <2>2. state' = "RUNNING" /\ calls'[Main] = "idle"
    BY <1>4, <2>1 DEF NotifyStarted, ChannelTypeOK
  <2>3. \A s \in Sources : running'[s] => s \in sources'
    BY <1>4 DEF NotifyStarted, Tell, RunInv
  <2>4. QED
    BY <2>2, <2>3 DEF RunInv, Started
<1>5. ASSUME NEW t \in Threads, Stop(t)
      PROVE  RunInv'
  BY <1>5, RunInvStopStarted DEF OneThread, Stop
<1>6. ASSUME NEW t \in Threads, Mute(t) \/ Unmute(t)
      PROVE  RunInv'
  <2>1. /\ t = Main /\ calls'[Main] = "idle"
        /\ state' \in Started /\ UNCHANGED <<running, sources, late>>
    BY <1>6 DEF OneThread, Mute, Unmute, Started
  <2>2. QED
    BY <2>1, RunInvCalm
<1>7. ASSUME NEW p \in AllPids, ProcessExits(p)
      PROVE  RunInv'
  BY <1>1, <1>7 DEF ProcessExits
<1>8. ASSUME NEW p \in Pids, InferiorExited(p)
      PROVE  RunInv'
  <2>1. /\ calls'[Main] # "notify_started"
        /\ UNCHANGED <<state, running, sources, late>>
    BY <1>8 DEF InferiorExited, ChannelTypeOK
  <2>2. QED
    BY <2>1, RunInvCalm
<1>9. CASE StopExited
  <2>1. calls'[Main] = "idle"
    BY <1>9, ChannelAssumption DEF StopExited, ChannelTypeOK
  <2>2. CASE StopStarted
    BY <2>1, <2>2, RunInvStopStarted
  <2>3. CASE UNCHANGED <<state, sources, late, running>>
    BY <2>1, <2>3, RunInvCalm
  <2>4. QED
    BY <1>9, <2>2, <2>3 DEF StopExited
<1>10. CASE UNCHANGED cvars
  BY <1>1, <1>10 DEF cvars
<1>11. QED
  BY <1>2, <1>3, <1>4, <1>5, <1>6, <1>7, <1>8, <1>9, <1>10
     DEF ChannelNext, Call

LEMMA RunInvariant == ASSUME OneThread PROVE ChannelSpec => []RunInv
<1>1. ChannelInit => RunInv
  BY DEF ChannelInit, RunInv, NotifyPending
<1>2. ChannelTypeOK /\ RunInv /\ [ChannelNext]_cvars => RunInv'
  BY RunInvStep
<1>3. QED
  BY <1>1, <1>2, ChannelTypes, PTL DEF ChannelSpec

(***************************************************************************)
(* With one calling thread no source is left running in a channel that is  *)
(* not started; two threads can leave one so (pka-channel.c:815).          *)
(***************************************************************************)
THEOREM SourcesStopWithTheChannel ==
  ASSUME OneThread PROVE ChannelSpec => []NoSourceLeftRunning
<1>1. RunInv => NoSourceLeftRunning
  BY DEF RunInv, NoSourceLeftRunning
<1>2. QED
  BY <1>1, RunInvariant, PTL

(***************************************************************************)
(* With one calling thread the channel implements ChannelLifecycle: every  *)
(* step of it begins, pauses, resumes, ends or abandons a run, lets a      *)
(* source join, or is a stutter.                                           *)
(***************************************************************************)
LEMMA LifecycleStopStarted ==
  ASSUME OneThread, ChannelTypeOK, RunInv, StopStarted,
         ~NotifyPending, ~NotifyPending'
  PROVE  Lifecycle!End
<1>1. Phase \in {"active", "quiet"}
  BY DEF StopStarted, Started, Phase
<1>2. Phase' = "over"
  BY DEF StopStarted, Phase
<1>3. {s \in Sources : running'[s]} = {}
  BY DEF StopStarted, TellStopped, Tell, ChannelTypeOK, RunInv
<1>4. sources \ late \subseteq sources' \ late'
  BY DEF StopStarted
<1>5. QED
  BY <1>1, <1>2, <1>3, <1>4 DEF Lifecycle!End, Lifecycle!On

LEMMA LifecycleStep ==
  ASSUME OneThread, ChannelTypeOK, RunInv, RunInv', [ChannelNext]_cvars
  PROVE  [Lifecycle!Next]_(Lifecycle!lvars)
<1> USE PendingIsMain
<1>1. CASE UNCHANGED <<state, running, sources, late>>
           /\ (NotifyPending' <=> NotifyPending)
  <2>1. Phase' = Phase
    BY <1>1 DEF Phase, ChannelTypeOK, States
  <2>2. QED
    BY <1>1, <2>1 DEF Lifecycle!lvars
<1>2. ASSUME NEW t \in Threads, Configure(t)
      PROVE  [Lifecycle!Next]_(Lifecycle!lvars)
  <2>1. ASSUME NEW s \in Sources, AddSource(t, s)
        PROVE  [Lifecycle!Join(s)]_(Lifecycle!lvars)
    <3>1. Phase' = Phase
      BY <2>1 DEF AddSource, Phase, ChannelTypeOK, States
    <3>2. CASE state \in Started
      <4>1. sources' \ late' = sources \ late /\ running' = running
        BY <2>1, <3>2 DEF AddSource, ChannelTypeOK
      <4>2. QED
        BY <3>1, <4>1 DEF Lifecycle!lvars
    <3>3. CASE state \notin Started
      <4>1. sources' \ late' = (sources \ late) \cup {s}
        BY <2>1, <3>3 DEF AddSource, RunInv
      <4>2. Phase \notin {"active", "quiet"}
        BY <3>3 DEF Phase, Started, ChannelTypeOK, States
      <4>3. QED
        BY <2>1, <3>1, <4>1, <4>2
           DEF AddSource, Lifecycle!Join, Lifecycle!On
    <3>4. QED
      BY <3>2, <3>3
  <2>2. CASE ~\E s \in Sources : AddSource(t, s)
    BY <1>1, <1>2, <2>2 DEF Configure, SetTarget, SetPid, SetKillPid
  <2>3. QED
    BY <2>1, <2>2 DEF Lifecycle!Next
<1>3. ASSUME NEW t \in Threads, Start(t)
      PROVE  Lifecycle!Abandon
  <2>1. /\ t = Main /\ state \in {"READY", "STOPPED"}
        /\ calls[Main] = "idle" /\ UNCHANGED <<running, sources, late>>
    BY <1>3 DEF OneThread, Start, StartRefused, StartSpawnFails, StartSpawns,
                StartAttaches, Starting
  <2>2. Phase \in {"idle", "over"}
    BY <2>1 DEF Phase
  <2>3. Phase' \in {"idle", "failed"}
    <3>1. CASE StartRefused(t)
      BY <3>1 DEF StartRefused, Phase
    <3>2. CASE StartSpawnFails(t)
      BY <2>1, <3>2 DEF StartSpawnFails, Phase
    <3>3. CASE StartAttaches(t) \/ \E p \in Pids : StartSpawns(t, p)
      BY <2>1, <3>3 DEF StartAttaches, StartSpawns, Phase, ChannelTypeOK
    <3>4. QED
      BY <1>3, <3>1, <3>2, <3>3 DEF Start
  <2>4. QED
    BY <2>1, <2>2, <2>3 DEF Lifecycle!Abandon
<1>4. ASSUME NEW t \in Threads, NotifyStarted(t)
      PROVE  Lifecycle!Begin
  <2>1. t = Main /\ NotifyPending /\ state = "RUNNING"
    BY <1>4 DEF OneThread, NotifyStarted, RunInv
  <2>2. Phase = "idle"
    BY <2>1 DEF Phase
  <2>3. Phase' = "active"
    BY <1>4, <2>1 DEF NotifyStarted, Phase, ChannelTypeOK
  <2>4. /\ {s \in Sources : running'[s]} = sources
        /\ sources' = sources /\ late' = {} /\ late = {}
    BY <1>4, <2>1 DEF NotifyStarted, Tell, RunInv, ChannelTypeOK
  <2>5. QED
    BY <2>2, <2>3, <2>4 DEF Lifecycle!Begin
<1>5. ASSUME NEW t \in Threads, Stop(t)
      PROVE  Lifecycle!End
  BY <1>5, LifecycleStopStarted DEF OneThread, Stop
<1>6. ASSUME NEW t \in Threads, Mute(t)
      PROVE  Lifecycle!Pause
  BY <1>6 DEF OneThread, Mute, Phase, Lifecycle!Pause
<1>7. ASSUME NEW t \in Threads, Unmute(t)
      PROVE  Lifecycle!Resume
  BY <1>7 DEF OneThread, Unmute, Phase, Lifecycle!Resume
<1>8. ASSUME NEW p \in AllPids, ProcessExits(p)
      PROVE  [Lifecycle!Next]_(Lifecycle!lvars)
  BY <1>1, <1>8 DEF ProcessExits
<1>9. ASSUME NEW p \in Pids, InferiorExited(p)
      PROVE  [Lifecycle!Next]_(Lifecycle!lvars)
  BY <1>1, <1>9 DEF InferiorExited, ChannelTypeOK
<1>10. CASE StopExited
  <2>1. calls[Main] = "exited" /\ calls'[Main] = "idle"
    BY <1>10, ChannelAssumption DEF StopExited, ChannelTypeOK
  <2>2. CASE StopStarted
    BY <2>1, <2>2, LifecycleStopStarted DEF Lifecycle!Next
  <2>3. CASE UNCHANGED <<state, sources, late, running>>
    BY <1>1, <2>1, <2>3
  <2>4. QED
    BY <1>10, <2>2, <2>3 DEF StopExited
<1>11. CASE UNCHANGED cvars
  BY <1>1, <1>11 DEF cvars
<1>12. QED
  BY <1>2, <1>3, <1>4, <1>5, <1>6, <1>7, <1>8, <1>9, <1>10, <1>11
     DEF ChannelNext, Call, Lifecycle!Next

THEOREM ChannelKeepsLifecycle ==
  ASSUME OneThread PROVE ChannelSpec => KeepsLifecycle
<1>1. ChannelInit => Lifecycle!Init
  BY DEF ChannelInit, Lifecycle!Init, Phase, NotifyPending
<1>2. ChannelTypeOK /\ RunInv /\ RunInv' /\ [ChannelNext]_cvars
        => [Lifecycle!Next]_(Lifecycle!lvars)
  BY LifecycleStep
<1>3. QED
  BY <1>1, <1>2, ChannelTypes, RunInvariant, PTL
     DEF ChannelSpec, KeepsLifecycle, Lifecycle!Spec

-----------------------------------------------------------------------------
(* Sampling: where a queue of events leads.                                *)

Events == Notices \ {"none"}

\* Emitting the events q one by one takes a source that is in the list a
\* times to n times, and never to more than two on the way: h is the way.
Leads(a, q, n) ==
  \E h \in [0 .. Len(q) -> 0 .. 2] :
    /\ h[0] = a
    /\ \A i \in 1 .. Len(q) : h[i] = After(q[i], h[i - 1])
    /\ h[Len(q)] = n

-----------------------------------------------------------------------------
(* The way, when an event is queued and when one is emitted.               *)

LEMMA LeadsNowhere ==
  /\ \A a \in 0 .. 2 : Leads(a, <<>>, a)
  /\ \A a, n : Leads(a, <<>>, n) => n = a
<1>1. ASSUME NEW a \in 0 .. 2
      PROVE  Leads(a, <<>>, a)
  <2> DEFINE h == [i \in 0 .. 0 |-> a]
  <2>1. h \in [0 .. 0 -> 0 .. 2] /\ h[0] = a
    OBVIOUS
  <2> HIDE DEF h
  <2>2. Len(<<>>) = 0 /\ ~\E i \in 1 .. 0 : TRUE
    OBVIOUS
  <2>3. h \in [0 .. Len(<<>>) -> 0 .. 2] /\ h[Len(<<>>)] = a
    BY <2>1, <2>2
  <2>4. QED
    BY <2>1, <2>2, <2>3 DEF Leads
<1>2. ASSUME NEW a, NEW n, Leads(a, <<>>, n)
      PROVE  n = a
  BY <1>2 DEF Leads
<1>3. QED
  BY <1>1, <1>2

LEMMA LeadsStart ==
  ASSUME NEW a, NEW q \in Seq(Events), NEW n, Leads(a, q, n)
  PROVE  a \in 0 .. 2 /\ n \in 0 .. 2
BY LenProperties DEF Leads

LEMMA LeadsAppend ==
  ASSUME NEW a, NEW q \in Seq(Events), NEW k \in Events, NEW n,
         Leads(a, q, n), After(k, n) \in 0 .. 2
  PROVE  Leads(a, Append(q, k), After(k, n))
<1> DEFINE q1 == Append(q, k)
           l  == Len(q)
<1>1. /\ l \in Nat
      /\ Len(q1) = l + 1
      /\ \A i \in 1 .. l : q1[i] = q[i]
      /\ q1[l + 1] = k
  BY AppendProperties, LenProperties
<1>2. PICK h \in [0 .. l -> 0 .. 2] :
        /\ h[0] = a
        /\ \A i \in 1 .. l : h[i] = After(q[i], h[i - 1])
        /\ h[l] = n
  BY DEF Leads
<1> DEFINE h1 == [i \in 0 .. l + 1 |-> IF i = l + 1 THEN After(k, n) ELSE h[i]]
<1>3. h1 \in [0 .. l + 1 -> 0 .. 2]
  BY <1>1, <1>2
<1>4. h1[0] = a /\ h1[l + 1] = After(k, n)
  BY <1>1, <1>2
<1>5. ASSUME NEW i \in 1 .. l + 1
      PROVE  h1[i] = After(q1[i], h1[i - 1])
  <2>1. CASE i = l + 1
    <3>1. h1[i] = After(k, n)
      BY <1>1, <2>1
    <3>2. h1[i - 1] = n
      BY <1>1, <1>2, <2>1
    <3>3. q1[i] = k
      BY <1>1, <2>1
    <3>4. QED
      BY <3>1, <3>2, <3>3
  <2>2. CASE i # l + 1
    <3>1. i \in 1 .. l
      BY <1>1, <2>2
    <3>2. h1[i] = h[i] /\ h1[i - 1] = h[i - 1]
      BY <1>1, <2>2
    <3>3. q1[i] = q[i]
      BY <1>1, <3>1
    <3>4. QED
      BY <1>2, <3>1, <3>2, <3>3
  <2>3. QED
    BY <2>1, <2>2
<1> HIDE DEF h1, q1, l
<1>6. QED
  <2>1. Len(q1) = l + 1
    BY <1>1
  <2>2. Leads(a, q1, After(k, n))
    BY <1>3, <1>4, <1>5, <2>1 DEF Leads
  <2>3. QED
    BY <2>2 DEF q1

LEMMA LeadsTail ==
  ASSUME NEW a, NEW q \in Seq(Events), NEW n, q # <<>>, Leads(a, q, n)
  PROVE  Leads(After(Head(q), a), Tail(q), n)
<1> DEFINE q1 == Tail(q)
           l  == Len(q1)
<1>1. /\ l \in Nat
      /\ Len(q) = l + 1
      /\ \A i \in 1 .. l : q1[i] = q[i + 1]
      /\ Head(q) = q[1]
  <2>1. Len(q) \in Nat \ {0}
    BY EmptySeq
  <2>2. Len(q1) = Len(q) - 1 /\ \A i \in 1 .. Len(q1) : q1[i] = q[i + 1]
    BY HeadTailProperties
  <2>3. Head(q) = q[1]
    OBVIOUS
  <2>4. QED
    BY <2>1, <2>2, <2>3
<1>2. PICK h \in [0 .. l + 1 -> 0 .. 2] :
        /\ h[0] = a
        /\ \A i \in 1 .. l + 1 : h[i] = After(q[i], h[i - 1])
        /\ h[l + 1] = n
  BY <1>1 DEF Leads
<1> DEFINE h1 == [i \in 0 .. l |-> h[i + 1]]
<1>3. h1 \in [0 .. l -> 0 .. 2]
  BY <1>1, <1>2
<1>4. h1[0] = After(Head(q), a) /\ h1[l] = n
  <2>1. h[1] = After(q[1], h[1 - 1])
    BY <1>1, <1>2
  <2>2. h1[0] = h[1] /\ h1[l] = h[l + 1]
    BY <1>1
  <2>3. QED
    BY <1>1, <1>2, <2>1, <2>2
<1>5. ASSUME NEW i \in 1 .. l
      PROVE  h1[i] = After(q1[i], h1[i - 1])
  <2>1. h1[i] = h[i + 1] /\ h1[i - 1] = h[i]
    BY <1>1
  <2>2. i + 1 \in 1 .. l + 1 /\ (i + 1) - 1 = i
    BY <1>1
  <2>3. h[i + 1] = After(q[i + 1], h[i])
    BY <1>2, <2>2
  <2>4. QED
    BY <1>1, <2>1, <2>3
<1> HIDE DEF h1, q1, l
<1>6. QED
  <2>1. Len(q1) = l
    BY DEF l
  <2>2. Leads(After(Head(q), a), q1, n)
    BY <1>3, <1>4, <1>5, <2>1 DEF Leads
  <2>3. QED
    BY <2>2 DEF q1

\* What a call queues: nothing, one event, or an automatic mute.
LEMMA LeadsOn ==
  ASSUME NEW a, NEW q \in Seq(Events), NEW n, Leads(a, q, n)
  PROVE  /\ Leads(a, q \o <<>>, n)
         /\ \A k \in Events :
              After(k, n) \in 0 .. 2 => Leads(a, q \o <<k>>, After(k, n))
         /\ n < 2 => Leads(a, q \o AutoMuted, n)
<1>1. Leads(a, q \o <<>>, n)
  BY ConcatEmptySeq
<1>2. ASSUME NEW k \in Events, After(k, n) \in 0 .. 2
      PROVE  Leads(a, q \o <<k>>, After(k, n))
  <2>1. Append(q, k) = q \o <<k>>
    BY AppendIsConcat
  <2>2. Leads(a, Append(q, k), After(k, n))
    BY <1>2, LeadsAppend
  <2>3. QED
    BY <2>1, <2>2
<1>3. ASSUME n < 2
      PROVE  Leads(a, q \o AutoMuted, n)
  <2>1. "started" \in Events /\ "muted" \in Events
    BY DEF Events, Notices
  <2>2. n \in 0 .. 1
    BY <1>3, LeadsStart
  <2>3. After("started", n) = n + 1 /\ After("muted", n + 1) = n
    BY <2>2 DEF After, Attaching, Detaching
  <2> DEFINE q1 == Append(q, "started")
  <2>4. q1 \in Seq(Events)
    BY <2>1, AppendProperties
  <2>5. Leads(a, q1, n + 1)
    BY <2>1, <2>2, <2>3, LeadsAppend
  <2>6. Leads(a, Append(q1, "muted"), n)
    <3> HIDE DEF q1
    <3>1. After("muted", n + 1) \in 0 .. 2
      BY <2>2, <2>3
    <3>2. Leads(a, Append(q1, "muted"), After("muted", n + 1))
      BY <2>1, <2>4, <2>5, <3>1, LeadsAppend
    <3>3. QED
      BY <2>3, <3>2
  <2>7. Append(q1, "muted") = q \o AutoMuted
    BY <2>1, AppendIsConcat DEF AutoMuted
  <2>8. QED
    BY <2>6, <2>7
<1>4. QED
  BY <1>1, <1>2, <1>3

-----------------------------------------------------------------------------
(* Types.                                                                  *)

LEMMA QueuedAreEvents ==
  /\ <<>> \in Seq(Events)
  /\ \A k \in Events : <<k>> \in Seq(Events)
  /\ AutoMuted \in Seq(Events)
<1>1. <<>> \in Seq(Events)
  BY EmptySeq
<1>2. ASSUME NEW k \in Events
      PROVE  <<k>> \in Seq(Events)
  <2>1. Append(<<>>, k) \in Seq(Events)
    BY <1>1, AppendProperties
  <2>2. Append(<<>>, k) = <<k>>
    OBVIOUS
  <2>3. QED
    BY <2>1, <2>2
<1>3. AutoMuted \in Seq(Events)
  <2>1. "started" \in Events /\ "muted" \in Events
    BY DEF Events, Notices
  <2>2. <<"started", "muted">> \in Seq(Events)
    BY <2>1
  <2>3. QED
    BY <2>2 DEF AutoMuted
<1>4. QED
  BY <1>1, <1>2, <1>3

LEMMA NoticesAreEvents ==
  ASSUME NEW s \in Sources, NEW kind \in Notices
  PROVE  OnNotice(s, kind) \in Seq(Events)
<1>1. kind # "none" => kind \in Events
  BY DEF Events
<1>2. OnNotice(s, kind) \in {<<>>, AutoMuted, <<kind>>}
  BY DEF OnNotice
<1>3. kind = "none" => OnNotice(s, kind) = <<>>
  BY DEF OnNotice
<1>4. QED
  BY <1>1, <1>2, <1>3, QueuedAreEvents

LEMMA AttachedIsCounted ==
  ASSUME NEW kind, NEW n \in Nat
  PROVE  After(kind, n) \in Nat
BY DEF After

LEMMA OnlyNoticeChanges ==
  ASSUME ChannelTypeOK, Silent,
         UNCHANGED <<state, sources, late, config, process, calls>>,
         running' \in [Sources -> BOOLEAN]
  PROVE  ChannelTypeOK'
BY DEF ChannelTypeOK, Silent, Say, Notices, config, process

LEMMA SamplingInitTypes == SamplingInit => SamplingTypeOK
<1> SUFFICES ASSUME SamplingInit
             PROVE  SamplingTypeOK
  OBVIOUS
<1>1. ChannelTypeOK
  BY ChannelInitTypes DEF SamplingInit
<1>2. events \in [Sources -> Seq(Events)]
  BY QueuedAreEvents DEF SamplingInit
<1>3. entries \in [Sources -> 0 .. MaxEntries]
  BY SamplingAssumption DEF SamplingInit
<1>4. QED
  BY <1>1, <1>2, <1>3 DEF SamplingInit, SamplingTypeOK, Events

LEMMA EnqueueTypes ==
  ASSUME SamplingTypeOK, NEW s \in Sources, NEW kinds \in Seq(Events),
         Enqueue(s, kinds), entries' \in [Sources -> 0 .. MaxEntries]
  PROVE  SamplingTypeOK'
<1>1. events[s] \o kinds \in Seq(Events)
  <2>1. events[s] \in Seq(Events)
    BY DEF SamplingTypeOK, Events
  <2>2. QED
    BY <2>1, ConcatProperties
<1>2. events' \in [Sources -> Seq(Events)]
  BY <1>1 DEF Enqueue, SamplingTypeOK, Events
<1>3. ChannelTypeOK'
  <2>1. running' \in [Sources -> BOOLEAN]
    BY DEF Enqueue, SamplingTypeOK, ChannelTypeOK
  <2>2. QED
    BY <2>1, OnlyNoticeChanges DEF Enqueue, SamplingTypeOK
<1>4. QED
  BY <1>2, <1>3 DEF Enqueue, SamplingTypeOK, Events

LEMMA SamplingNextTypes ==
  SamplingTypeOK /\ [SamplingNext]_svars => SamplingTypeOK'
<1> SUFFICES ASSUME SamplingTypeOK, [SamplingNext]_svars
             PROVE  SamplingTypeOK'
  OBVIOUS
<1>1. CASE ChannelStep
  <2>1. ChannelTypeOK'
    BY <1>1, ChannelNextTypes DEF ChannelStep, SamplingTypeOK
  <2>2. ASSUME NEW s \in Sources
        PROVE  events[s] \o OnNotice(s, notice') \in Seq(Events)
    <3>1. events[s] \in Seq(Events)
      BY DEF SamplingTypeOK, Events
    <3>2. OnNotice(s, notice') \in Seq(Events)
      BY <2>1, NoticesAreEvents DEF ChannelTypeOK
    <3>3. QED
      BY <3>1, <3>2, ConcatProperties
  <2>3. events' \in [Sources -> Seq(Events)]
    BY <1>1, <2>2 DEF ChannelStep
  <2>4. clientMuted' \in BOOLEAN
    BY <1>1 DEF ChannelStep, SamplingTypeOK
  <2>5. QED
    BY <1>1, <2>1, <2>3, <2>4 DEF ChannelStep, SamplingTypeOK, Events
<1>2. ASSUME NEW s \in Sources, AddSubscription(s)
      PROVE  SamplingTypeOK'
  <2>1. AutoUnmute(s) \in Seq(Events)
    BY QueuedAreEvents DEF AutoUnmute, Events, Notices
  <2>2. entries' \in [Sources -> 0 .. MaxEntries]
    BY <1>2, SamplingAssumption DEF AddSubscription, SamplingTypeOK
  <2>3. QED
    BY <1>2, <2>1, <2>2, EnqueueTypes DEF AddSubscription
<1>3. ASSUME NEW s \in Sources, RemoveSubscription(s)
      PROVE  SamplingTypeOK'
  <2>1. PICK left \in 0 .. MaxEntries :
          /\ entries' = [entries EXCEPT ![s] = left]
          /\ Enqueue(s, IF running[s] /\ left = 0 THEN <<"muted">> ELSE <<>>)
    BY <1>3 DEF RemoveSubscription
  <2>2. (IF running[s] /\ left = 0 THEN <<"muted">> ELSE <<>>) \in Seq(Events)
    BY QueuedAreEvents DEF Events, Notices
  <2>3. entries' \in [Sources -> 0 .. MaxEntries]
    BY <2>1 DEF SamplingTypeOK
  <2>4. QED
    BY <2>1, <2>2, <2>3, EnqueueTypes
<1>4. ASSUME NEW s \in Sources, RetireSource(s)
      PROVE  SamplingTypeOK'
  <2>1. OnNotice(s, "stopped") \in Seq(Events)
    BY NoticesAreEvents DEF Notices
  <2>2. events[s] \o OnNotice(s, "stopped") \in Seq(Events)
    <3>1. events[s] \in Seq(Events)
      BY DEF SamplingTypeOK, Events
    <3>2. QED
      BY <2>1, <3>1, ConcatProperties
  <2>3. events' \in [Sources -> Seq(Events)]
    BY <1>4, <2>2 DEF RetireSource, SamplingTypeOK, Events
  <2>4. ChannelTypeOK'
    <3>1. running' \in [Sources -> BOOLEAN]
      BY <1>4 DEF RetireSource, SamplingTypeOK, ChannelTypeOK
    <3>2. QED
      BY <1>4, <3>1, OnlyNoticeChanges DEF RetireSource, SamplingTypeOK
  <2>5. QED
    BY <1>4, <2>3, <2>4 DEF RetireSource, SamplingTypeOK, Events
<1>5. ASSUME NEW s \in Sources, Emit(s)
      PROVE  SamplingTypeOK'
  <2>1. events[s] \in Seq(Events) /\ events[s] # <<>>
    BY <1>5 DEF Emit, SamplingTypeOK, Events
  <2>2. Tail(events[s]) \in Seq(Events)
    BY <2>1, HeadTailProperties
  <2>3. events' \in [Sources -> Seq(Events)]
    BY <1>5, <2>2 DEF Emit, SamplingTypeOK, Events
  <2>4. attached' \in [Sources -> Nat]
    BY <1>5, AttachedIsCounted DEF Emit, SamplingTypeOK
  <2>5. ChannelTypeOK'
    BY <1>5, OnlyNoticeChanges DEF Emit, SamplingTypeOK, ChannelTypeOK
  <2>6. QED
    BY <1>5, <2>3, <2>4, <2>5 DEF Emit, SamplingTypeOK, Events
<1>6. ASSUME NEW s \in Sources, Sample(s)
      PROVE  SamplingTypeOK'
  <2>1. ChannelTypeOK'
    BY <1>6, OnlyNoticeChanges DEF Sample, SamplingTypeOK, ChannelTypeOK
  <2>2. QED
    BY <1>6, <2>1 DEF Sample, SamplingTypeOK
<1>7. CASE UNCHANGED svars
  BY <1>7 DEF svars, sampling, cvars, config, process, SamplingTypeOK,
              ChannelTypeOK
<1>8. QED
  BY <1>1, <1>2, <1>3, <1>4, <1>5, <1>6, <1>7 DEF SamplingNext

(***************************************************************************)
(* Every state of the composition is well typed, whichever threads call:   *)
(* a source queues what pka-source.c can emit, and is never a negative     *)
(* number of times in the shared list.                                     *)
(***************************************************************************)
THEOREM SamplingTypes == SamplingSpec => []SamplingTypeOK
BY SamplingInitTypes, SamplingNextTypes, PTL DEF SamplingSpec

-----------------------------------------------------------------------------
(* What the queued events lead to.                                         *)

Observed(s) == running[s] /\ entries[s] > 0

\* How often a source may be in the list when its events are out.  A stop or
\* a retirement takes one entry out, so that one of two may stay behind.
Ends(s, n) ==
  /\ s \notin sources => n = 0
  /\ n = 2 => state = "RUNNING" /\ Observed(s)
  /\ state = "MUTED" /\ n > 0 => Observed(s)
  /\ state = "RUNNING" /\ Observed(s) => n > 0
  /\ ~clientMuted => n = IF Observed(s) THEN 1 ELSE 0

Settles(s) == \E n \in 0 .. 2 : Leads(attached[s], events[s], n) /\ Ends(s, n)

SettleInv ==
  /\ \A s \in Sources : Settles(s)
  /\ state = "MUTED" => clientMuted

\* A step that queues what leads from n to m, where a source may end at m.
LEMMA QueueSettles ==
  ASSUME SamplingTypeOK, NEW s \in Sources, NEW n, NEW m \in 0 .. 2,
         Leads(attached[s], events[s], n), Ends(s, m)',
         attached'[s] = attached[s],
         \/ m = n /\ events'[s] = events[s] \o <<>>
         \/ m = n /\ events'[s] = events[s]
         \/ \E k \in Events :
              m = After(k, n) /\ events'[s] = events[s] \o <<k>>
         \/ m = n /\ n < 2 /\ events'[s] = events[s] \o AutoMuted
  PROVE  Settles(s)'
<1>1. events[s] \in Seq(Events)
  BY DEF SamplingTypeOK, Events
<1>2. Leads(attached'[s], events'[s], m)
  BY <1>1, LeadsOn
<1>3. Leads(attached[s], events[s], m)'
  BY <1>2 DEF Leads, After
<1>4. QED
  BY <1>3 DEF Settles

LEMMA AfterEach ==
  ASSUME NEW n \in 0 .. 2
  PROVE  /\ {"started", "stopped", "muted", "unmuted", "reset"} \subseteq Events
         /\ After("started", n) = n + 1
         /\ After("unmuted", n) = n + 1
         /\ After("stopped", n) = IF n > 0 THEN n - 1 ELSE 0
         /\ After("muted", n) = IF n > 0 THEN n - 1 ELSE 0
         /\ After("reset", n) = n
<1>1. {"started", "stopped", "muted", "unmuted", "reset"} \subseteq Events
  BY DEF Events, Notices
<1>2. After("started", n) = n + 1 /\ After("unmuted", n) = n + 1
  BY DEF After, Attaching, Detaching
<1>3. /\ After("stopped", n) = IF n > 0 THEN n - 1 ELSE 0
      /\ After("muted", n) = IF n > 0 THEN n - 1 ELSE 0
      /\ After("reset", n) = n
  BY DEF After, Attaching, Detaching
<1>4. QED
  BY <1>1, <1>2, <1>3

-----------------------------------------------------------------------------
(* The calls on the channel.                                               *)

\* A step of the channel that tells this source nothing it acts on.
LEMMA CalmSettles ==
  ASSUME SamplingTypeOK, RunInv, SettleInv, ChannelStep,
         notice' \in {"none", "reset"}, UNCHANGED running,
         sources \subseteq sources',
         state' = state \/ (state \notin Started /\ state' # "MUTED"),
         NEW s \in Sources
  PROVE  Settles(s)'
<1>1. PICK n \in 0 .. 2 : Leads(attached[s], events[s], n) /\ Ends(s, n)
  BY DEF SettleInv, Settles
<1>2. UNCHANGED <<entries, attached>>
  BY DEF ChannelStep
<1>3. clientMuted' = (clientMuted \/ state' = "MUTED")
  BY DEF ChannelStep
<1>4. state \notin Started => ~running[s]
  BY DEF RunInv
<1>5. Ends(s, n)'
  BY <1>1, <1>2, <1>3, <1>4 DEF Ends, Observed, Started
<1>6. events'[s] = events[s] \o OnNotice(s, notice')
  BY DEF ChannelStep
<1>7. After("reset", n) = n /\ "reset" \in Events
  BY AfterEach
<1>8. OnNotice(s, notice') = <<>> \/ OnNotice(s, notice') = <<"reset">>
  BY DEF OnNotice
<1>9. QED
  BY <1>1, <1>2, <1>5, <1>6, <1>7, <1>8, QueueSettles

\* The sources hear of a start after the unlock, and none of them runs yet.
LEMMA NotifyStartedSettles ==
  ASSUME SamplingTypeOK, RunInv, SettleInv, ChannelStep,
         NEW t \in Threads, NotifyStarted(t), NEW s \in Sources
  PROVE  Settles(s)'
<1>1. PICK n \in 0 .. 2 : Leads(attached[s], events[s], n) /\ Ends(s, n)
  BY DEF SettleInv, Settles
<1>2. state = "RUNNING" /\ ~running[s]
  BY DEF NotifyStarted, NotifyPending, RunInv
<1>3. /\ UNCHANGED <<entries, attached, state, sources>>
      /\ notice' = "started"
      /\ running'[s] <=> s \in sources
      /\ events'[s] = events[s] \o OnNotice(s, "started")
      /\ clientMuted' <=> clientMuted
  <2>1. /\ UNCHANGED <<entries, attached, state, sources>>
        /\ notice' = "started"
    BY DEF ChannelStep, NotifyStarted, Say
  <2>2. running'[s] <=> s \in sources
    BY <1>2 DEF NotifyStarted, Tell
  <2>3. events'[s] = events[s] \o OnNotice(s, "started")
    BY <2>1 DEF ChannelStep
  <2>4. clientMuted' <=> clientMuted
    BY <1>2, <2>1 DEF ChannelStep
  <2>5. QED
    BY <2>1, <2>2, <2>3, <2>4
<1>4. n < 2 /\ (~clientMuted => n = 0)
  BY <1>1, <1>2 DEF Ends, Observed
<1>5. entries[s] \in Nat
  BY SamplingAssumption DEF SamplingTypeOK
<1>6. CASE s \notin sources
  <2>1. OnNotice(s, "started") = <<>>
    BY <1>6 DEF OnNotice
  <2>2. Ends(s, n)'
    BY <1>1, <1>2, <1>3, <1>4, <1>6 DEF Ends, Observed
  <2>3. QED
    BY <1>1, <1>3, <2>1, <2>2, QueueSettles
<1>7. CASE s \in sources /\ entries[s] = 0
  <2>1. OnNotice(s, "started") = AutoMuted
    BY <1>7 DEF OnNotice
  <2>2. Ends(s, n)'
    BY <1>1, <1>2, <1>3, <1>4, <1>7 DEF Ends, Observed
  <2>3. QED
    BY <1>1, <1>3, <1>4, <2>1, <2>2, QueueSettles
<1>8. CASE s \in sources /\ entries[s] # 0
  <2>1. OnNotice(s, "started") = <<"started">>
    BY <1>8 DEF OnNotice
  <2>2. After("started", n) = n + 1 /\ "started" \in Events
    BY AfterEach
  <2>3. n + 1 \in 0 .. 2
    BY <1>1, <1>4
  <2>4. Ends(s, n + 1)'
    BY <1>1, <1>2, <1>3, <1>4, <1>5, <1>8 DEF Ends, Observed
  <2>5. QED
    BY <1>1, <1>3, <2>1, <2>2, <2>3, <2>4, QueueSettles
<1>9. QED
  BY <1>6, <1>7, <1>8

\* A source that runs is stopped, in its channel or by a retirement.
LEMMA StoppedSettles ==
  ASSUME SamplingTypeOK, RunInv, SettleInv, NEW s \in Sources,
         UNCHANGED <<entries, attached, sources>>,
         state' = state \/ state' = "STOPPED",
         ~running'[s], clientMuted' <=> clientMuted \/ state' = "MUTED",
         events'[s] = events[s] \o OnNotice(s, "stopped")
  PROVE  Settles(s)'
<1>1. PICK n \in 0 .. 2 : Leads(attached[s], events[s], n) /\ Ends(s, n)
  BY DEF SettleInv, Settles
<1>2. running[s] => s \in sources /\ state \in Started
  BY DEF RunInv
<1>3. entries[s] \in Nat
  BY SamplingAssumption DEF SamplingTypeOK
<1>4. CASE running[s]
  <2> DEFINE m == IF n > 0 THEN n - 1 ELSE 0
  <2>1. OnNotice(s, "stopped") = <<"stopped">>
    BY <1>2, <1>4 DEF OnNotice
  <2>2. m \in 0 .. 1
    BY <1>1
  <2>3. state' = "MUTED" => m = 0
    <3>1. state' = "MUTED" => state = "MUTED"
      OBVIOUS
    <3>2. state = "MUTED" => n < 2
      BY <1>1 DEF Ends
    <3>3. QED
      BY <1>1, <3>1, <3>2
  <2>4. ~clientMuted' => m = 0
    <3>1. ~clientMuted' => n < 2
      BY <1>1 DEF Ends
    <3>2. QED
      BY <1>1, <3>1
  <2>5. Ends(s, m)'
    <3> HIDE DEF m
    <3>1. QED
      BY <1>2, <1>4, <2>2, <2>3, <2>4 DEF Ends, Observed
  <2>6. m = After("stopped", n) /\ "stopped" \in Events /\ m \in 0 .. 2
    BY <1>1, <2>2, AfterEach
  <2> HIDE DEF m
  <2>7. QED
    BY <1>1, <2>1, <2>5, <2>6, QueueSettles
<1>5. CASE ~running[s]
  <2>1. OnNotice(s, "stopped") = <<>>
    BY <1>5 DEF OnNotice
  <2>2. Ends(s, n)'
    BY <1>1, <1>5 DEF Ends, Observed
  <2>3. QED
    BY <1>1, <2>1, <2>2, QueueSettles
<1>6. QED
  BY <1>4, <1>5

LEMMA StopStartedSettles ==
  ASSUME SamplingTypeOK, RunInv, SettleInv, ChannelStep, StopStarted,
         NEW s \in Sources
  PROVE  Settles(s)'
<1>1. /\ UNCHANGED <<entries, attached, sources>>
      /\ state' = "STOPPED" /\ notice' = "stopped"
  BY DEF ChannelStep, StopStarted, Say
<1>2. ~running'[s]
  BY DEF StopStarted, TellStopped, Tell, RunInv
<1>3. events'[s] = events[s] \o OnNotice(s, "stopped")
  BY <1>1 DEF ChannelStep
<1>4. clientMuted' <=> clientMuted \/ state' = "MUTED"
  BY DEF ChannelStep
<1>5. QED
  BY <1>1, <1>2, <1>3, <1>4, StoppedSettles

\* A mute by a client takes an entry out, also one that is not there.
LEMMA MuteSettles ==
  ASSUME SamplingTypeOK, RunInv, SettleInv, ChannelStep,
         NEW t \in Threads, Mute(t), NEW s \in Sources
  PROVE  Settles(s)'
<1>1. PICK n \in 0 .. 2 : Leads(attached[s], events[s], n) /\ Ends(s, n)
  BY DEF SettleInv, Settles
<1>2. /\ UNCHANGED <<entries, attached, sources, running>>
      /\ state = "RUNNING" /\ state' = "MUTED" /\ notice' = "muted"
  BY DEF ChannelStep, Mute, Say
<1>3. events'[s] = events[s] \o OnNotice(s, "muted")
  BY <1>2 DEF ChannelStep
<1>4. clientMuted'
  BY <1>2 DEF ChannelStep
<1>5. CASE s \notin sources
  <2>1. n = 0
    BY <1>1, <1>5 DEF Ends
  <2>2. Ends(s, n)'
    BY <1>2, <1>4, <2>1 DEF Ends
  <2>3. OnNotice(s, "muted") = <<>>
    BY <1>5 DEF OnNotice
  <2>4. QED
    BY <1>1, <1>2, <1>3, <2>2, <2>3, QueueSettles
<1>6. CASE s \in sources
  <2> DEFINE m == IF n > 0 THEN n - 1 ELSE 0
  <2>1. OnNotice(s, "muted") = <<"muted">>
    BY <1>6 DEF OnNotice
  <2>2. m \in 0 .. 1
    BY <1>1
  <2>3. m > 0 => Observed(s)
    <3>1. m > 0 => n = 2
      BY <1>1
    <3>2. QED
      BY <1>1, <3>1 DEF Ends
  <2>4. Ends(s, m)'
    <3> HIDE DEF m
    <3>1. QED
      BY <1>2, <1>4, <1>6, <2>2, <2>3 DEF Ends, Observed
  <2>5. m = After("muted", n) /\ "muted" \in Events /\ m \in 0 .. 2
    BY <1>1, <2>2, AfterEach
  <2> HIDE DEF m
  <2>6. QED
    BY <1>1, <1>2, <1>3, <2>1, <2>4, <2>5, QueueSettles
<1>7. QED
  BY <1>5, <1>6

LEMMA UnmuteSettles ==
  ASSUME SamplingTypeOK, RunInv, SettleInv, ChannelStep,
         NEW t \in Threads, Unmute(t), NEW s \in Sources
  PROVE  Settles(s)'
<1>1. PICK n \in 0 .. 2 : Leads(attached[s], events[s], n) /\ Ends(s, n)
  BY DEF SettleInv, Settles
<1>2. /\ UNCHANGED <<entries, attached, sources, running>>
      /\ state = "MUTED" /\ state' = "RUNNING" /\ notice' = "unmuted"
  BY DEF ChannelStep, Unmute, Say
<1>3. events'[s] = events[s] \o OnNotice(s, "unmuted")
  BY <1>2 DEF ChannelStep
<1>4. clientMuted'
  BY <1>2 DEF ChannelStep, SettleInv
<1>5. CASE s \notin sources
  <2>1. n = 0 /\ ~running[s]
    BY <1>1, <1>5 DEF Ends, RunInv
  <2>2. Ends(s, n)'
    BY <1>2, <1>4, <2>1 DEF Ends, Observed
  <2>3. OnNotice(s, "unmuted") = <<>>
    BY <1>5 DEF OnNotice
  <2>4. QED
    BY <1>1, <1>2, <1>3, <2>2, <2>3, QueueSettles
<1>6. CASE s \in sources
  <2>1. OnNotice(s, "unmuted") = <<"unmuted">>
    BY <1>6 DEF OnNotice
  <2>2. n < 2 /\ (n > 0 => Observed(s))
    BY <1>1, <1>2 DEF Ends
  <2>3. Ends(s, n + 1)'
    BY <1>1, <1>2, <1>4, <1>6, <2>2 DEF Ends, Observed
  <2>4. /\ n + 1 = After("unmuted", n) /\ "unmuted" \in Events
        /\ n + 1 \in 0 .. 2
    BY <1>1, <2>2, AfterEach
  <2>5. QED
    BY <1>1, <1>2, <1>3, <2>1, <2>3, <2>4, QueueSettles
<1>7. QED
  BY <1>5, <1>6

LEMMA ChannelStepSettles ==
  ASSUME OneThread, SamplingTypeOK, RunInv, SettleInv, ChannelStep,
         NEW s \in Sources
  PROVE  Settles(s)'
<1>1. ChannelNext
  BY DEF ChannelStep
<1> DEFINE Calm == /\ notice' \in {"none", "reset"} /\ UNCHANGED running
                   /\ sources \subseteq sources'
                   /\ \/ state' = state
                      \/ state \notin Started /\ state' # "MUTED"
<1>2. ASSUME Calm
      PROVE  Settles(s)'
  BY <1>2, CalmSettles
<1>3. ASSUME NEW t \in Threads, Configure(t)
      PROVE  Calm
  BY <1>3 DEF Configure, SetTarget, SetPid, SetKillPid, AddSource, Silent, Say
<1>4. ASSUME NEW t \in Threads, Start(t)
      PROVE  Calm
  BY <1>4 DEF Start, StartRefused, StartSpawnFails, StartSpawns,
              StartAttaches, Starting, Started, Say
<1>5. ASSUME NEW p \in AllPids, ProcessExits(p) \/ InferiorExited(p)
      PROVE  Calm
  BY <1>5 DEF ProcessExits, InferiorExited, Silent, Say
<1>6. CASE StopExited
  BY <1>2, <1>6, StopStartedSettles DEF StopExited, Silent, Say
<1>7. ASSUME NEW t \in Threads, Stop(t) \/ Mute(t) \/ Unmute(t)
      PROVE  Settles(s)'
  BY <1>7, StopStartedSettles, MuteSettles, UnmuteSettles DEF Stop
<1>8. ASSUME NEW t \in Threads, NotifyStarted(t)
      PROVE  Settles(s)'
  BY <1>8, NotifyStartedSettles
<1> HIDE DEF Calm
<1>9. QED
  BY <1>1, <1>2, <1>3, <1>4, <1>5, <1>6, <1>7, <1>8
     DEF ChannelNext, Call, AllPids

-----------------------------------------------------------------------------
(* The other steps.                                                        *)

\* A source of which a step changes nothing.
LEMMA SameSettles ==
  ASSUME SettleInv, NEW s \in Sources,
         UNCHANGED <<state, sources, late, clientMuted>>,
         events'[s] = events[s], attached'[s] = attached[s],
         running'[s] = running[s], entries'[s] = entries[s]
  PROVE  Settles(s)'
<1>1. PICK n \in 0 .. 2 : Leads(attached[s], events[s], n) /\ Ends(s, n)
  BY DEF SettleInv, Settles
<1>2. Ends(s, n)'
  BY <1>1 DEF Ends, Observed
<1>3. Leads(attached[s], events[s], n)'
  BY <1>1 DEF Leads, After
<1>4. QED
  BY <1>1, <1>2, <1>3 DEF Settles

\* The first subscription of a source that runs takes the automatic mute back.
LEMMA AddSubscriptionSettles ==
  ASSUME SamplingTypeOK, RunInv, SettleInv,
         NEW s \in Sources, AddSubscription(s)
  PROVE  Settles(s)'
<1>1. PICK n \in 0 .. 2 : Leads(attached[s], events[s], n) /\ Ends(s, n)
  BY DEF SettleInv, Settles
<1>2. /\ UNCHANGED <<state, sources, late, running, attached, clientMuted>>
      /\ events'[s] = events[s] \o AutoUnmute(s)
      /\ entries[s] \in Nat /\ entries'[s] = entries[s] + 1
  BY SamplingAssumption DEF AddSubscription, Enqueue, SamplingTypeOK
<1>3. CASE running[s] /\ entries[s] = 0
  <2>1. AutoUnmute(s) = <<"unmuted">>
    BY <1>3 DEF AutoUnmute
  <2>2. /\ n < 2 /\ (~clientMuted => n = 0)
        /\ state = "MUTED" => n = 0
    BY <1>1, <1>3 DEF Ends, Observed
  <2>3. s \in sources /\ state \in Started
    BY <1>3 DEF RunInv
  <2>4. Ends(s, n + 1)'
    BY <1>1, <1>2, <1>3, <2>2, <2>3 DEF Ends, Observed, Started
  <2>5. /\ n + 1 = After("unmuted", n) /\ "unmuted" \in Events
        /\ n + 1 \in 0 .. 2
    BY <1>1, <2>2, AfterEach
  <2>6. QED
    BY <1>1, <1>2, <2>1, <2>4, <2>5, QueueSettles
<1>4. CASE ~(running[s] /\ entries[s] = 0)
  <2>1. AutoUnmute(s) = <<>>
    BY <1>4 DEF AutoUnmute
  <2>2. Observed(s)' <=> Observed(s)
    BY <1>2, <1>4 DEF Observed
  <2>3. Ends(s, n)'
    BY <1>1, <1>2, <2>2 DEF Ends
  <2>4. QED
    BY <1>1, <1>2, <2>1, <2>3, QueueSettles
<1>5. QED
  BY <1>3, <1>4

LEMMA RemoveSubscriptionSettles ==
  ASSUME SamplingTypeOK, RunInv, SettleInv,
         NEW s \in Sources, RemoveSubscription(s)
  PROVE  Settles(s)'
<1>1. PICK n \in 0 .. 2 : Leads(attached[s], events[s], n) /\ Ends(s, n)
  BY DEF SettleInv, Settles
<1>2. PICK left \in 0 .. MaxEntries :
        /\ entries[s] \in {left, left + 1}
        /\ entries' = [entries EXCEPT ![s] = left]
        /\ Enqueue(s, IF running[s] /\ left = 0 THEN <<"muted">> ELSE <<>>)
  BY DEF RemoveSubscription
<1>3. /\ UNCHANGED <<state, sources, late, running, attached, clientMuted>>
      /\ entries'[s] = left /\ left \in Nat
      /\ events'[s] = events[s] \o (IF running[s] /\ left = 0
                                    THEN <<"muted">> ELSE <<>>)
  BY <1>2, SamplingAssumption DEF Enqueue, SamplingTypeOK
<1>4. CASE running[s] /\ left = 0
  <2> DEFINE m == IF n > 0 THEN n - 1 ELSE 0
  <2>1. m \in 0 .. 1
    BY <1>1
  <2>2. state = "MUTED" \/ ~clientMuted => m = 0
    <3>1. state = "MUTED" \/ ~clientMuted => n < 2
      BY <1>1 DEF Ends
    <3>2. QED
      BY <1>1, <3>1
  <2>3. ~Observed(s)' /\ s \in sources
    BY <1>3, <1>4 DEF Observed, RunInv
  <2>4. Ends(s, m)'
    <3> HIDE DEF m
    <3>1. QED
      BY <1>3, <2>1, <2>2, <2>3 DEF Ends
  <2>5. m = After("muted", n) /\ "muted" \in Events /\ m \in 0 .. 2
    BY <1>1, <2>1, AfterEach
  <2> HIDE DEF m
  <2>6. events'[s] = events[s] \o <<"muted">>
    BY <1>3, <1>4
  <2>7. QED
    BY <1>1, <1>3, <2>4, <2>5, <2>6, QueueSettles
<1>5. CASE ~(running[s] /\ left = 0)
  <2>1. events'[s] = events[s] \o <<>>
    BY <1>3, <1>5
  <2>2. Observed(s)' <=> Observed(s)
    BY <1>2, <1>3, <1>5 DEF Observed
  <2>3. Ends(s, n)'
    BY <1>1, <1>3, <2>2 DEF Ends
  <2>4. QED
    BY <1>1, <1>3, <2>1, <2>3, QueueSettles
<1>6. QED
  BY <1>4, <1>5

LEMMA RetireSettles ==
  ASSUME SamplingTypeOK, RunInv, SettleInv,
         NEW s \in Sources, RetireSource(s)
  PROVE  Settles(s)'
<1>1. /\ UNCHANGED <<entries, attached, sources, state, clientMuted>>
      /\ events'[s] = events[s] \o OnNotice(s, "stopped")
      /\ ~running'[s]
  BY DEF RetireSource, SamplingTypeOK, ChannelTypeOK
<1>2. clientMuted' <=> clientMuted \/ state' = "MUTED"
  BY <1>1 DEF SettleInv
<1>3. QED
  BY <1>1, <1>2, StoppedSettles

\* What is emitted was on the way.
LEMMA EmitSettles ==
  ASSUME SamplingTypeOK, SettleInv, NEW s \in Sources, Emit(s)
  PROVE  Settles(s)'
<1>1. PICK n \in 0 .. 2 : Leads(attached[s], events[s], n) /\ Ends(s, n)
  BY DEF SettleInv, Settles
<1>2. /\ UNCHANGED <<entries, sources, running, state, clientMuted>>
      /\ events[s] \in Seq(Events) /\ events[s] # <<>>
      /\ events'[s] = Tail(events[s])
      /\ attached'[s] = After(Head(events[s]), attached[s])
  BY DEF Emit, SamplingTypeOK, Events
<1>3. Ends(s, n)'
  BY <1>1, <1>2 DEF Ends, Observed
<1>4. Leads(attached'[s], events'[s], n)
  BY <1>1, <1>2, LeadsTail
<1>5. Leads(attached[s], events[s], n)'
  BY <1>4 DEF Leads, After
<1>6. QED
  BY <1>1, <1>3, <1>5 DEF Settles

LEMMA OtherStepSettles ==
  ASSUME SamplingTypeOK, RunInv, SettleInv, NEW r \in Sources,
         \/ AddSubscription(r) \/ RemoveSubscription(r)
         \/ RetireSource(r) \/ Emit(r) \/ Sample(r),
         NEW s \in Sources
  PROVE  Settles(s)'
<1>1. CASE s = r /\ ~Sample(r)
  BY <1>1, AddSubscriptionSettles, RemoveSubscriptionSettles, RetireSettles,
     EmitSettles
<1>2. CASE s # r \/ Sample(r)
  <2>1. UNCHANGED <<state, sources, late, clientMuted>>
    BY DEF AddSubscription, RemoveSubscription, Enqueue, RetireSource, Emit,
           Sample
  <2>2. /\ events'[s] = events[s] /\ attached'[s] = attached[s]
        /\ running'[s] = running[s] /\ entries'[s] = entries[s]
    BY <1>2 DEF AddSubscription, RemoveSubscription, Enqueue, RetireSource,
                Emit, Sample, SamplingTypeOK, ChannelTypeOK
  <2>3. QED
    BY <2>1, <2>2, SameSettles
<1>3. QED
  BY <1>1, <1>2

-----------------------------------------------------------------------------
(* The invariant and what follows from it.                                 *)

LEMMA SamplingRunInvStep ==
  ASSUME OneThread, SamplingTypeOK, RunInv, [SamplingNext]_svars
  PROVE  RunInv'
<1>1. CASE ChannelStep
  BY <1>1, RunInvStep DEF ChannelStep, SamplingTypeOK
<1>2. CASE UNCHANGED <<state, sources, late, calls>>
           /\ \A s \in Sources : running'[s] => running[s]
  BY <1>2 DEF RunInv, NotifyPending
<1>3. ASSUME NEW r \in Sources,
             \/ AddSubscription(r) \/ RemoveSubscription(r)
             \/ RetireSource(r) \/ Emit(r) \/ Sample(r)
      PROVE  UNCHANGED <<state, sources, late, calls>>
             /\ \A s \in Sources : running'[s] => running[s]
  BY <1>3 DEF AddSubscription, RemoveSubscription, Enqueue, RetireSource,
              Emit, Sample, SamplingTypeOK, ChannelTypeOK
<1>4. CASE UNCHANGED svars
  BY <1>2, <1>4 DEF svars, cvars
<1>5. QED
  BY <1>1, <1>2, <1>3, <1>4 DEF SamplingNext

LEMMA SettleInvStep ==
  ASSUME OneThread, SamplingTypeOK, RunInv, SettleInv, [SamplingNext]_svars
  PROVE  SettleInv'
<1>1. CASE ChannelStep
  <2>1. state' = "MUTED" => clientMuted'
    BY <1>1 DEF ChannelStep
  <2>2. \A s \in Sources : Settles(s)'
    BY <1>1, ChannelStepSettles
  <2>3. QED
    BY <2>1, <2>2 DEF SettleInv
<1>2. ASSUME NEW r \in Sources,
             \/ AddSubscription(r) \/ RemoveSubscription(r)
             \/ RetireSource(r) \/ Emit(r) \/ Sample(r)
      PROVE  SettleInv'
  <2>1. UNCHANGED <<state, clientMuted>>
    BY <1>2 DEF AddSubscription, RemoveSubscription, Enqueue, RetireSource,
                Emit, Sample
  <2>2. \A s \in Sources : Settles(s)'
    BY <1>2, OtherStepSettles
  <2>3. QED
    BY <2>1, <2>2 DEF SettleInv
<1>3. CASE UNCHANGED svars
  <2>1. UNCHANGED <<state, sources, late, clientMuted, events, attached, running,
                    entries>>
    BY <1>3 DEF svars, cvars, sampling
  <2>2. \A s \in Sources : Settles(s)'
    BY <2>1, SameSettles
  <2>3. QED
    BY <2>1, <2>2 DEF SettleInv
<1>4. QED
  BY <1>1, <1>2, <1>3 DEF SamplingNext

LEMMA SamplingInitSettles == SamplingInit => RunInv /\ SettleInv
<1> SUFFICES ASSUME SamplingInit
             PROVE  RunInv /\ SettleInv
  OBVIOUS
<1>1. RunInv
  BY DEF SamplingInit, ChannelInit, RunInv, NotifyPending
<1>2. ASSUME NEW s \in Sources
      PROVE  Settles(s)
  <2>1. /\ events[s] = <<>> /\ attached[s] = 0 /\ entries[s] = 0
        /\ state = "READY" /\ running[s] = FALSE /\ clientMuted = FALSE
    BY <1>2 DEF SamplingInit, ChannelInit
  <2>2. Leads(attached[s], events[s], 0)
    BY <2>1, LeadsNowhere
  <2>3. Ends(s, 0)
    BY <2>1 DEF Ends, Observed
  <2>4. QED
    BY <2>2, <2>3 DEF Settles
<1>3. state # "MUTED"
  BY DEF SamplingInit, ChannelInit
<1>4. QED
  BY <1>1, <1>2, <1>3 DEF SettleInv

LEMMA SamplingInvariant ==
  ASSUME OneThread
  PROVE  SamplingSpec => [](SamplingTypeOK /\ RunInv /\ SettleInv)
<1> DEFINE I == SamplingTypeOK /\ RunInv /\ SettleInv
<1>1. SamplingInit => I
  BY SamplingInitTypes, SamplingInitSettles
<1>2. I /\ [SamplingNext]_svars => I'
  BY SamplingNextTypes, SamplingRunInvStep, SettleInvStep
<1>3. QED
  BY <1>1, <1>2, PTL DEF SamplingSpec

\* A source whose events are out is where they lead.
LEMMA SettledEnds ==
  ASSUME SettleInv, NEW s \in Sources, Settled(s)
  PROVE  attached[s] \in 0 .. 2 /\ Ends(s, attached[s])
<1>1. PICK n \in 0 .. 2 : Leads(attached[s], events[s], n) /\ Ends(s, n)
  BY DEF SettleInv, Settles
<1>2. n = attached[s]
  BY <1>1, LeadsNowhere DEF Settled
<1>3. QED
  BY <1>1, <1>2

(***************************************************************************)
(* However many events are queued and however mutes, automatic mutes,      *)
(* stops and retirements were mixed: a source that runs in an unmuted      *)
(* channel and has a subscription is in the shared list once its events    *)
(* have been emitted (pka-source.c:486, pka-source-simple.c:505).          *)
(***************************************************************************)
THEOREM ObservedSourcesAreAttached ==
  ASSUME OneThread PROVE SamplingSpec => []ObservedIsAttached
<1>1. SettleInv => ObservedIsAttached
  BY SettledEnds DEF ObservedIsAttached, Ends, Observed
<1>2. QED
  BY <1>1, SamplingInvariant, PTL

(***************************************************************************)
(* No number of calls piles entries of a source up in the shared list:     *)
(* neither now nor on the way through what it has queued are there more    *)
(* than two.                                                               *)
(***************************************************************************)
THEOREM EntriesDoNotPileUp ==
  ASSUME OneThread PROVE SamplingSpec => []NoPileUp
<1>1. SamplingTypeOK /\ SettleInv => NoPileUp
  <2> SUFFICES ASSUME SamplingTypeOK, SettleInv, NEW s \in Sources
               PROVE  attached[s] <= 2
    BY DEF NoPileUp
  <2>1. PICK n \in 0 .. 2 : Leads(attached[s], events[s], n)
    BY DEF SettleInv, Settles
  <2>2. events[s] \in Seq(Events)
    BY DEF SamplingTypeOK, Events
  <2>3. attached[s] \in 0 .. 2
    BY <2>1, <2>2, LeadsStart
  <2>4. QED
    BY <2>3
<1>2. QED
  BY <1>1, SamplingInvariant, PTL

(***************************************************************************)
(* As long as no client has muted the channel, a source whose events have  *)
(* been emitted is in the shared list once if it runs and is subscribed    *)
(* to, and not at all otherwise: the automatic mute of pka-source.c is     *)
(* exact.                                                                  *)
(***************************************************************************)
THEOREM AutomaticMuteIsExact ==
  ASSUME OneThread PROVE SamplingSpec => []AutoMuteIsExact
<1>1. SettleInv => AutoMuteIsExact
  BY SettledEnds DEF AutoMuteIsExact, Ends, Observed
<1>2. QED
  BY <1>1, SamplingInvariant, PTL
=============================================================================
