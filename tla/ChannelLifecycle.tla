--------------------------- MODULE ChannelLifecycle ---------------------------
(***************************************************************************)
(* What a channel promises its sources, whatever it does with a process:   *)
(* they run exactly while a run of the channel is on, a run begins and     *)
(* ends for all of its sources at once, a source that joins while a run is *)
(* on is started at once, and a failed channel has no run any more.        *)
(***************************************************************************)
CONSTANT Sources

VARIABLES
  phase,   \* idle, active, quiet (muted), over or failed
  members, \* the sources that have joined
  active   \* the sources that run

lvars == <<phase, members, active>>

Init ==
  /\ phase = "idle"
  /\ members = {}
  /\ active = {}

On == phase \in {"active", "quiet"}

Join(s) ==
  /\ members' = members \cup {s}
  /\ active' = IF On THEN active \cup {s} ELSE active
  /\ UNCHANGED phase

Begin ==
  /\ phase \in {"idle", "over"}
  /\ phase' = "active"
  /\ active' = members
  /\ UNCHANGED members

Pause ==
  /\ phase = "active"
  /\ phase' = "quiet"
  /\ UNCHANGED <<members, active>>

Resume ==
  /\ phase = "quiet"
  /\ phase' = "active"
  /\ UNCHANGED <<members, active>>

\* Sources may join in the same step: there is no run to start them in.
End ==
  /\ On
  /\ phase' = "over"
  /\ active' = {}
  /\ members \subseteq members'

\* An attempt to begin that comes to nothing.
Abandon ==
  /\ phase \in {"idle", "over"}
  /\ phase' \in {"idle", "failed"}
  /\ UNCHANGED <<members, active>>

Next ==
  \/ \E s \in Sources : Join(s)
  \/ Begin
  \/ Pause
  \/ Resume
  \/ End
  \/ Abandon

Spec == Init /\ [][Next]_lvars
=============================================================================
