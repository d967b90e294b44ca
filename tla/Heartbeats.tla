----------------------------- MODULE Heartbeats -----------------------------
(***************************************************************************)
(* The agent as the control plane sees it: the command poller of           *)
(* CommandPoller together with the heartbeat sender                        *)
(* (internal/agent/heartbeat_sender.go), whose goroutine main.go starts    *)
(* under the same context.  A heartbeat carries the mode that GetMode      *)
(* returned when the payload was built: SwitchMode may be under way, may   *)
(* roll the mode back, or may end before the heartbeat arrives.            *)
(***************************************************************************)
EXTENDS CommandPoller

CONSTANT MaxLostBeats   \* bound: heartbeats that are lost

ASSUME BeatAssumption == MaxLostBeats \in Nat

VARIABLES
  hpc,       \* where the heartbeat sender stands
  hmode,     \* the mode in the payload it is sending
  reported,  \* the control plane: the mode of the last heartbeat received
  lostBeats  \* what the bound counts

senderVars == <<hpc, hmode, reported, lostBeats>>
allVars == <<vars, senderVars>>

AgentInit ==
  /\ Init
  /\ hpc = "down" /\ hmode = Unset /\ reported = Unset
  /\ lostBeats = 0

\* main starts the heartbeat sender before the poller.
AgentBoot ==
  /\ Boot
  /\ hpc' = "due"
  /\ UNCHANGED <<hmode, reported, lostBeats>>

AgentEnds ==
  /\ ProcessEnds
  /\ hpc' = "down" /\ hmode' = Unset
  /\ UNCHANGED <<reported, lostBeats>>

AgentPolls == Poller /\ UNCHANGED senderVars

-----------------------------------------------------------------------------
(* HeartbeatSender.Start and sendHeartbeat *)

\* Variant: a sender that was built with a mode keeps it.
BuildOnce ==
  /\ hpc = "due" /\ ~cancelled
  /\ hmode' = IF hmode = Unset THEN mode ELSE hmode
  /\ hpc' = "sending"
  /\ UNCHANGED <<vars, reported, lostBeats>>

\* At the start, and whenever the ticker fires, a payload is built with the
\* mode of that moment.  With a cancelled context the request is refused
\* before it is sent, which changes nothing.
Build ==
  /\ hpc = "due" /\ ~cancelled
  /\ hmode' = mode
  /\ hpc' = "sending"
  /\ UNCHANGED <<vars, reported, lostBeats>>

\* The heartbeat arrives, whether or not the sender learns of it.
HeartbeatArrives ==
  /\ hpc = "sending"
  /\ reported' = hmode
  /\ hpc' = "due"
  /\ UNCHANGED <<vars, hmode, lostBeats>>

\* The request is lost, or ended by the context; nothing is sent again
\* before the ticker fires.
HeartbeatLost ==
  /\ hpc = "sending"
  /\ \/ cancelled /\ UNCHANGED lostBeats
     \/ ~cancelled /\ lostBeats < MaxLostBeats /\ lostBeats' = lostBeats + 1
  /\ hpc' = "due"
  /\ UNCHANGED <<vars, hmode, reported>>

StopSending ==
  /\ hpc = "due" /\ cancelled
  /\ hpc' = "stopped"
  /\ UNCHANGED <<vars, hmode, reported, lostBeats>>

Sender == Build \/ HeartbeatArrives \/ HeartbeatLost \/ StopSending

AgentNext == AgentBoot \/ AgentEnds \/ AgentPolls \/ Sender

\* Both goroutines run and their tickers fire; the orchestrator starts the
\* process again.
AgentSpec ==
  /\ AgentInit /\ [][AgentNext]_allVars
  /\ WF_allVars(AgentBoot) /\ WF_allVars(AgentPolls) /\ WF_allVars(Sender)

-----------------------------------------------------------------------------
(* Properties *)

\* Heartbeats may report a mode that is later rolled back, or one that has
\* been replaced since.  In the end, if no command was a restart, the
\* control plane knows the mode the agent would also have after a restart.
ControlPlaneConverges ==
  (\A c \in Commands : kind[c] # Restart) => <>[](reported = Persistent)

=============================================================================
