-------------------------- MODULE HeartbeatsProofs --------------------------
(***************************************************************************)
(* Proof that the heartbeat sender does not disturb the poller: the agent  *)
(* with both is an agent with the poller, and what is proved of the one    *)
(* holds of the other.                                                     *)
(***************************************************************************)
EXTENDS Heartbeats, CommandPollerProofs

\* A step of the sender leaves the poller and the mode alone; every other
\* step is one of the poller's module.
LEMMA AgentStep == [AgentNext]_allVars => [Next]_vars
<1> SUFFICES ASSUME [AgentNext]_allVars PROVE [Next]_vars
  OBVIOUS
<1>1. CASE AgentBoot \/ AgentEnds \/ AgentPolls
  BY <1>1 DEF AgentBoot, AgentEnds, AgentPolls, Next
<1>2. CASE Sender
  BY <1>2 DEF Sender, Build, HeartbeatArrives, HeartbeatLost, StopSending
<1>3. CASE UNCHANGED allVars
  BY <1>3 DEF allVars
<1> QED
  BY <1>1, <1>2, <1>3 DEF AgentNext

\* The agent with both goroutines implements the agent with the poller.
THEOREM AgentIsPoller == AgentSpec => Spec
<1>1. AgentInit => Init
  BY DEF AgentInit
<1> QED
  BY <1>1, AgentStep, PTL DEF AgentSpec, Spec

\* With heartbeats reading the mode while it is switched, SwitchMode still
\* leaves no trace of a failure.
THEOREM AgentModeIsPersistent == AgentSpec => []ModeIsPersistent
BY AgentIsPoller, NoTraceOfFailure, PTL

\* The agent with both goroutines is a correct RemoteMode.
THEOREM AgentRefinement == AgentSpec => ImplementsRemoteMode
BY AgentIsPoller, Refinement, PTL

=============================================================================
