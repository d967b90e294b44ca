------------------------ MODULE CommandPollerProofs ------------------------
(***************************************************************************)
(* Proofs about CommandPoller, for any number of commands, of any kinds,   *)
(* and any number of losses, failures and ends of the process: it is a     *)
(* correct RemoteMode.                                                     *)
(***************************************************************************)
EXTENDS CommandPoller, TLAPS

Statuses == {"success", "error"}

\* What SwitchMode has in hand until the state file is renamed.
Switching ==
  /\ pc \in {"save", "write", "rename"} =>
       kind[cmd] \in Modes /\ mode = kind[cmd] /\ old = Persistent
  /\ pc = "rename" => temp = kind[cmd]

\* A switch that is about to be acknowledged has taken effect.
AckIsTrue ==
  pc = "ack" /\ status = "success" /\ kind[cmd] \in Modes => mode = kind[cmd]

\* The inductive invariant.
IInv == TypeOK /\ ModeIsPersistent /\ Switching /\ AckIsTrue

\* What a step leaves alone when it only moves the poller.
Idle == UNCHANGED <<kind, results, file, temp, cmd>>

LEMMA ModesAreModes ==
  Unset \notin Modes /\ Garbage \notin Modes /\ Restart \notin Modes
    /\ Refused \notin Modes
BY DEF Unset, Garbage, Restart, Refused, Modes

\* The process is down at first.
LEMMA InitHolds == Init => IInv
<1> SUFFICES ASSUME Init PROVE IInv
  OBVIOUS
<1>1. kind \in [Commands -> Modes \cup {Restart, Refused}]
  BY PollerAssumption DEF Init
<1>2. results \in Seq(Statuses) /\ Len(results) = 0
  BY DEF Init
<1>3. cmd \in 0..MaxCommands
  BY PollerAssumption DEF Init
<1>4. TypeOK
  <2>1. Len(results) <= MaxCommands
    BY <1>2, PollerAssumption
  <2>2. /\ pc = "down" /\ status = "error" /\ cancelled = FALSE
        /\ file = Unset /\ temp = Unset /\ mode = Unset /\ old = Unset
        /\ losses = 0 /\ failures = 0 /\ ends = 0
    BY DEF Init
  <2> QED
    BY <1>1, <1>2, <1>3, <2>1, <2>2 DEF TypeOK, Statuses
<1>5. ModeIsPersistent /\ Switching /\ AckIsTrue
  BY DEF Init, ModeIsPersistent, Switching, AckIsTrue
<1> QED
  BY <1>4, <1>5 DEF IInv

-----------------------------------------------------------------------------
(* The steps *)

\* The types: a result is appended only for the oldest command without one.
LEMMA TypeStep == IInv /\ [Next]_vars => TypeOK'
<1> USE PollerAssumption, ModesAreModes
<1> SUFFICES ASSUME IInv, [Next]_vars PROVE TypeOK'
  OBVIOUS
<1> USE DEF IInv, TypeOK, Pending, Commands, Goto, Finish
<1>1. CASE Boot
  BY <1>1 DEF Boot, Persistent
<1>2. CASE ProcessEnds
  <2>1. cmd' \in 0..MaxCommands /\ ends' \in Nat
    BY <1>2 DEF ProcessEnds
  <2> QED
    BY <1>2, <2>1 DEF ProcessEnds
<1>3. CASE Tick \/ StopPolling \/ PollNothing
  BY <1>3 DEF Tick, StopPolling, PollNothing
<1>4. CASE PollCommand
  BY <1>4 DEF PollCommand
<1>5. CASE Refuse \/ ExecuteRestart
  BY <1>5 DEF Refuse, ExecuteRestart
<1>6. CASE ExecuteSwitch
  BY <1>6 DEF ExecuteSwitch
<1>7. CASE Save
  BY <1>7 DEF Save, BeginWrite, EndWrite, Rename, SaveFails, Fail, Switching,
     Persistent
<1>8. CASE AckArrives
  <2>1. results' = Append(results, status) /\ status \in Statuses
    BY <1>8 DEF AckArrives, Statuses
  <2>2. results' \in Seq(Statuses) /\ Len(results') = Len(results) + 1
    BY <2>1 DEF Statuses
  <2> QED
    BY <1>8, <2>2 DEF AckArrives, AfterAck, Statuses
<1>9. CASE AckLost
  BY <1>9 DEF AckLost, AfterAck
<1>10. CASE UNCHANGED vars
  BY <1>10 DEF vars, agentVars
<1> QED
  BY <1>1, <1>2, <1>3, <1>4, <1>5, <1>6, <1>7, <1>8, <1>9, <1>10
     DEF Next, Poller

\* The mode in memory follows the state file, save inside SwitchMode, which
\* remembers the mode to roll back to.
LEMMA ModeStep ==
  IInv /\ [Next]_vars => ModeIsPersistent' /\ Switching' /\ AckIsTrue'
<1> USE ModesAreModes
<1> DEFINE Mode == ModeIsPersistent /\ Switching /\ AckIsTrue
<1> SUFFICES ASSUME IInv, [Next]_vars PROVE Mode'
  OBVIOUS
<1> USE DEF IInv, TypeOK, ModeIsPersistent, Switching, AckIsTrue, Persistent,
        Goto, Finish
<1>1. CASE Boot
  BY <1>1 DEF Boot
<1>2. CASE ProcessEnds
  BY <1>2 DEF ProcessEnds
<1>3. CASE Tick \/ StopPolling \/ PollNothing
  BY <1>3 DEF Tick, StopPolling, PollNothing
<1>4. CASE PollCommand
  BY <1>4 DEF PollCommand
<1>5. CASE Refuse \/ ExecuteRestart
  BY <1>5 DEF Refuse, ExecuteRestart
<1>6. CASE ExecuteSwitch
  BY <1>6 DEF ExecuteSwitch
<1>7. CASE BeginWrite \/ EndWrite
  BY <1>7 DEF BeginWrite, EndWrite
<1>8. CASE Rename
  BY <1>8 DEF Rename
<1>9. CASE SaveFails
  BY <1>9 DEF SaveFails, Fail
<1>10. CASE AckArrives \/ AckLost
  BY <1>10 DEF AckArrives, AckLost, AfterAck
<1>11. CASE UNCHANGED vars
  BY <1>11 DEF vars, agentVars
<1> QED
  BY <1>1, <1>2, <1>3, <1>4, <1>5, <1>6, <1>7, <1>8, <1>9, <1>10, <1>11
     DEF Next, Poller, Save

\* The invariant holds throughout.
LEMMA Inductive == Spec => []IInv
<1>1. IInv /\ [Next]_vars => IInv'
  BY TypeStep, ModeStep DEF IInv
<1> QED
  BY <1>1, InitHolds, PTL DEF Spec

-----------------------------------------------------------------------------
(* The theorems *)

\* The state file is never partly written, and every variable keeps its
\* type.
THEOREM TypeCorrect == Spec => []TypeOK
<1>1. IInv => TypeOK
  BY DEF IInv
<1> QED
  BY <1>1, Inductive, PTL

\* SwitchMode, whether it succeeds or rolls back, leaves the mode in memory
\* equal to the one a restart would load.
THEOREM NoTraceOfFailure == Spec => []ModeIsPersistent
<1>1. IInv => ModeIsPersistent
  BY DEF IInv
<1> QED
  BY <1>1, Inductive, PTL

\* A step of the agent is a step of RemoteMode or changes none of its state:
\* the mode that survives a restart moves with the rename, and only to what
\* the oldest unanswered command asks for.
LEMMA Simulation == IInv /\ [Next]_vars => [RM!Next]_(RM!modeVars)
<1> USE ModesAreModes
<1> SUFFICES ASSUME IInv, [Next]_vars PROVE [RM!Next]_(RM!modeVars)
  OBVIOUS
<1>1. CASE Rename
  <2>1. /\ Pending <= MaxCommands /\ kind[Pending] \in Modes
        /\ Persistent' = kind[Pending]
    BY <1>1 DEF Rename, IInv, TypeOK, Switching, Persistent, Commands
  <2>2. UNCHANGED <<kind, results>>
    BY <1>1 DEF Rename
  <2> QED
    BY <2>1, <2>2 DEF RM!Next, RM!Switch, RM!Pending, Pending
<1>2. CASE AckArrives
  <2>1. /\ Pending <= MaxCommands /\ status \in Statuses
        /\ results' = Append(results, status)
        /\ UNCHANGED <<kind, file>>
    BY <1>2 DEF AckArrives, IInv, TypeOK, Commands, Statuses
  <2>2. status = "success" /\ kind[Pending] \in Modes =>
          Persistent = kind[Pending]
    BY <1>2 DEF AckArrives, IInv, TypeOK, ModeIsPersistent, AckIsTrue
  <2>3. RM!Answer(status)
    BY <2>1, <2>2 DEF RM!Answer, RM!Pending, Pending, Persistent
  <2> QED
    BY <2>1, <2>3 DEF RM!Next, Statuses
<1>3. CASE UNCHANGED vars
  BY <1>3 DEF vars, RM!modeVars, Persistent
<1>4. CASE Next /\ ~Rename /\ ~AckArrives
  <2>1. UNCHANGED <<kind, results, file>>
    BY <1>4 DEF Next, Poller, Save, Boot, ProcessEnds, Tick, StopPolling,
       PollNothing, PollCommand, Refuse, ExecuteRestart, ExecuteSwitch,
       BeginWrite, EndWrite, SaveFails, Fail, AckLost
  <2> QED
    BY <2>1 DEF RM!modeVars, Persistent
<1> QED
  BY <1>1, <1>2, <1>3, <1>4

\* Commands take effect and are answered in order, and a switch answered
\* with "success" is in force over every later restart.
THEOREM Refinement == Spec => ImplementsRemoteMode
<1>1. Init => RM!Init
  BY DEF Init, RM!Init, Persistent
<1> QED
  BY <1>1, Simulation, Inductive, PTL
     DEF Spec, ImplementsRemoteMode, RM!Spec

=============================================================================
