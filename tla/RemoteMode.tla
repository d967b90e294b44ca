----------------------------- MODULE RemoteMode -----------------------------
(***************************************************************************)
(* What the control plane may rely on when it switches the privacy mode    *)
(* of an agent by commands: the mode that survives a restart of the agent  *)
(* changes only by the command at the head of the queue, commands are      *)
(* answered once and in order, and a switch is answered with "success"     *)
(* only while its mode is in force.                                        *)
(***************************************************************************)
EXTENDS Integers, Sequences

CONSTANTS Modes,         \* the privacy modes
          InitialMode,   \* the mode of the configuration
          MaxCommands    \* commands that are ever issued

VARIABLES kind,      \* what each command asks for: a mode, or something else
          results,   \* the answers, in the order of the commands
          mode       \* the mode in force after a restart

modeVars == <<kind, results, mode>>

Pending == Len(results) + 1

Init == results = <<>> /\ mode = InitialMode

\* The command at the head takes effect, perhaps before it is answered.
Switch ==
  /\ Pending <= MaxCommands /\ kind[Pending] \in Modes
  /\ mode' = kind[Pending]
  /\ UNCHANGED <<kind, results>>

Answer(status) ==
  /\ Pending <= MaxCommands
  /\ status = "success" /\ kind[Pending] \in Modes => mode = kind[Pending]
  /\ results' = Append(results, status)
  /\ UNCHANGED <<kind, mode>>

Next == Switch \/ \E status \in {"success", "error"} : Answer(status)

Spec == Init /\ [][Next]_modeVars

=============================================================================
