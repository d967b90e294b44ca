---------------------------- MODULE CommandPoller ----------------------------
(***************************************************************************)
(* The command poller of server mode (internal/polling/poller.go), its     *)
(* handlers (handlers.go), the privacy mode of the agent                   *)
(* (internal/agent/agent.go) and the state file that keeps the mode over   *)
(* restarts (internal/state/state.go).                                     *)
(*                                                                         *)
(* The control plane is external: it hands out the oldest command until a  *)
(* result for it arrives.  Requests and answers get lost, writes fail, and *)
(* the process may end before any step and is started again.               *)
(***************************************************************************)
EXTENDS Integers, Sequences

CONSTANTS Kinds,         \* what commands may ask for
          InitialMode,   \* Privacy.Mode of the configuration
          MaxCommands,   \* bound: commands
          MaxLosses,     \* bound: requests that fail
          MaxFailures,   \* bound: failures of a write or a rename
          MaxEnds        \* bound: ends of the process

Modes == {"strict", "passthrough"}
Restart == "restart"
\* An upgrade, an unknown type, a switch to no valid mode.
Refused == "refused"

ASSUME PollerAssumption ==
  /\ Kinds \subseteq Modes \cup {Restart, Refused}
  /\ InitialMode \in Modes
  /\ MaxCommands \in Nat /\ MaxLosses \in Nat
  /\ MaxFailures \in Nat /\ MaxEnds \in Nat

Unset == "unset"      \* no state file, and no mode of a process that is down
Garbage == "garbage"  \* a file partly written

VARIABLES
  kind,       \* the control plane: what each command asks for
  results,    \* the control plane: the results received
  file,       \* the mode in the state file
  temp,       \* the mode in the temporary file
  mode,       \* Agent.mode
  old,        \* oldMode of SwitchMode
  pc,         \* where the poller stands
  cmd,        \* the command it executes
  status,     \* the status it acknowledges
  cancelled,  \* handlerCtx is done
  losses, failures, ends   \* what the bounds count

agentVars == <<mode, old, pc, cmd, status, cancelled>>
vars == <<kind, results, file, temp, agentVars, losses, failures, ends>>

Commands == 1..MaxCommands
Pending == Len(results) + 1

\* Agent.New: the state file overrides the configuration.
Persistent == IF file = Unset THEN InitialMode ELSE file

Init ==
  /\ kind \in [Commands -> Kinds]
  /\ results = <<>>
  /\ file = Unset /\ temp = Unset
  /\ mode = Unset /\ old = Unset
  /\ pc = "down" /\ cmd = 0 /\ status = "error"
  /\ cancelled = FALSE
  /\ losses = 0 /\ failures = 0 /\ ends = 0

-----------------------------------------------------------------------------
(* The process *)

\* NewManager, agent.New, Poller.Start: a file that cannot be parsed ends
\* the process.
Boot ==
  /\ pc = "down" /\ file # Garbage
  /\ mode' = Persistent
  /\ pc' = "poll"
  /\ UNCHANGED <<kind, results, file, temp, old, cmd, status, cancelled,
                 losses, failures, ends>>

\* A crash, a kill, or the end of main.
ProcessEnds ==
  /\ pc # "down" /\ ends < MaxEnds
  /\ mode' = Unset /\ old' = Unset
  /\ pc' = "down" /\ cmd' = 0 /\ status' = "error"
  /\ cancelled' = FALSE
  /\ ends' = ends + 1
  /\ UNCHANGED <<kind, results, file, temp, losses, failures>>

-----------------------------------------------------------------------------
(* Poller.Start and pollOnce *)

Goto(l) ==
  /\ pc' = l
  /\ UNCHANGED <<cmd, status>>

\* The ticker fires; with a cancelled context the select may still take it.
Tick ==
  /\ pc = "wait"
  /\ Goto("poll")
  /\ UNCHANGED <<kind, results, file, temp, mode, old, cancelled,
                 losses, failures, ends>>

StopPolling ==
  /\ pc = "wait" /\ cancelled
  /\ Goto("stopped")
  /\ UNCHANGED <<kind, results, file, temp, mode, old, cancelled,
                 losses, failures, ends>>

\* The request or its answer is lost, or there is no command.
PollNothing ==
  /\ pc = "poll"
  /\ \/ (cancelled \/ Pending > MaxCommands) /\ UNCHANGED losses
     \/ losses < MaxLosses /\ losses' = losses + 1
  /\ Goto("wait")
  /\ UNCHANGED <<kind, results, file, temp, mode, old, cancelled,
                 failures, ends>>

PollCommand ==
  /\ pc = "poll" /\ ~cancelled /\ Pending <= MaxCommands
  /\ cmd' = Pending
  /\ pc' = "execute"
  /\ UNCHANGED <<kind, results, file, temp, mode, old, status, cancelled,
                 losses, failures, ends>>

Finish(s) ==
  /\ pc' = "ack"
  /\ status' = s
  /\ UNCHANGED cmd

\* Variant: only what succeeds is acknowledged.
RefuseSilently ==
  /\ pc = "execute" /\ kind[cmd] = Refused
  /\ Goto("wait")
  /\ UNCHANGED <<kind, results, file, temp, mode, old, cancelled,
                 losses, failures, ends>>

\* No handler, HandleUpgrade, or a mode that is refused.
Refuse ==
  /\ pc = "execute" /\ kind[cmd] = Refused
  /\ Finish("error")
  /\ UNCHANGED <<kind, results, file, temp, mode, old, cancelled,
                 losses, failures, ends>>

\* HandleRestart: Agent.Stop calls the shutdown function, handlerCancel,
\* whose context the poller itself runs under.
ExecuteRestart ==
  /\ pc = "execute" /\ kind[cmd] = Restart
  /\ cancelled' = TRUE
  /\ Finish("success")
  /\ UNCHANGED <<kind, results, file, temp, mode, old,
                 losses, failures, ends>>

\* HandleSwitchMode: nothing to do, or SwitchMode stores the mode first.
ExecuteSwitch ==
  /\ pc = "execute" /\ kind[cmd] \in Modes
  /\ \/ /\ kind[cmd] = mode
        /\ Finish("success")
        /\ UNCHANGED <<mode, old>>
     \/ /\ kind[cmd] # mode
        /\ old' = mode
        /\ mode' = kind[cmd]
        /\ Goto("save")
  /\ UNCHANGED <<kind, results, file, temp, cancelled, losses, failures, ends>>

-----------------------------------------------------------------------------
(* Manager.SetPrivacyMode and Save *)

\* Variant: the state file is written in place.
BeginWriteInPlace ==
  /\ pc = "save"
  /\ file' = Garbage
  /\ Goto("write")
  /\ UNCHANGED <<kind, results, temp, mode, old, cancelled,
                 losses, failures, ends>>

\* WriteFile truncates the temporary file before it writes.
BeginWrite ==
  /\ pc = "save"
  /\ temp' = Garbage
  /\ Goto("write")
  /\ UNCHANGED <<kind, results, file, mode, old, cancelled,
                 losses, failures, ends>>

EndWrite ==
  /\ pc = "write"
  /\ temp' = kind[cmd]
  /\ Goto("rename")
  /\ UNCHANGED <<kind, results, file, mode, old, cancelled,
                 losses, failures, ends>>

Rename ==
  /\ pc = "rename"
  /\ file' = temp
  /\ temp' = Unset
  /\ Finish("success")
  /\ UNCHANGED <<kind, results, mode, old, cancelled, losses, failures, ends>>

\* The temporary file cannot be opened or written, or not be renamed; only a
\* failed rename removes it.  SwitchMode leaves m as the mode.
Fail(m, s) ==
  /\ pc \in {"save", "write", "rename"} /\ failures < MaxFailures
  /\ temp' = IF pc = "rename" THEN Unset ELSE temp
  /\ mode' = m
  /\ Finish(s)
  /\ failures' = failures + 1
  /\ UNCHANGED <<kind, results, file, old, cancelled, losses, ends>>

\* Variants: the mode is not rolled back; the error of Save is ignored.
SaveFailsNoRollback == Fail(mode, "error")
SaveFailsIgnored == Fail(mode, "success")

SaveFails == Fail(old, "error")

-----------------------------------------------------------------------------
(* acknowledge *)

\* After a success the next command is polled for at once.
AfterAck == Goto(IF status = "success" THEN "poll" ELSE "wait")

\* The result arrives, whether or not the poller learns of it.
AckArrives ==
  /\ pc = "ack" /\ ~cancelled
  /\ results' = Append(results, status)
  /\ AfterAck
  /\ UNCHANGED <<kind, file, temp, mode, old, cancelled,
                 losses, failures, ends>>

\* The request is lost, or refused at once because the context is done.
AckLost ==
  /\ pc = "ack"
  /\ \/ cancelled /\ UNCHANGED losses
     \/ ~cancelled /\ losses < MaxLosses /\ losses' = losses + 1
  /\ AfterAck
  /\ UNCHANGED <<kind, results, file, temp, mode, old, cancelled,
                 failures, ends>>

-----------------------------------------------------------------------------
Save == BeginWrite \/ EndWrite \/ Rename \/ SaveFails
Poller ==
  \/ Tick \/ StopPolling \/ PollNothing \/ PollCommand
  \/ Refuse \/ ExecuteRestart \/ ExecuteSwitch \/ Save
  \/ AckArrives \/ AckLost

Next == Boot \/ ProcessEnds \/ Poller

Spec == Init /\ [][Next]_vars

\* The goroutine runs, the ticker fires, the orchestrator starts the
\* process again, and of the bounded losses, failures and ends of the
\* process none has to happen.
FairSpec == Spec /\ WF_vars(Boot) /\ WF_vars(Poller)

-----------------------------------------------------------------------------
(* Properties *)

\* The type of every variable; the state file is never partly written, a
\* running agent has one of the two modes, and the poller executes the
\* oldest command that has no result.
TypeOK ==
  /\ kind \in [Commands -> Modes \cup {Restart, Refused}]
  /\ results \in Seq({"success", "error"}) /\ Len(results) <= MaxCommands
  /\ file \in Modes \cup {Unset}
  /\ temp \in Modes \cup {Unset, Garbage}
  /\ pc \in {"down", "wait", "poll", "execute", "save", "write", "rename",
             "ack", "stopped"}
  /\ mode \in Modes \cup {Unset} /\ (pc # "down" => mode \in Modes)
  /\ old \in Modes \cup {Unset}
  /\ cmd \in 0..MaxCommands
  /\ pc \in {"execute", "save", "write", "rename", "ack"} =>
       cmd = Pending /\ cmd \in Commands
  /\ status \in {"success", "error"}
  /\ cancelled \in BOOLEAN
  /\ losses \in Nat /\ failures \in Nat /\ ends \in Nat

\* Except inside SwitchMode, the mode of a running agent is the one it
\* would have after a restart: a switch that failed leaves no trace.
ModeIsPersistent ==
  pc \in {"wait", "poll", "execute", "ack", "stopped"} => mode = Persistent

\* The control plane sees commands that take effect and are answered in
\* order, over lost requests, failed writes and ends of the process.
RM == INSTANCE RemoteMode WITH mode <- Persistent
ImplementsRemoteMode == RM!Spec

\* Without a restart among them, all commands are answered in the end: one
\* that fails does not stand in the way of those behind it.
AllAnswered ==
  (\A c \in Commands : kind[c] # Restart) => <>(Len(results) = MaxCommands)

\* "After receiving a command, the agent must acknowledge it": that is so in
\* the end, whatever the command and whatever is lost in between.
AllAcknowledged ==
  \A c \in Commands : (pc = "execute" /\ cmd = c) ~> (Len(results) >= c)

=============================================================================
