------------------------------- MODULE Control -------------------------------
(***************************************************************************)
(* The control command server: Handler and its nonce cache                 *)
(* (internal/control/control.go), the shutdown handlers (handlers.go) and  *)
(* the HTTP goroutines that call them (server.go).                         *)
(*                                                                         *)
(* A command carries a nonce and a timestamp and may be delivered several  *)
(* times, by a client that retries or a network that duplicates.  Each     *)
(* delivery is handled by a goroutine of its own, which reads the clock    *)
(* twice: for the age of the command, and, later and under the lock of the *)
(* cache, for the age of the nonces.  The clock moves in between.          *)
(***************************************************************************)
EXTENDS Integers, FiniteSets

CONSTANTS Requests,          \* goroutines that handle deliveries
          ShutdownCommands,  \* commands stop and restart, one nonce each
          PlainCommands,     \* commands start, switch_mode and upgrade
          UnknownCommands,   \* commands without a handler
          NoCommand,
          Stamps,            \* timestamps of the commands
          MaxClockSkew,      \* ServerConfig.MaxClockSkew
          NonceCacheTTL,     \* ServerConfig.NonceCacheTTL
          MaxStall,          \* a goroutine gets from the first reading of
                             \* the clock to the second within this time
          MaxTime,           \* bound: the clock
          MaxDeliveries      \* bound: deliveries

Commands == ShutdownCommands \cup PlainCommands \cup UnknownCommands

\* The documented configuration has a TTL of 10m and a skew of 5m, so that
\* a goroutine may stall for 5m.
ASSUME ControlAssumption ==
  /\ NoCommand \notin Commands
  /\ ShutdownCommands \cap (PlainCommands \cup UnknownCommands) = {}
  /\ PlainCommands \cap UnknownCommands = {}
  /\ Stamps \subseteq Nat
  /\ MaxClockSkew \in Nat /\ NonceCacheTTL \in Nat /\ MaxStall \in Nat
  /\ MaxTime \in Nat /\ MaxDeliveries \in Nat
  /\ NonceCacheTTL >= MaxClockSkew + MaxStall

VARIABLES
  now,         \* the clock
  stamp,       \* the timestamp each command carries
  cache,       \* nonceCache: nonce -> time its age is counted from
  flag,        \* shutdownInProgress
  pc,          \* where each goroutine stands
  cmd,         \* the command it handles
  intact,      \* the signature matches what was delivered
  since,       \* when it read the clock for the age of the command
  runs,        \* history: how often each command was executed
  deliveries   \* history: what the bound counts

vars == <<now, stamp, cache, flag, pc, cmd, intact, since, runs, deliveries>>

Distance(a, b) == IF a < b THEN b - a ELSE a - b

Init ==
  /\ now = 0
  /\ stamp \in [Commands -> Stamps]
  /\ cache = [c \in {} |-> 0]
  /\ flag = FALSE
  /\ pc = [r \in Requests |-> "idle"]
  /\ cmd = [r \in Requests |-> NoCommand]
  /\ intact = [r \in Requests |-> FALSE]
  /\ since = [r \in Requests |-> 0]
  /\ runs = [c \in Commands |-> 0]
  /\ deliveries = 0

\* A goroutine goes on to its next step, or answers and ends.
Goto(r, l) ==
  /\ pc' = [pc EXCEPT ![r] = l]
  /\ UNCHANGED <<cmd, intact, since>>

Return(r) ==
  /\ pc' = [pc EXCEPT ![r] = "idle"]
  /\ cmd' = [cmd EXCEPT ![r] = NoCommand]
  /\ intact' = [intact EXCEPT ![r] = FALSE]
  /\ since' = [since EXCEPT ![r] = 0]

\* Time passes, but not over a goroutine that is between its two readings.
Tick ==
  /\ now < MaxTime
  /\ \A r \in Requests : pc[r] = "nonce" => now < since[r] + MaxStall
  /\ now' = now + 1
  /\ UNCHANGED <<stamp, cache, flag, pc, cmd, intact, since, runs, deliveries>>

-----------------------------------------------------------------------------
(* Server.handleCommand, Handler.Handle, Command.Verify *)

\* A delivery is parsed.  One that is not a POST or no JSON changes nothing.
Deliver(r) ==
  /\ pc[r] = "idle" /\ deliveries < MaxDeliveries
  /\ \E c \in Commands : cmd' = [cmd EXCEPT ![r] = c]
  /\ \E ok \in BOOLEAN : intact' = [intact EXCEPT ![r] = ok]
  /\ pc' = [pc EXCEPT ![r] = "stamp"]
  /\ deliveries' = deliveries + 1
  /\ UNCHANGED <<now, stamp, cache, flag, since, runs>>

\* The first reading of the clock: too old or too far in the future.
CheckStamp(r) ==
  /\ pc[r] = "stamp"
  /\ \/ /\ Distance(now, stamp[cmd[r]]) > MaxClockSkew
        /\ Return(r)
     \/ /\ Distance(now, stamp[cmd[r]]) <= MaxClockSkew
        /\ pc' = [pc EXCEPT ![r] = "nonce"]
        /\ since' = [since EXCEPT ![r] = now]
        /\ UNCHANGED <<cmd, intact>>
  /\ UNCHANGED <<now, stamp, cache, flag, runs, deliveries>>

\* cleanup, with the second reading.
Unexpired == {c \in DOMAIN cache : now - cache[c] <= NonceCacheTTL}

\* checkAndStore, with the time t from which the age of the nonce counts.
CheckAndStore(r, t) ==
  /\ pc[r] = "nonce"
  /\ \/ /\ cmd[r] \in Unexpired
        /\ cache' = [n \in Unexpired |-> cache[n]]
        /\ Return(r)
     \/ /\ cmd[r] \notin Unexpired
        /\ cache' = [n \in Unexpired \cup {cmd[r]} |->
                       IF n = cmd[r] THEN t ELSE cache[n]]
        /\ Goto(r, "verify")
  /\ UNCHANGED <<now, stamp, flag, runs, deliveries>>

\* Variant for the mutation runs: the age counts from the arrival.
CheckNonceArrival(r) == CheckAndStore(r, now)

CheckNonce(r) == CheckAndStore(r, stamp[cmd[r]])

\* The signature comes last; then the router gives the commands of `plain'
\* and of ShutdownCommands their handlers, and the others none.
Route(r, plain) ==
  /\ pc[r] = "verify"
  /\ \/ /\ ~intact[r] \/ cmd[r] \notin ShutdownCommands \cup plain
        /\ Return(r)
     \/ /\ intact[r] /\ cmd[r] \in plain
        /\ Goto(r, "execute")
     \/ /\ intact[r] /\ cmd[r] \in ShutdownCommands
        /\ Goto(r, "load")
  /\ UNCHANGED <<now, stamp, cache, flag, runs, deliveries>>

\* Variant: the test that the command has a handler is missing.
VerifySignatureOnly(r) == Route(r, PlainCommands \cup UnknownCommands)

VerifySignature(r) == Route(r, PlainCommands)

Run(r) == runs' = [runs EXCEPT ![cmd[r]] = @ + 1]

\* HandleStart, HandleSwitchMode, HandleUpgrade: well or not.
Execute(r) ==
  /\ pc[r] = "execute"
  /\ Run(r) /\ Return(r)
  /\ UNCHANGED <<now, stamp, cache, flag, deliveries>>

-----------------------------------------------------------------------------
(* HandleStop and HandleRestart *)

\* shutdownInProgress is loaded, and stored in a step of its own.
LoadFlag(r) ==
  /\ pc[r] = "load"
  /\ IF flag THEN Return(r) ELSE Goto(r, "store")
  /\ UNCHANGED <<now, stamp, cache, flag, runs, deliveries>>

StoreFlag(r) ==
  /\ pc[r] = "store"
  /\ flag' = TRUE
  /\ Goto(r, "shutdown")
  /\ UNCHANGED <<now, stamp, cache, runs, deliveries>>

\* Variant: the error path returns without the reset.
StopUndeferred(r) ==
  /\ pc[r] = "shutdown"
  /\ Run(r)
  /\ Goto(r, "reset") \/ Return(r)
  /\ UNCHANGED <<now, stamp, cache, flag, deliveries>>

\* The controller's Stop or Restart returns, with an error or without.
Stop(r) ==
  /\ pc[r] = "shutdown"
  /\ Run(r)
  /\ Goto(r, "reset")
  /\ UNCHANGED <<now, stamp, cache, flag, deliveries>>

\* The deferred reset.
ResetFlag(r) ==
  /\ pc[r] = "reset"
  /\ flag' = FALSE
  /\ Return(r)
  /\ UNCHANGED <<now, stamp, cache, runs, deliveries>>

-----------------------------------------------------------------------------
Handle(r) ==
  \/ Deliver(r) \/ CheckStamp(r) \/ CheckNonce(r) \/ VerifySignature(r)
  \/ Execute(r)
  \/ LoadFlag(r) \/ StoreFlag(r) \/ Stop(r) \/ ResetFlag(r)

Next == Tick \/ \E r \in Requests : Handle(r)

Spec == Init /\ [][Next]_vars

-----------------------------------------------------------------------------
(* Properties *)

\* A goroutine beyond the router has a command with such a handler.
GoroutinesOK ==
  /\ pc \in [Requests -> {"idle", "stamp", "nonce", "verify", "execute",
                          "load", "store", "shutdown", "reset"}]
  /\ cmd \in [Requests -> Commands \cup {NoCommand}]
  /\ intact \in [Requests -> BOOLEAN]
  /\ since \in [Requests -> Nat]
  /\ \A r \in Requests :
       /\ pc[r] # "idle" => cmd[r] \in Commands
       /\ pc[r] = "execute" => cmd[r] \in PlainCommands
       /\ pc[r] \in {"load", "store", "shutdown", "reset"} =>
            cmd[r] \in ShutdownCommands

\* The type of every variable; no command without a handler is executed.
TypeOK ==
  /\ GoroutinesOK
  /\ now \in Nat /\ deliveries \in Nat
  /\ stamp \in [Commands -> Nat]
  /\ DOMAIN cache \subseteq Commands /\ cache \in [DOMAIN cache -> Nat]
  /\ flag \in BOOLEAN
  /\ runs \in [Commands -> Nat]

\* However often a command is delivered, and however its deliveries race
\* with one another and with the expiry of its nonce, it runs at most once.
ExecutedAtMostOnce == \A c \in Commands : runs[c] <= 1

\* shutdownInProgress is never left set: while it is, a stop or restart is
\* being executed, although several of them may overlap.
FlagNotStuck == flag => \E r \in Requests : pc[r] \in {"shutdown", "reset"}

=============================================================================
