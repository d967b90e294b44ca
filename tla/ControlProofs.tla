---------------------------- MODULE ControlProofs ----------------------------
(***************************************************************************)
(* Proofs about Control, for any number of goroutines, commands and        *)
(* deliveries, any timestamps and any clock.                               *)
(***************************************************************************)
EXTENDS Control, TLAPS

\* A command that has passed the nonce check and is not executed yet.
Admitted(r) == pc[r] \in {"verify", "execute", "load", "store", "shutdown"}

\* Between its two readings of the clock a goroutine holds a command young
\* enough for the cache to remember it at the second reading.
StillYoung ==
  \A r \in Requests :
    pc[r] = "nonce" => /\ now - since[r] <= MaxStall
                       /\ since[r] - stamp[cmd[r]] <= MaxClockSkew

\* A command that was admitted is in the cache, or too old to come back.
Remembered ==
  \A c \in Commands :
    (runs[c] > 0 \/ \E r \in Requests : Admitted(r) /\ cmd[r] = c) =>
      \/ c \in DOMAIN cache /\ cache[c] = stamp[c]
      \/ now - stamp[c] > NonceCacheTTL

\* No two goroutines are about to execute one command, and none executes
\* what was executed before.
AdmittedOnce ==
  /\ \A r \in Requests : Admitted(r) => runs[cmd[r]] = 0
  /\ \A r, s \in Requests :
       Admitted(r) /\ Admitted(s) /\ cmd[r] = cmd[s] => r = s

\* The inductive invariant.
IInv ==
  /\ TypeOK /\ StillYoung /\ Remembered /\ AdmittedOnce
  /\ ExecutedAtMostOnce /\ FlagNotStuck

-----------------------------------------------------------------------------
(* The steps *)

\* The server starts with nothing delivered.
LEMMA InitHolds == Init => IInv
<1> USE ControlAssumption
<1> SUFFICES ASSUME Init PROVE IInv
  OBVIOUS
<1>1. DOMAIN cache = {} /\ cache \in [{} -> Nat]
  BY DEF Init
<1>2. TypeOK
  BY <1>1 DEF Init, TypeOK, GoroutinesOK
<1>3. StillYoung /\ Remembered /\ AdmittedOnce
  BY DEF Init, StillYoung, Remembered, AdmittedOnce, Admitted
<1> QED
  BY <1>2, <1>3 DEF Init, IInv, ExecutedAtMostOnce, FlagNotStuck

\* A goroutine that ends keeps the types, and so does one that goes on with
\* a command of the right kind.
LEMMA ReturnType ==
  ASSUME GoroutinesOK, NEW r \in Requests, Return(r)
  PROVE  GoroutinesOK'
BY DEF GoroutinesOK, Return

LEMMA GotoType ==
  ASSUME GoroutinesOK, NEW r \in Requests, pc[r] # "idle",
         NEW l \in {"verify", "execute", "load", "store", "shutdown", "reset"},
         l = "execute" => cmd[r] \in PlainCommands,
         l \in {"load", "store", "shutdown", "reset"} =>
           cmd[r] \in ShutdownCommands,
         Goto(r, l)
  PROVE  GoroutinesOK'
BY DEF GoroutinesOK, Goto

\* The types are kept by every step.
LEMMA TypeStep == TypeOK /\ [Next]_vars => TypeOK'
<1> USE ControlAssumption DEF TypeOK
<1> SUFFICES ASSUME TypeOK, [Next]_vars PROVE TypeOK'
  OBVIOUS
<1>1. CASE Tick
  BY <1>1 DEF Tick, GoroutinesOK
<1>2. ASSUME NEW r \in Requests, Deliver(r) PROVE TypeOK'
  BY <1>2 DEF Deliver, GoroutinesOK
<1>3. ASSUME NEW r \in Requests, CheckStamp(r) PROVE TypeOK'
  <2>1. CASE Return(r)
    BY <1>3, <2>1, ReturnType DEF CheckStamp
  <2>2. CASE ~Return(r)
    BY <1>3, <2>2 DEF CheckStamp, GoroutinesOK
  <2> QED
    BY <2>1, <2>2
<1>4. ASSUME NEW r \in Requests, CheckNonce(r) PROVE TypeOK'
  <2>1. DOMAIN cache' \subseteq Commands /\ cache' \in [DOMAIN cache' -> Nat]
    BY <1>4 DEF CheckNonce, CheckAndStore, Unexpired, GoroutinesOK
  <2>2. GoroutinesOK'
    BY <1>4, ReturnType, GotoType DEF CheckNonce, CheckAndStore
  <2> QED
    BY <1>4, <2>1, <2>2 DEF CheckNonce, CheckAndStore
<1>5. ASSUME NEW r \in Requests, VerifySignature(r) PROVE TypeOK'
  BY <1>5, ReturnType, GotoType DEF VerifySignature, Route
<1>6. ASSUME NEW r \in Requests, Execute(r) PROVE TypeOK'
  <2>1. runs' \in [Commands -> Nat]
    BY <1>6 DEF Execute, Run, GoroutinesOK
  <2> QED
    BY <1>6, <2>1, ReturnType DEF Execute
<1>7. ASSUME NEW r \in Requests, LoadFlag(r) PROVE TypeOK'
  <2>1. cmd[r] \in ShutdownCommands /\ pc[r] # "idle"
    BY <1>7 DEF LoadFlag, GoroutinesOK
  <2> QED
    BY <1>7, <2>1, ReturnType, GotoType DEF LoadFlag
<1>8. ASSUME NEW r \in Requests, StoreFlag(r) PROVE TypeOK'
  <2>1. cmd[r] \in ShutdownCommands /\ pc[r] # "idle"
    BY <1>8 DEF StoreFlag, GoroutinesOK
  <2> QED
    BY <1>8, <2>1, GotoType DEF StoreFlag
<1>9. ASSUME NEW r \in Requests, Stop(r) PROVE TypeOK'
  <2>1. cmd[r] \in ShutdownCommands /\ pc[r] # "idle"
    BY <1>9 DEF Stop, GoroutinesOK
  <2>2. runs' \in [Commands -> Nat]
    BY <1>9, <2>1 DEF Stop, Run, Commands
  <2> QED
    BY <1>9, <2>1, <2>2, GotoType DEF Stop
<1>10. ASSUME NEW r \in Requests, ResetFlag(r) PROVE TypeOK'
  BY <1>10, ReturnType DEF ResetFlag
<1>11. CASE UNCHANGED vars
  BY <1>11 DEF vars, GoroutinesOK
<1> QED
  BY <1>1, <1>2, <1>3, <1>4, <1>5, <1>6, <1>7, <1>8, <1>9, <1>10, <1>11
     DEF Next, Handle

\* A step that admits no command and reads no clock keeps the age.
LEMMA YoungStep == TypeOK /\ StillYoung /\ [Next]_vars => StillYoung'
<1> USE ControlAssumption DEF TypeOK, GoroutinesOK, StillYoung
<1> SUFFICES ASSUME TypeOK, StillYoung, [Next]_vars PROVE StillYoung'
  OBVIOUS
<1>1. CASE Tick
  BY <1>1 DEF Tick
<1>2. ASSUME NEW r \in Requests, Deliver(r) PROVE StillYoung'
  BY <1>2 DEF Deliver
<1>3. ASSUME NEW r \in Requests, CheckStamp(r) PROVE StillYoung'
  <2>1. CASE pc'[r] = "nonce"
    <3>1. now - stamp[cmd[r]] <= MaxClockSkew /\ since'[r] = now
      BY <1>3, <2>1 DEF CheckStamp, Return, Distance
    <3> QED
      BY <1>3, <2>1, <3>1 DEF CheckStamp, Return
  <2>2. CASE pc'[r] # "nonce"
    BY <1>3, <2>2 DEF CheckStamp, Return
  <2> QED
    BY <2>1, <2>2
<1>4. ASSUME NEW r \in Requests, CheckNonce(r) PROVE StillYoung'
  BY <1>4 DEF CheckNonce, CheckAndStore, Goto, Return
<1>5. ASSUME NEW r \in Requests, VerifySignature(r) PROVE StillYoung'
  BY <1>5 DEF VerifySignature, Route, Goto, Return
<1>6. ASSUME NEW r \in Requests, Execute(r) PROVE StillYoung'
  BY <1>6 DEF Execute, Return
<1>7. ASSUME NEW r \in Requests, LoadFlag(r) PROVE StillYoung'
  BY <1>7 DEF LoadFlag, Goto, Return
<1>8. ASSUME NEW r \in Requests, StoreFlag(r) \/ Stop(r) PROVE StillYoung'
  BY <1>8 DEF StoreFlag, Stop, Goto
<1>9. ASSUME NEW r \in Requests, ResetFlag(r) PROVE StillYoung'
  BY <1>9 DEF ResetFlag, Return
<1>10. CASE UNCHANGED vars
  BY <1>10 DEF vars
<1> QED
  BY <1>1, <1>2, <1>3, <1>4, <1>5, <1>6, <1>7, <1>8, <1>9, <1>10
     DEF Next, Handle

\* The heart of the argument: a command the nonce check admits was never
\* admitted before, because the cache would still remember it.
LEMMA Fresh ==
  ASSUME TypeOK, StillYoung, Remembered, NEW r \in Requests,
         pc[r] = "nonce", cmd[r] \notin Unexpired
  PROVE  /\ runs[cmd[r]] = 0
         /\ \A s \in Requests : Admitted(s) => cmd[s] # cmd[r]
<1> DEFINE c == cmd[r]
<1>1. c \in Commands
  BY DEF TypeOK, GoroutinesOK
<1>2. now - stamp[c] <= NonceCacheTTL
  BY <1>1, ControlAssumption DEF TypeOK, GoroutinesOK, StillYoung
<1>3. ~(c \in DOMAIN cache /\ cache[c] = stamp[c])
  BY <1>2 DEF Unexpired
<1>4. ~(now - stamp[c] > NonceCacheTTL)
  BY <1>1, <1>2, ControlAssumption DEF TypeOK
<1>5. ~(runs[c] > 0 \/ \E s \in Requests : Admitted(s) /\ cmd[s] = c)
  BY <1>1, <1>3, <1>4 DEF Remembered
<1> QED
  BY <1>1, <1>5 DEF TypeOK

\* No step forgets a command before it is too old.
LEMMA RememberedStep ==
  TypeOK /\ StillYoung /\ Remembered /\ [Next]_vars => Remembered'
<1> USE ControlAssumption DEF TypeOK, GoroutinesOK, Remembered, Admitted
<1> SUFFICES ASSUME TypeOK, StillYoung, Remembered, [Next]_vars
             PROVE  Remembered'
  OBVIOUS
<1>1. CASE Tick
  BY <1>1 DEF Tick
<1>2. ASSUME NEW r \in Requests, Deliver(r) PROVE Remembered'
  BY <1>2 DEF Deliver
<1>3. ASSUME NEW r \in Requests, CheckStamp(r) PROVE Remembered'
  BY <1>3 DEF CheckStamp, Return
<1>4. ASSUME NEW r \in Requests, CheckNonce(r) PROVE Remembered'
  <2> SUFFICES ASSUME NEW c \in Commands,
                      runs'[c] > 0 \/
                        \E s \in Requests : Admitted(s)' /\ cmd'[s] = c
               PROVE  \/ c \in DOMAIN cache' /\ cache'[c] = stamp'[c]
                      \/ now' - stamp'[c] > NonceCacheTTL
    OBVIOUS
  <2>1. UNCHANGED <<now, stamp, runs>>
    BY <1>4 DEF CheckNonce, CheckAndStore
  <2>2. CASE cmd[r] \notin Unexpired /\ c = cmd[r]
    BY <1>4, <2>1, <2>2 DEF CheckNonce, CheckAndStore
  <2>3. CASE cmd[r] \in Unexpired \/ c # cmd[r]
    <3>1. runs[c] > 0 \/ \E s \in Requests : Admitted(s) /\ cmd[s] = c
      BY <1>4, <2>1, <2>3 DEF CheckNonce, CheckAndStore, Goto, Return
    <3>2. c \in Unexpired => c \in DOMAIN cache' /\ cache'[c] = cache[c]
      BY <1>4, <2>3 DEF CheckNonce, CheckAndStore
    <3> QED
      BY <2>1, <3>1, <3>2 DEF Unexpired
  <2> QED
    BY <2>2, <2>3
<1>5. ASSUME NEW r \in Requests, VerifySignature(r) PROVE Remembered'
  BY <1>5 DEF VerifySignature, Route, Goto, Return
<1>6. ASSUME NEW r \in Requests, Execute(r) PROVE Remembered'
  BY <1>6 DEF Execute, Run, Return
<1>7. ASSUME NEW r \in Requests, LoadFlag(r) PROVE Remembered'
  BY <1>7 DEF LoadFlag, Goto, Return
<1>8. ASSUME NEW r \in Requests, StoreFlag(r) PROVE Remembered'
  BY <1>8 DEF StoreFlag, Goto
<1>9. ASSUME NEW r \in Requests, Stop(r) PROVE Remembered'
  BY <1>9 DEF Stop, Run, Goto
<1>10. ASSUME NEW r \in Requests, ResetFlag(r) PROVE Remembered'
  BY <1>10 DEF ResetFlag, Return
<1>11. CASE UNCHANGED vars
  BY <1>11 DEF vars
<1> QED
  BY <1>1, <1>2, <1>3, <1>4, <1>5, <1>6, <1>7, <1>8, <1>9, <1>10, <1>11
     DEF Next, Handle

\* Only a fresh command is admitted, and executing one ends its admission.
LEMMA OnceStep ==
  TypeOK /\ StillYoung /\ Remembered /\ AdmittedOnce /\ ExecutedAtMostOnce
    /\ [Next]_vars => AdmittedOnce' /\ ExecutedAtMostOnce'
<1> USE DEF TypeOK, GoroutinesOK, AdmittedOnce, ExecutedAtMostOnce, Admitted
<1> DEFINE Once == AdmittedOnce /\ ExecutedAtMostOnce
<1> SUFFICES ASSUME TypeOK, StillYoung, Remembered, Once, [Next]_vars
             PROVE  Once'
  OBVIOUS
<1>1. CASE Tick
  BY <1>1 DEF Tick
<1>2. ASSUME NEW r \in Requests, Deliver(r) PROVE Once'
  BY <1>2 DEF Deliver
<1>3. ASSUME NEW r \in Requests, CheckStamp(r) PROVE Once'
  BY <1>3 DEF CheckStamp, Return
<1>4. ASSUME NEW r \in Requests, CheckNonce(r) PROVE Once'
  <2>1. CASE cmd[r] \in Unexpired
    BY <1>4, <2>1 DEF CheckNonce, CheckAndStore, Return
  <2>2. CASE cmd[r] \notin Unexpired
    <3>1. /\ runs[cmd[r]] = 0
          /\ \A s \in Requests : Admitted(s) => cmd[s] # cmd[r]
      BY <1>4, <2>2, Fresh DEF CheckNonce, CheckAndStore
    <3> QED
      BY <1>4, <2>2, <3>1 DEF CheckNonce, CheckAndStore, Goto
  <2> QED
    BY <2>1, <2>2
<1>5. ASSUME NEW r \in Requests, VerifySignature(r) PROVE Once'
  BY <1>5 DEF VerifySignature, Route, Goto, Return
<1>6. ASSUME NEW r \in Requests, Execute(r) PROVE Once'
  BY <1>6 DEF Execute, Run, Return
<1>7. ASSUME NEW r \in Requests, LoadFlag(r) PROVE Once'
  BY <1>7 DEF LoadFlag, Goto, Return
<1>8. ASSUME NEW r \in Requests, StoreFlag(r) PROVE Once'
  BY <1>8 DEF StoreFlag, Goto
<1>9. ASSUME NEW r \in Requests, Stop(r) PROVE Once'
  BY <1>9 DEF Stop, Run, Goto
<1>10. ASSUME NEW r \in Requests, ResetFlag(r) PROVE Once'
  BY <1>10 DEF ResetFlag, Return
<1>11. CASE UNCHANGED vars
  BY <1>11 DEF vars
<1> QED
  BY <1>1, <1>2, <1>3, <1>4, <1>5, <1>6, <1>7, <1>8, <1>9, <1>10, <1>11
     DEF Next, Handle

\* Whoever leaves "shutdown" or "reset" with the flag set was not the one
\* that keeps it set.
LEMMA FlagStep == TypeOK /\ FlagNotStuck /\ [Next]_vars => FlagNotStuck'
<1> USE DEF TypeOK, GoroutinesOK, FlagNotStuck
<1> SUFFICES ASSUME TypeOK, FlagNotStuck, [Next]_vars PROVE FlagNotStuck'
  OBVIOUS
<1>1. CASE Tick \/ UNCHANGED vars
  BY <1>1 DEF Tick, vars
<1>2. ASSUME NEW r \in Requests, Handle(r),
             pc[r] \notin {"shutdown", "reset"}, flag' = flag
      PROVE  FlagNotStuck'
  <2>1. \A s \in Requests \ {r} : pc'[s] = pc[s]
    BY <1>2 DEF Handle, Deliver, CheckStamp, CheckNonce, CheckAndStore,
       VerifySignature, Route, Execute, LoadFlag, StoreFlag, Stop, ResetFlag,
       Goto, Return
  <2> QED
    BY <1>2, <2>1
<1>3. ASSUME NEW r \in Requests, StoreFlag(r) \/ Stop(r) \/ ResetFlag(r)
      PROVE  FlagNotStuck'
  BY <1>3 DEF StoreFlag, Stop, ResetFlag, Goto, Return
<1>4. ASSUME NEW r \in Requests, Handle(r)
      PROVE  \/ pc[r] \notin {"shutdown", "reset"} /\ flag' = flag
             \/ StoreFlag(r) \/ Stop(r) \/ ResetFlag(r)
  BY <1>4 DEF Handle, Deliver, CheckStamp, CheckNonce, CheckAndStore,
     VerifySignature, Route, Execute, LoadFlag
<1> QED
  BY <1>1, <1>2, <1>3, <1>4 DEF Next

\* The invariant holds throughout.
LEMMA Inductive == Spec => []IInv
<1>1. Init => IInv
  BY InitHolds
<1>2. IInv /\ [Next]_vars => IInv'
  BY TypeStep, YoungStep, RememberedStep, OnceStep, FlagStep DEF IInv
<1> QED
  BY <1>1, <1>2, PTL DEF Spec

-----------------------------------------------------------------------------
(* The theorems *)

\* No command without a handler is executed, and every variable of the
\* control server keeps its type.
THEOREM TypeCorrect == Spec => []TypeOK
<1>1. IInv => TypeOK
  BY DEF IInv
<1> QED
  BY <1>1, Inductive, PTL

\* checkAndStore and the check of the timestamp together let every command
\* through at most once, if the nonces live as long as ControlAssumption
\* says.
THEOREM NoReplay == Spec => []ExecutedAtMostOnce
<1>1. IInv => ExecutedAtMostOnce
  BY DEF IInv
<1> QED
  BY <1>1, Inductive, PTL

\* The deferred reset leaves shutdownInProgress set only while a stop or a
\* restart is being executed, however many overlap.
THEOREM FlagIsReleased == Spec => []FlagNotStuck
<1>1. IInv => FlagNotStuck
  BY DEF IInv
<1> QED
  BY <1>1, Inductive, PTL

=============================================================================
