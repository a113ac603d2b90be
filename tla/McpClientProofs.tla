-------------------------- MODULE McpClientProofs --------------------------
(***************************************************************************)
(* Theorems about McpClient, for every finite set of callers, every        *)
(* restart configuration and any number of calls, crashes and bad frames.  *)
(***************************************************************************)
EXTENDS McpClient, TLAPS, FiniteSetTheorems

USE DEF taskVars, procVars, reqVars, bounds
-----------------------------------------------------------------------------
(* The inductive invariant *)

Waiting(k) == pc[k] \in {"init", "wait"}

\* Callers whose call has been counted but has not made its request.
Due == {k \in Callers : pc[k] \in {"backoff", "spawn", "init"}}

\* The ids do not run out: each is paid for by a start or by a call.
IdsSuffice == nextId + Cardinality(Due) <= restarts + nCalls + 1

\* A request carries the id of its own number and waits under no other.
IdsDistinct ==
  \A n \in Ids :
    /\ idOf[n] = IF n < nextId THEN n ELSE 0
    /\ pending[n] \in {0, n}
    /\ fut[n] = "none" <=> n >= nextId
    /\ n >= nextId => to[n] = 0 /\ pending[n] = 0
    /\ fut[n] = "answered" => from[n] = n

\* A suspended caller awaits a request of its own.
OwnRequest ==
  \A k \in Callers :
    /\ Waiting(k) => mine[k] \in Ids /\ mine[k] < nextId
    /\ ~Waiting(k) => mine[k] = 0
    /\ \A j \in Callers : mine[j] = mine[k] /\ mine[k] # 0 => j = k

BackoffEnabled == \A k \in Callers : pc[k] = "backoff" => RestartEnabled

IInv == /\ TypeOK /\ StartsBounded /\ IdsSuffice /\ IdsDistinct /\ OwnRequest
        /\ BackoffEnabled /\ AwaitedIsPending /\ StopReleases

\* Unless it was overtaken, the tasks of a start follow its process; the last
\* process has not been overtaken.
Watched ==
  /\ fresh \subseteq watch
  /\ \A p \in fresh : p = cur \/ p \in overtaken
  /\ \A p \in watch \ fresh : follows[p] = p \/ p \in overtaken
  /\ \A p \in overtaken : p < restarts
  /\ cur # 0 => cur = restarts
  /\ Running => cur \in watch
  /\ \A k \in Callers : Awaited(k) => to[mine[k]] \in watch \cup overtaken
-----------------------------------------------------------------------------
(* Counting *)

\* A set of callers changes by one caller.
LEMMA CountOne ==
  ASSUME NEW S \in SUBSET Callers, NEW T \in SUBSET Callers, NEW k \in Callers,
         S \ {k} = T \ {k}
  PROVE  /\ Cardinality(S) \in Nat /\ Cardinality(T) \in Nat
         /\ Cardinality(Callers) \in Nat
         /\ Cardinality(T) <= Cardinality(Callers)
         /\ Cardinality(T) - Cardinality(S) =
               (IF k \in T THEN 1 ELSE 0) - (IF k \in S THEN 1 ELSE 0)
<1>1. IsFiniteSet(Callers) /\ IsFiniteSet(S) /\ IsFiniteSet(T)
  BY FS_Subset, ClientAssumption
<1>2. /\ Cardinality(Callers) \in Nat /\ Cardinality(S) \in Nat
      /\ Cardinality(T) \in Nat
  BY <1>1, FS_CardinalityType
<1>3. Cardinality(T) <= Cardinality(Callers)
  BY <1>1, FS_Subset
<1>4. Cardinality(S \ {k}) = Cardinality(S) - (IF k \in S THEN 1 ELSE 0)
  <2>1. Cardinality(S \ {k}) = IF k \in S THEN Cardinality(S) - 1 ELSE Cardinality(S)
    BY <1>1, FS_RemoveElement
  <2>2. QED  BY <2>1, <1>2
<1>5. Cardinality(T \ {k}) = Cardinality(T) - (IF k \in T THEN 1 ELSE 0)
  <2>1. Cardinality(T \ {k}) = IF k \in T THEN Cardinality(T) - 1 ELSE Cardinality(T)
    BY <1>1, FS_RemoveElement
  <2>2. QED  BY <2>1, <1>2
<1>6. Cardinality(S \ {k}) = Cardinality(T \ {k})
  OBVIOUS
<1>7. QED  BY <1>2, <1>3, <1>4, <1>5, <1>6

\* What a caller's step moves: the callers that start a process and those
\* whose request is still due.
LEMMA CountStep ==
  ASSUME TypeOK, NEW k \in Callers, NEW step, Suspend(k, step)
  PROVE  /\ Cardinality(Starting) \in Nat /\ Cardinality(Due) \in Nat
         /\ Cardinality(Starting') \in Nat /\ Cardinality(Due') \in Nat
         /\ Cardinality(Callers) \in Nat
         /\ Cardinality(Starting') <= Cardinality(Callers)
         /\ Cardinality(Starting') - Cardinality(Starting) =
              (IF step = "spawn" THEN 1 ELSE 0) - (IF pc[k] = "spawn" THEN 1 ELSE 0)
         /\ Cardinality(Due') - Cardinality(Due) =
              (IF step \in {"backoff", "spawn", "init"} THEN 1 ELSE 0)
              - (IF pc[k] \in {"backoff", "spawn", "init"} THEN 1 ELSE 0)
<1>1. pc' = [pc EXCEPT ![k] = step] /\ pc = [j \in Callers |-> pc[j]]
  BY DEF Suspend, TypeOK
<1>2. /\ Starting \in SUBSET Callers /\ Starting' \in SUBSET Callers
      /\ Due \in SUBSET Callers /\ Due' \in SUBSET Callers
  BY DEF Starting, Due
<1>3. Starting \ {k} = Starting' \ {k} /\ Due \ {k} = Due' \ {k}
  BY <1>1 DEF Starting, Due
<1>4. /\ k \in Starting <=> pc[k] = "spawn"
      /\ k \in Starting' <=> step = "spawn"
      /\ k \in Due <=> pc[k] \in {"backoff", "spawn", "init"}
      /\ k \in Due' <=> step \in {"backoff", "spawn", "init"}
  BY <1>1 DEF Starting, Due
<1>5. /\ Cardinality(Starting) \in Nat /\ Cardinality(Starting') \in Nat
      /\ Cardinality(Callers) \in Nat
      /\ Cardinality(Starting') <= Cardinality(Callers)
      /\ Cardinality(Starting') - Cardinality(Starting) =
            (IF k \in Starting' THEN 1 ELSE 0) - (IF k \in Starting THEN 1 ELSE 0)
  BY <1>2, <1>3, CountOne
<1>6. /\ Cardinality(Due) \in Nat /\ Cardinality(Due') \in Nat
      /\ Cardinality(Due') - Cardinality(Due) =
            (IF k \in Due' THEN 1 ELSE 0) - (IF k \in Due THEN 1 ELSE 0)
  BY <1>2, <1>3, CountOne
<1>7. QED  BY <1>4, <1>5, <1>6

LEMMA StartsType ==
  /\ Cardinality(Callers) \in Nat /\ Starts \in Nat
  /\ Cardinality(Callers) <= Starts
  /\ RestartEnabled => Starts = MaxRestarts + Cardinality(Callers)
  BY ClientAssumption, FS_CardinalityType DEF Starts

LEMMA Ranges ==
  ASSUME TypeOK
  PROVE  /\ 0 \notin Procs /\ 0 \notin Ids /\ Ids \subseteq Nat /\ nextId \in Nat
         /\ cur \in Procs \cup {0}
<1>1. restarts \in 0..Starts /\ cur \in 0..restarts /\ Starts \in Nat
  BY StartsType DEF TypeOK
<1>2. cur \in Procs \cup {0}
  BY <1>1 DEF Procs
<1>3. QED  BY <1>2 DEF TypeOK, Procs, Ids

\* No step of a caller breaks the two bounds.
LEMMA Bounds ==
  ASSUME IInv, NEW k \in Callers, Caller(k)
  PROVE  StartsBounded' /\ IdsSuffice'
<1>1. /\ restarts \in Nat /\ nextId \in Nat /\ nCalls \in Nat
      /\ MaxRestarts \in Nat /\ RestartEnabled \in BOOLEAN
      /\ StartsBounded /\ IdsSuffice /\ TypeOK
  BY ClientAssumption, StartsType DEF IInv, TypeOK
<1>2. CASE Refuse(k)
  <2>1. Suspend(k, "idle") /\ UNCHANGED <<restarts, nextId>> /\ Count(k)
        /\ pc[k] \in {"idle", "init"}
    BY <1>2 DEF Refuse, Raise, Ready
  <2>2. QED  BY <1>1, <2>1, CountStep, StartsType DEF StartsBounded, IdsSuffice, Count
<1>3. CASE Call(k)
  <2>1. /\ Suspend(k, "wait") \/ (Suspend(k, "idle") /\ pc[k] = "idle")
        /\ UNCHANGED restarts /\ nextId' = nextId + 1 /\ Count(k)
        /\ pc[k] \in {"idle", "init"}
    BY <1>3 DEF Call, Request, Ready
  <2>2. QED  BY <1>1, <2>1, CountStep, StartsType DEF StartsBounded, IdsSuffice, Count
<1>4. CASE Restart(k)
  <2>1. /\ \/ Suspend(k, "spawn") /\ restarts = 0
           \/ Suspend(k, "backoff")
           \/ Suspend(k, "idle")
        /\ UNCHANGED <<restarts, nextId>> /\ Count(k)
        /\ pc[k] \in {"idle", "init"}
    BY <1>4 DEF Restart, Ready
  <2>2. CASE Suspend(k, "spawn") /\ restarts = 0
    BY <1>1, <2>1, <2>2, CountStep, StartsType DEF StartsBounded, IdsSuffice, Count
  <2>3. CASE Suspend(k, "backoff")
    BY <1>1, <2>1, <2>3, CountStep, StartsType DEF StartsBounded, IdsSuffice, Count
  <2>4. CASE Suspend(k, "idle")
    BY <1>1, <2>1, <2>4, CountStep, StartsType DEF StartsBounded, IdsSuffice, Count
  <2>5. QED  BY <2>1, <2>2, <2>3, <2>4
<1>5. CASE BackoffOver(k)
  <2>1. UNCHANGED <<restarts, nextId, nCalls>> /\ pc[k] = "backoff"
    BY <1>5 DEF BackoffOver
  <2>2. CASE LimitReached
    <3>1. Suspend(k, "idle")  BY <1>5, <2>2 DEF BackoffOver
    <3>2. QED  BY <1>1, <2>1, <3>1, CountStep, StartsType DEF StartsBounded, IdsSuffice
  <2>3. CASE ~LimitReached
    <3>1. Suspend(k, "spawn") /\ restarts <= MaxRestarts /\ RestartEnabled
      BY <1>1, <1>5, <2>3 DEF BackoffOver, LimitReached, IInv, BackoffEnabled
    <3>2. QED  BY <1>1, <2>1, <3>1, CountStep, StartsType DEF StartsBounded, IdsSuffice
  <2>4. QED  BY <2>2, <2>3
<1>6. CASE SpawnDone(k)
  <2>1. \/ /\ Suspend(k, "init")
           /\ nextId' = nextId + 1
        \/ /\ Suspend(k, "idle")
           /\ nextId' \in {nextId, nextId + 1}
    BY <1>6 DEF SpawnDone, Request, Raise
  <2>2. pc[k] = "spawn" /\ restarts' = restarts + 1 /\ UNCHANGED nCalls
    BY <1>6 DEF SpawnDone, Counted
  <2>3. QED  BY <1>1, <2>1, <2>2, CountStep, StartsType DEF StartsBounded, IdsSuffice
<1>7. CASE SpawnFails(k)
  <2>1. Suspend(k, "idle") /\ UNCHANGED <<restarts, nextId, nCalls>> /\ pc[k] = "spawn"
    BY <1>7 DEF SpawnFails, Raise
  <2>2. QED  BY <1>1, <2>1, CountStep, StartsType DEF StartsBounded, IdsSuffice
<1>8. CASE Timeout(k)
  <2>1. Starting' = Starting /\ Due' = Due /\ UNCHANGED <<restarts, nextId, nCalls>>
    BY <1>8 DEF Timeout, Starting, Due
  <2>2. QED  BY <1>1, <2>1 DEF StartsBounded, IdsSuffice
<1>9. CASE Return(k)
  <2>1. /\ Suspend(k, "idle") /\ UNCHANGED <<restarts, nextId, nCalls>>
        /\ pc[k] \in {"wait", "init"}
    BY <1>9 DEF Return, Raise
  <2>2. QED  BY <1>1, <2>1, CountStep, StartsType DEF StartsBounded, IdsSuffice
<1>10. QED
  BY <1>2, <1>3, <1>4, <1>5, <1>6, <1>7, <1>8, <1>9 DEF Caller

\* The counters stay in their ranges; a process or request that is about to
\* get a number gets one of Procs or Ids.
LEMMA Numbers ==
  ASSUME IInv, NEW k \in Callers, Caller(k)
  PROVE  /\ restarts' \in 0..Starts
         /\ nextId' \in 1..(Starts + MaxCalls + 1)
         /\ nCalls' \in 0..MaxCalls
         /\ nextId' = nextId + 1 => nextId \in Ids
         /\ SpawnDone(k) => (restarts + 1) \in Procs
<1>1. StartsBounded' /\ IdsSuffice'
  BY Bounds
<1>2. Cardinality(Starting') \in Nat /\ Cardinality(Due') \in Nat
  <2>1. IsFiniteSet(Starting') /\ IsFiniteSet(Due')
    BY FS_Subset, ClientAssumption DEF Starting, Due
  <2>2. QED  BY <2>1, FS_CardinalityType
<1>3. /\ restarts \in 0..Starts /\ nextId \in 1..(Starts + MaxCalls + 1)
      /\ nCalls \in 0..MaxCalls /\ MaxCalls \in Nat /\ Starts \in Nat
  BY ClientAssumption, StartsType DEF IInv, TypeOK
<1>4. nCalls' \in 0..MaxCalls
  BY <1>3 DEF Caller, Refuse, Call, Restart, BackoffOver, SpawnDone, SpawnFails,
              Timeout, Return, Ready, Count
<1>5. restarts' \in {restarts, restarts + 1} /\ nextId' \in {nextId, nextId + 1}
  BY <1>3 DEF Caller, Refuse, Call, Restart, BackoffOver, SpawnDone, SpawnFails,
              Timeout, Return, Request, Counted
<1>6. restarts' <= Starts
  BY <1>1, <1>2, <1>3, <1>5 DEF StartsBounded
<1>7. nextId' <= Starts + MaxCalls + 1
  BY <1>1, <1>2, <1>3, <1>4, <1>5, <1>6 DEF IdsSuffice
<1>8. SpawnDone(k) => restarts' = restarts + 1
  BY DEF SpawnDone, Counted
<1>9. QED
  BY <1>3, <1>4, <1>5, <1>6, <1>7, <1>8 DEF Ids, Procs
-----------------------------------------------------------------------------
(* Type correctness *)

LEMMA CallerType ==
  ASSUME IInv, NEW k \in Callers, Caller(k)
  PROVE  TypeOK'
<1>1. TypeOK /\ 0 \notin Procs /\ 0 \notin Ids
  BY DEF IInv, Procs, Ids
<1>2. /\ restarts' \in 0..Starts /\ nextId' \in 1..(Starts + MaxCalls + 1)
      /\ nCalls' \in 0..MaxCalls
      /\ nextId' = nextId + 1 => nextId \in Ids
  BY Numbers
<1>3. CASE Refuse(k)
  BY <1>1, <1>2, <1>3 DEF TypeOK, Refuse, Raise, Suspend, Popped
<1>4. CASE Call(k)
  <2>1. cur \in Procs
    BY <1>1, <1>4, StartsType DEF TypeOK, Call, Running, Procs
  <2>2. Popped(k) \in [Ids -> Ids \cup {0}]
    BY <1>1 DEF TypeOK, Popped
  <2>3. nextId \in Ids
    BY <1>2, <1>4 DEF Call, Request
  <2>4. /\ idOf' \in [Ids -> Ids \cup {0}] /\ pending' \in [Ids -> Ids \cup {0}]
        /\ fut' \in [Ids -> {"none", "open", "answered", "failed"}]
        /\ UNCHANGED <<closing, procVars, from, nCrashes, nGarbage>>
    BY <1>1, <1>4, <2>2, <2>3 DEF TypeOK, Call, Request, NewId
  <2>5. /\ to' \in [Ids -> Procs \cup {0}]
        /\ pc' \in [Callers -> {"idle", "backoff", "spawn", "init", "wait"}]
        /\ mine' \in [Callers -> Ids \cup {0}]
    BY <1>1, <1>4, <2>1, <2>3 DEF TypeOK, Call, Request, Suspend
  <2>6. QED  BY <1>1, <1>2, <2>4, <2>5 DEF TypeOK
<1>5. CASE Restart(k)
  BY <1>1, <1>2, <1>5 DEF TypeOK, Restart, Shutdown, FailPending, Suspend, Popped
<1>6. CASE BackoffOver(k)
  BY <1>1, <1>2, <1>6 DEF TypeOK, BackoffOver, Suspend
<1>7. CASE SpawnDone(k)
  <2>1. (restarts + 1) \in Procs  BY <1>7, Numbers
  <2>2. CASE Refused
    BY <1>1, <1>2, <1>7, <2>1, <2>2 DEF TypeOK, SpawnDone, Counted, TasksCreated, Raise, Suspend
  <2>3. CASE ~Refused
    BY <1>1, <1>2, <1>7, <2>1, <2>3 DEF TypeOK, SpawnDone, Counted, TasksCreated, Request, NewId, Suspend
  <2>4. QED  BY <2>2, <2>3
<1>8. CASE SpawnFails(k)
  BY <1>1, <1>2, <1>8 DEF TypeOK, SpawnFails, Raise, Suspend
<1>9. CASE Timeout(k)
  BY <1>1, <1>2, <1>9 DEF TypeOK, Timeout
<1>10. CASE Return(k)
  BY <1>1, <1>2, <1>10 DEF TypeOK, Return, Raise, Suspend, Popped
<1>11. QED
  BY <1>3, <1>4, <1>5, <1>6, <1>7, <1>8, <1>9, <1>10 DEF Caller

LEMMA EnvironmentType ==
  ASSUME IInv, [Next]_vars, \A k \in Callers : ~Caller(k)
  PROVE  TypeOK'
<1>1. TypeOK  BY DEF IInv
<1>2. ASSUME NEW n \in Ids, Answer(n) PROVE TypeOK'
  BY <1>1, <1>2 DEF TypeOK, Answer
<1>10. ASSUME NEW p \in Procs, TasksRun(p) PROVE TypeOK'
  <2>1. cur \in Procs \cup {0}
    BY <1>1, Ranges
  <2>2. QED  BY <1>1, <1>10, <2>1 DEF TypeOK, TasksRun
<1>3. ASSUME NEW p \in Procs, Garbage(p) PROVE TypeOK'
  BY <1>1, <1>3, ClientAssumption DEF TypeOK, Garbage
<1>4. ASSUME NEW p \in Procs, Crash(p) PROVE TypeOK'
  BY <1>1, <1>4, ClientAssumption DEF TypeOK, Crash
<1>5. ASSUME NEW p \in Procs, Reap(p) PROVE TypeOK'
  BY <1>1, <1>5 DEF TypeOK, Reap
<1>6. ASSUME NEW p \in Procs, ExitWatch(p) PROVE TypeOK'
  BY <1>1, <1>6 DEF TypeOK, ExitWatch, FailPending
<1>7. CASE Stop
  <2>1. cur' \in 0..restarts
    BY <1>1, <1>7, StartsType DEF TypeOK, Stop, Shutdown
  <2>2. proc' \in [Procs -> {"none", "alive", "broken", "ending", "exited"}]
    BY <1>1, <1>7 DEF TypeOK, Stop
  <2>3. QED  BY <1>1, <1>7, <2>1, <2>2 DEF TypeOK, Stop, Shutdown, FailPending
<1>8. CASE UNCHANGED vars
  BY <1>1, <1>8 DEF TypeOK, vars
<1>9. QED
  BY <1>2, <1>3, <1>4, <1>5, <1>6, <1>7, <1>8, <1>10 DEF Next
-----------------------------------------------------------------------------
(* Requests and those who wait for them *)

Connected == IdsDistinct /\ OwnRequest /\ BackoffEnabled /\ AwaitedIsPending
             /\ StopReleases

\* A caller gives up whatever it awaited; nothing else moves.
LEMMA LeaveConnected ==
  ASSUME IInv, NEW k \in Callers, NEW step \in {"idle", "backoff", "spawn"},
         Suspend(k, step), mine' = [mine EXCEPT ![k] = 0], pending' = Popped(k),
         step = "backoff" => RestartEnabled,
         UNCHANGED <<closing, procVars, nextId, idOf, fut, from, to>>
  PROVE  Connected'
  BY DEF Connected, IInv, TypeOK, IdsDistinct, OwnRequest,
         BackoffEnabled, AwaitedIsPending, StopReleases, Waiting, Awaited,
         InPending, Popped, Suspend, Running

\* A caller makes a request of the running process p, giving up what it
\* awaited before.
LEMMA RequestConnected ==
  ASSUME IInv, NEW k \in Callers, NEW p \in Procs, NEW step \in {"init", "wait"},
         Request(k, p, step, Popped(k)), nextId \in Ids, ~closing,
         UNCHANGED closing
  PROVE  Connected'
<1>1. /\ IdsDistinct /\ OwnRequest /\ BackoffEnabled /\ AwaitedIsPending
      /\ nextId \in Nat /\ Ids \subseteq Nat \ {0}
      /\ idOf \in [Ids -> Ids \cup {0}] /\ pending \in [Ids -> Ids \cup {0}]
      /\ fut \in [Ids -> {"none", "open", "answered", "failed"}]
      /\ to \in [Ids -> Procs \cup {0}]
      /\ pc \in [Callers -> {"idle", "backoff", "spawn", "init", "wait"}]
      /\ mine \in [Callers -> Ids \cup {0}]
  BY DEF IInv, Ids, TypeOK
<1>2. Popped(k) \in [Ids -> Ids \cup {0}]
      /\ \A n \in Ids : Popped(k)[n] = IF n = mine[k] THEN 0 ELSE pending[n]
  <2>1. CASE mine[k] = 0
    BY <1>1, <2>1 DEF Popped
  <2>2. CASE mine[k] # 0
    <3>1. mine[k] \in Ids /\ mine[k] < nextId
      BY <1>1, <2>2 DEF OwnRequest
    <3>2. idOf[mine[k]] = mine[k]
      BY <1>1, <3>1 DEF IdsDistinct
    <3>3. QED  BY <1>1, <2>2, <3>1, <3>2 DEF Popped
  <2>3. QED  BY <2>1, <2>2
<1>3. /\ nextId' = nextId + 1
      /\ idOf' = [idOf EXCEPT ![nextId] = nextId]
      /\ pending' = [Popped(k) EXCEPT ![nextId] = nextId]
      /\ fut' = [fut EXCEPT ![nextId] = "open"]
      /\ UNCHANGED from
      /\ \/ /\ to' = to /\ pc' = [pc EXCEPT ![k] = "idle"]
            /\ mine' = [mine EXCEPT ![k] = 0]
         \/ /\ to' = [to EXCEPT ![nextId] = p] /\ pc' = [pc EXCEPT ![k] = step]
            /\ mine' = [mine EXCEPT ![k] = nextId]
  BY DEF Request, NewId, Suspend
<1>4. IdsDistinct'
  <2>1. SUFFICES ASSUME NEW n \in Ids
                 PROVE  /\ idOf'[n] = IF n < nextId' THEN n ELSE 0
                        /\ pending'[n] \in {0, n}
                        /\ fut'[n] = "none" <=> n >= nextId'
                        /\ n >= nextId' => to'[n] = 0 /\ pending'[n] = 0
                        /\ fut'[n] = "answered" => from'[n] = n
    BY DEF IdsDistinct
  <2>2. CASE n = nextId
    BY <1>1, <1>2, <1>3, <2>2
  <2>3. CASE n # nextId
    <3>1. /\ idOf'[n] = idOf[n] /\ fut'[n] = fut[n] /\ to'[n] = to[n]
          /\ from'[n] = from[n] /\ pending'[n] \in {0, pending[n]}
          /\ n < nextId' <=> n < nextId
      BY <1>1, <1>2, <1>3, <2>3
    <3>2. QED  BY <1>1, <3>1, <2>3, <1>3 DEF IdsDistinct
  <2>4. QED  BY <2>2, <2>3
<1>5. OwnRequest'
  <2>1. \A j \in Callers : j # k => mine'[j] = mine[j] /\ pc'[j] = pc[j]
    BY <1>1, <1>3
  <2>2. /\ pc'[k] \in {"init", "wait"} => mine'[k] = nextId
        /\ pc'[k] \notin {"init", "wait"} => mine'[k] = 0
        /\ mine'[k] \in {0, nextId}
    BY <1>1, <1>3
  <2>3. \A j \in Callers : mine[j] # nextId
    BY <1>1 DEF OwnRequest
  <2>4. \A j \in Callers : /\ Waiting(j)' => mine'[j] \in Ids /\ mine'[j] < nextId'
                           /\ ~Waiting(j)' => mine'[j] = 0
    <3>1. TAKE j \in Callers
    <3>2. CASE j = k
      BY <1>1, <1>3, <2>2, <3>2 DEF Waiting
    <3>3. CASE j # k
      <4>1. /\ Waiting(j) => mine[j] \in Ids /\ mine[j] < nextId
            /\ ~Waiting(j) => mine[j] = 0
        BY <1>1, <3>1 DEF OwnRequest
      <4>2. mine'[j] = mine[j] /\ pc'[j] = pc[j] /\ nextId' = nextId + 1
        BY <1>3, <2>1, <3>1, <3>3
      <4>3. nextId \in Nat /\ (mine[j] \in Ids => mine[j] \in Nat)
        BY <1>1
      <4>4. QED  BY <4>1, <4>2, <4>3 DEF Waiting
    <3>4. QED  BY <3>2, <3>3
  <2>5. \A i, j \in Callers : mine'[i] = mine'[j] /\ mine'[j] # 0 => i = j
    BY <1>1, <2>1, <2>2, <2>3 DEF OwnRequest
  <2>6. QED  BY <2>4, <2>5 DEF OwnRequest
<1>6. BackoffEnabled'
  BY <1>1, <1>3 DEF BackoffEnabled
<1>7. AwaitedIsPending'
  <2>1. SUFFICES ASSUME NEW j \in Callers, pc'[j] \in {"init", "wait"},
                        fut'[mine'[j]] = "open"
                 PROVE  pending'[idOf'[mine'[j]]] = mine'[j]
    BY DEF AwaitedIsPending, Awaited, InPending
  <2>2. CASE j = k
    <3>1. mine'[k] = nextId
      BY <1>1, <1>3, <2>1, <2>2
    <3>2. idOf'[nextId] = nextId /\ pending'[nextId] = nextId
      BY <1>1, <1>2, <1>3
    <3>3. QED  BY <2>2, <3>1, <3>2
  <2>3. CASE j # k
    <3>1. mine'[j] = mine[j] /\ pc'[j] = pc[j]
      BY <1>1, <1>3, <2>3
    <3>2. /\ mine[j] \in Ids /\ mine[j] < nextId /\ mine[j] # mine[k]
          /\ mine[j] # nextId
      BY <1>1, <2>1, <2>3, <3>1 DEF OwnRequest, Waiting
    <3>3. /\ idOf'[mine[j]] = mine[j] /\ idOf[mine[j]] = mine[j]
          /\ fut'[mine[j]] = fut[mine[j]]
          /\ pending'[mine[j]] = pending[mine[j]]
      <4>1. idOf[mine[j]] = mine[j]
        BY <1>1, <3>2 DEF IdsDistinct
      <4>2. QED  BY <1>1, <1>2, <1>3, <3>2, <4>1
    <3>4. QED
      BY <1>1, <2>1, <3>1, <3>2, <3>3 DEF Awaited, AwaitedIsPending, InPending
  <2>4. QED  BY <2>2, <2>3
<1>8. QED
  BY <1>4, <1>5, <1>6, <1>7 DEF Connected, StopReleases

\* All that is pending fails and nobody's request is in _pending any more.
LEMMA ShutdownConnected ==
  ASSUME IInv, cur' = 0, UNCHANGED <<nextId, idOf, from, to>>, Shutdown,
         \/ UNCHANGED <<pc, mine>>
         \/ /\ UNCHANGED closing
            /\ \E k \in Callers, step \in {"idle", "backoff", "spawn"} :
                 /\ Suspend(k, step) /\ mine' = [mine EXCEPT ![k] = 0]
                 /\ step = "backoff" => RestartEnabled
  PROVE  Connected'
  BY DEF Connected, IInv, TypeOK, IdsDistinct, OwnRequest,
         BackoffEnabled, AwaitedIsPending, StopReleases, Waiting, Awaited,
         InPending, Popped, Suspend, Running, Shutdown, FailPending

LEMMA CallerConnected ==
  ASSUME IInv, NEW k \in Callers, Caller(k)
  PROVE  Connected'
<1>1. nextId' = nextId + 1 => nextId \in Ids
  BY Numbers
<1>2. CASE Refuse(k) \/ Return(k)
  BY <1>2, LeaveConnected DEF Refuse, Return, Raise
<1>3. CASE Call(k)
  <2>1. cur \in Procs
    BY <1>3, StartsType DEF IInv, TypeOK, Call, Running, Procs
  <2>2. QED  BY <1>1, <1>3, <2>1, RequestConnected DEF Call, Request, Refused
<1>4. CASE Restart(k)
  <2>1. PICK step \in {"idle", "backoff", "spawn"} :
          Suspend(k, step) /\ (step = "backoff" => RestartEnabled)
    BY <1>4 DEF Restart
  <2>2. CASE cur # 0
    BY <1>4, <2>1, <2>2, ShutdownConnected DEF Restart, Shutdown
  <2>3. CASE cur = 0
    BY <1>4, <2>1, <2>3, LeaveConnected DEF Restart
  <2>4. QED  BY <2>2, <2>3
<1>5. CASE BackoffOver(k) \/ SpawnFails(k)
  <2>1. mine[k] = 0 /\ mine = [mine EXCEPT ![k] = 0]
    BY <1>5 DEF IInv, OwnRequest, Waiting, TypeOK, BackoffOver, SpawnFails
  <2>2. mine' = [mine EXCEPT ![k] = 0] /\ pending' = Popped(k)
    BY <1>5, <2>1 DEF BackoffOver, SpawnFails, Raise, Popped
  <2>3. \E step \in {"idle", "spawn"} : Suspend(k, step)
    BY <1>5 DEF BackoffOver, SpawnFails, Raise
  <2>4. QED  BY <1>5, <2>2, <2>3, LeaveConnected DEF BackoffOver, SpawnFails
<1>6. CASE SpawnDone(k)
  <2>1. mine[k] = 0 /\ pending = Popped(k)
    BY <1>6 DEF IInv, OwnRequest, Waiting, SpawnDone, Popped
  <2>2. (restarts + 1) \in Procs
    BY <1>6, Numbers
  <2>3. CASE Refused
    BY <1>6, <2>1, <2>2, <2>3 DEF SpawnDone, Raise, Refused, Connected, IInv, TypeOK,
       IdsDistinct, OwnRequest, BackoffEnabled, AwaitedIsPending,
       StopReleases, Waiting, Awaited, InPending, Suspend
  <2>4. CASE ~Refused
    BY <1>1, <1>6, <2>1, <2>2, <2>4, RequestConnected DEF SpawnDone, Request, Refused
  <2>5. QED  BY <2>3, <2>4
<1>7. CASE Timeout(k)
  BY <1>7 DEF Timeout, Connected, IInv, TypeOK, IdsDistinct, OwnRequest,
     BackoffEnabled, AwaitedIsPending, StopReleases, Waiting, Awaited, InPending, Running
<1>8. QED
  BY <1>2, <1>3, <1>4, <1>5, <1>6, <1>7 DEF Caller

LEMMA EnvironmentConnected ==
  ASSUME IInv, [Next]_vars, \A k \in Callers : ~Caller(k)
  PROVE  Connected'
<1> USE DEF Connected, IdsDistinct, OwnRequest, BackoffEnabled,
            AwaitedIsPending, StopReleases, Waiting, Awaited, InPending, Running
<1>1. ASSUME NEW n \in Ids, Answer(n) PROVE Connected'
  <2>1. 0 \notin Procs /\ 0 \notin Ids /\ Ids \subseteq Nat /\ nextId \in Nat
    BY Ranges DEF IInv
  <2>2. to[n] # 0 /\ n < nextId
    BY <1>1, <2>1 DEF IInv, TypeOK, Answer
  <2>3. idOf[n] = n /\ pending[n] \in {0, n}
    BY <2>2 DEF IInv
  <2>4. CASE pending[n] = n /\ fut[n] = "open"
    <3>1. /\ fut' = [fut EXCEPT ![n] = "answered"] /\ from' = [from EXCEPT ![n] = n]
          /\ to' = [to EXCEPT ![n] = 0]
          /\ UNCHANGED <<closing, procVars, nextId, idOf, pending, pc, mine>>
      BY <1>1, <2>1, <2>3, <2>4 DEF Answer
    <3>2. QED  BY <2>1, <2>2, <3>1 DEF IInv, TypeOK
  <2>5. CASE ~(pending[n] = n /\ fut[n] = "open")
    <3>1. /\ to' = [to EXCEPT ![n] = 0]
          /\ UNCHANGED <<closing, procVars, nextId, idOf, pending, fut, from, pc, mine>>
      BY <1>1, <2>1, <2>3, <2>5 DEF Answer
    <3>2. QED  BY <2>1, <2>2, <2>5, <3>1 DEF IInv, TypeOK
  <2>6. QED  BY <2>4, <2>5
<1>2. ASSUME NEW p \in Procs, TasksRun(p) \/ Garbage(p) \/ Crash(p) \/ Reap(p)
      PROVE  Connected'
  BY <1>2 DEF IInv, TasksRun, Garbage, Crash, Reap
<1>3. ASSUME NEW p \in Procs, ExitWatch(p) PROVE Connected'
  BY <1>3 DEF IInv, TypeOK, ExitWatch, FailPending
<1>4. CASE Stop
  BY <1>4, ShutdownConnected DEF Stop, Shutdown
<1>5. CASE UNCHANGED vars
  BY <1>5 DEF IInv, vars
<1>6. QED
  BY <1>1, <1>2, <1>3, <1>4, <1>5 DEF Next
-----------------------------------------------------------------------------
(* The theorems *)

\* It holds initially and every step keeps it.
LEMMA InitInvariant ==
  ASSUME Init
  PROVE  IInv
<1>1. 0 \notin Procs /\ Starts \in Nat /\ MaxCalls \in Nat /\ Ids \subseteq Nat \ {0}
  BY StartsType, ClientAssumption DEF Procs, Ids
<1>2. TypeOK
  <2>1. /\ restarts \in 0..Starts /\ cur \in 0..restarts
        /\ nextId \in 1..(Starts + MaxCalls + 1)
        /\ nCalls \in 0..MaxCalls /\ nCrashes \in 0..MaxCrashes
        /\ nGarbage \in 0..MaxGarbage
    BY <1>1, ClientAssumption DEF Init
  <2>2. QED  BY <2>1 DEF Init, TypeOK
<1>3. Starting = {} /\ Due = {}
  BY DEF Init, Starting, Due
<1>4. StartsBounded /\ IdsSuffice
  BY <1>1, <1>3, FS_EmptySet DEF Init, StartsBounded, IdsSuffice
<1>5. IdsDistinct
  BY <1>1 DEF Init, IdsDistinct
<1>6. OwnRequest /\ BackoffEnabled /\ AwaitedIsPending /\ StopReleases
  BY DEF Init, OwnRequest, BackoffEnabled, AwaitedIsPending, StopReleases,
         Waiting, Awaited, Running
<1>7. QED  BY <1>2, <1>4, <1>5, <1>6 DEF IInv

LEMMA StepInvariant ==
  ASSUME IInv, [Next]_vars
  PROVE  IInv'
<1>1. CASE \E k \in Callers : Caller(k)
  BY <1>1, CallerType, Bounds, CallerConnected DEF IInv, Connected
<1>2. CASE \A k \in Callers : ~Caller(k)
  <2>1. UNCHANGED <<restarts, nextId, nCalls, pc>>
    BY <1>2 DEF Next, vars, Answer, TasksRun, Garbage, Crash, Reap, ExitWatch, Stop
  <2>2. StartsBounded' /\ IdsSuffice'
    BY <2>1 DEF IInv, StartsBounded, IdsSuffice, Starting, Due
  <2>3. QED
    BY <1>2, <2>2, EnvironmentType, EnvironmentConnected DEF IInv, Connected
<1>3. QED  BY <1>1, <1>2

\* The invariant above holds in every reachable state; the rest follows.
THEOREM Invariant == Spec => []IInv
<1>1. Init => IInv  BY InitInvariant
<1>2. IInv /\ [Next]_vars => IInv'  BY StepInvariant
<1>3. QED  BY <1>1, <1>2, PTL DEF Spec

\* The model is well typed: neither processes nor request ids run out.
THEOREM TypeCorrect == Spec => []TypeOK
<1>1. IInv => TypeOK  BY DEF IInv
<1>2. QED  BY <1>1, Invariant, PTL

\* Racing callers start at most one process each beyond the restart limit,
\* whatever the limit and the number of callers.
THEOREM StartsAreBounded == Spec => []StartsBounded
<1>1. IInv => StartsBounded  BY DEF IInv
<1>2. QED  BY <1>1, Invariant, PTL

\* No future is awaited that nobody can resolve, and a stopped client holds nobody.
THEOREM NobodyIsStranded == Spec => []NobodyStranded
<1>1. IInv => NobodyStranded  BY DEF IInv, NobodyStranded
<1>2. QED  BY <1>1, Invariant, PTL
-----------------------------------------------------------------------------
(* The client implements Requests *)

\* An answer only ever settles the request it answers, so the outcome is the
\* state of the future.
LEMMA OutcomeIsFuture ==
  ASSUME IInv, IInv'
  PROVE  OutcomeOf = fut /\ OutcomeOf' = fut'
<1>1. OutcomeOf = fut
  BY DEF IInv, TypeOK, IdsDistinct, OutcomeOf
<1>2. OutcomeOf' = fut'
  BY DEF IInv, TypeOK, IdsDistinct, OutcomeOf
<1>3. QED  BY <1>1, <1>2

LEMMA RequestAsks ==
  ASSUME IInv, IInv', NEW k \in Callers, NEW p, NEW step, NEW held,
         Request(k, p, step, held), nextId \in Ids
  PROVE  Board!Next
<1>1. OutcomeOf = fut /\ OutcomeOf' = fut'  BY OutcomeIsFuture
<1>2. fut[nextId] = "none" /\ fut' = [fut EXCEPT ![nextId] = "open"]
  BY DEF IInv, IdsDistinct, Request, TypeOK
<1>3. Board!Ask(nextId)  BY <1>1, <1>2 DEF Board!Ask
<1>4. QED  BY <1>3 DEF Board!Next

LEMMA PendingFails ==
  ASSUME IInv, IInv', FailPending
  PROVE  Board!Next
<1> DEFINE S == {n \in Ids : fut[n] = "open" /\ InPending(n)}
<1>1. OutcomeOf = fut /\ OutcomeOf' = fut'  BY OutcomeIsFuture
<1>2. /\ \A n \in S : fut[n] = "open"
      /\ fut' = [n \in Ids |-> IF n \in S THEN "failed" ELSE fut[n]]
  BY DEF FailPending
<1>3. Board!Fail(S)  BY <1>1, <1>2 DEF Board!Fail
<1>4. S \in SUBSET Ids  OBVIOUS
<1>5. QED  BY <1>3, <1>4 DEF Board!Next

\* Every step of the client is a step of Requests or leaves it alone.
LEMMA StepRefines ==
  ASSUME IInv, IInv', [Next]_vars
  PROVE  [Board!Next]_OutcomeOf
<1>1. OutcomeOf = fut /\ OutcomeOf' = fut'  BY OutcomeIsFuture
<1>2. CASE UNCHANGED fut  BY <1>1, <1>2
<1>3. CASE FailPending  BY <1>3, PendingFails
<1>4. ASSUME NEW k \in Callers, Caller(k), ~UNCHANGED fut, ~FailPending
      PROVE  Board!Next
  <2>1. nextId' = nextId + 1 => nextId \in Ids
    BY <1>4, Numbers
  <2>2. CASE Call(k)
    BY <2>1, <2>2, RequestAsks DEF Call, Request
  <2>3. CASE SpawnDone(k)
    BY <1>4, <2>1, <2>3, RequestAsks DEF SpawnDone, Request
  <2>4. CASE Timeout(k)
    <3>1. mine[k] \in Ids /\ fut[mine[k]] = "open"
      BY <2>4 DEF Timeout, IInv, OwnRequest, Waiting
    <3>2. fut' = [n \in Ids |-> IF n \in {mine[k]} THEN "failed" ELSE fut[n]]
      BY <2>4, <3>1 DEF Timeout, IInv, TypeOK
    <3>3. Board!Fail({mine[k]})  BY <1>1, <3>1, <3>2 DEF Board!Fail
    <3>4. QED  BY <3>1, <3>3 DEF Board!Next
  <2>5. QED
    BY <1>4, <2>2, <2>3, <2>4 DEF Caller, Refuse, Restart, Shutdown, BackoffOver,
       SpawnFails, Return
<1>5. ASSUME NEW n \in Ids, Answer(n), ~UNCHANGED fut
      PROVE  Board!Next
  <2>1. PICK m \in Ids : fut[m] = "open" /\ fut' = [fut EXCEPT ![m] = "answered"]
    BY <1>5 DEF Answer, IInv, TypeOK
  <2>2. Board!Answer(m)  BY <1>1, <2>1 DEF Board!Answer
  <2>3. QED  BY <2>2 DEF Board!Next
<1>6. ASSUME ~UNCHANGED fut, ~FailPending
      PROVE  (\E k \in Callers : Caller(k)) \/ (\E n \in Ids : Answer(n))
  BY <1>6 DEF Next, vars, TasksRun, Garbage, Crash, Reap, ExitWatch, Stop, Shutdown
<1>7. QED  BY <1>2, <1>3, <1>4, <1>5, <1>6

\* A request is settled at most once, never by the answer to another.
THEOREM ImplementsRequests == Spec => RequestsRefined
<1>1. Init => Board!Init
  BY DEF Init, OutcomeOf, Board!Init
<1>2. IInv /\ IInv' /\ [Next]_vars => [Board!Next]_OutcomeOf
  BY StepRefines
<1>3. QED
  BY <1>1, <1>2, Invariant, PTL DEF Spec, RequestsRefined, Board!Spec
-----------------------------------------------------------------------------
(* The exits of processes that were not overtaken are noticed *)

\* After a request is made, whoever waits is owed an answer by the process the
\* request went to or by one that was watched before.
LEMMA RequestWatched ==
  ASSUME IInv, Watched, NEW k \in Callers, NEW p \in Procs, NEW step, NEW held,
         Request(k, p, step, held), nextId \in Ids,
         NEW j \in Callers, Awaited(j)'
  PROVE  to'[mine'[j]] \in watch \cup overtaken \cup {p}
<1>1. /\ pc \in [Callers -> {"idle", "backoff", "spawn", "init", "wait"}]
      /\ mine \in [Callers -> Ids \cup {0}] /\ to \in [Ids -> Procs \cup {0}]
      /\ fut \in [Ids -> {"none", "open", "answered", "failed"}]
  BY DEF IInv, TypeOK
<1>2. mine[j] # nextId
  BY Ranges DEF IInv, OwnRequest
<1>3. /\ fut' = [fut EXCEPT ![nextId] = "open"]
      /\ \/ /\ to' = to /\ pc' = [pc EXCEPT ![k] = "idle"]
            /\ mine' = [mine EXCEPT ![k] = 0]
         \/ /\ to' = [to EXCEPT ![nextId] = p] /\ pc' = [pc EXCEPT ![k] = step]
            /\ mine' = [mine EXCEPT ![k] = nextId]
  BY DEF Request, Suspend
<1>4. CASE j = k
  BY <1>1, <1>3, <1>4 DEF Awaited
<1>5. CASE j # k
  <2>1. mine'[j] = mine[j] /\ pc'[j] = pc[j]
    BY <1>1, <1>3, <1>5
  <2>2. mine[j] \in Ids
    BY <2>1 DEF Awaited, IInv, OwnRequest, Waiting
  <2>3. fut'[mine[j]] = fut[mine[j]] /\ to'[mine[j]] = to[mine[j]]
    BY <1>1, <1>2, <1>3, <2>2
  <2>4. Awaited(j)
    BY <2>1, <2>3 DEF Awaited
  <2>5. QED  BY <2>1, <2>3, <2>4 DEF Watched
<1>6. QED  BY <1>4, <1>5

LEMMA WatchedByCaller ==
  ASSUME IInv, Watched, NEW k \in Callers, Caller(k), IInv'
  PROVE  Watched'
<1>1. /\ TypeOK /\ 0 \notin Procs /\ 0 \notin Ids
      /\ cur \in Procs \cup {0} /\ mine' \in [Callers -> Ids \cup {0}]
  BY Ranges DEF IInv, TypeOK
<1>2. CASE Call(k)
  <2>1. cur \in watch /\ cur \in Procs  BY <1>1, <1>2 DEF Call, Watched, Running
  <2>2. nextId \in Ids  BY <1>2, Numbers DEF Call, Request
  <2>3. \A j \in Callers : Awaited(j)' => to'[mine'[j]] \in watch \cup overtaken
    BY <1>2, <2>1, <2>2, RequestWatched DEF Call
  <2>4. QED  BY <1>2, <2>3 DEF Watched, Call, Running
<1>3. CASE SpawnDone(k)
  <2>1. (restarts + 1) \in Procs  BY <1>3, Numbers DEF SpawnDone
  <2>5. /\ overtaken' = overtaken \cup fresh /\ restarts' = restarts + 1
        /\ cur' = restarts + 1 /\ watch' = watch \cup {restarts + 1}
        /\ fresh' = fresh \cup {restarts + 1} /\ follows' = follows
    BY <1>3 DEF SpawnDone, Counted, TasksCreated
  <2>6. restarts \in Nat /\ Procs \subseteq Nat /\ overtaken \subseteq Procs
    BY <1>1, StartsType DEF TypeOK, Procs
  <2>7. \A p \in fresh : p \in Procs /\ (p = restarts \/ p \in overtaken)
    BY <1>1 DEF Watched, TypeOK
  <2>8. \A p \in overtaken' : p < restarts'
    <3>1. \A p \in overtaken : p \in Nat /\ p < restarts
      BY <2>6 DEF Watched
    <3>2. \A p \in fresh : p = restarts \/ p \in overtaken
      BY <2>7
    <3>3. QED  BY <2>5, <2>6, <3>1, <3>2
  <2>9. /\ fresh' \subseteq watch'
        /\ \A p \in fresh' : p = cur' \/ p \in overtaken'
        /\ \A p \in watch' \ fresh' : follows'[p] = p \/ p \in overtaken'
        /\ cur' # 0 => cur' = restarts'
        /\ Running' => cur' \in watch'
    BY <2>5 DEF Watched, Running
  <2>2. CASE Refused
    <3>1. UNCHANGED <<to, fut>> /\ Raise(k)  BY <1>3, <2>2 DEF SpawnDone
    <3>2. \A j \in Callers : Awaited(j)' => Awaited(j) /\ mine'[j] = mine[j]
      BY <1>1, <3>1 DEF Raise, Awaited, TypeOK, Suspend
    <3>3. QED  BY <2>5, <2>8, <2>9, <3>1, <3>2 DEF Watched
  <2>3. CASE ~Refused
    <3>1. nextId \in Ids  BY <1>3, <2>3, Numbers DEF SpawnDone, Request
    <3>2. SUFFICES ASSUME NEW j \in Callers, Awaited(j)'
                   PROVE  to'[mine'[j]] \in watch' \cup overtaken'
      BY <2>8, <2>9 DEF Watched
    <3>3. to'[mine'[j]] \in watch \cup overtaken \cup {restarts + 1}
      BY <1>3, <2>1, <2>3, <3>1, <3>2, RequestWatched DEF SpawnDone
    <3>4. QED  BY <2>5, <3>3
  <2>4. QED  BY <2>2, <2>3
<1>4. CASE Restart(k) /\ cur # 0
  BY <1>1, <1>4 DEF Restart, Shutdown, FailPending, Watched, IInv, AwaitedIsPending,
     OwnRequest, Waiting, Awaited, Running, TypeOK, Suspend
<1>5. CASE Timeout(k)
  BY <1>1, <1>5 DEF Timeout, Watched, Awaited, Running, TypeOK
<1>6. CASE Refuse(k) \/ (Restart(k) /\ cur = 0) \/ BackoffOver(k) \/ SpawnFails(k)
           \/ Return(k)
  <2>1. UNCHANGED <<cur, restarts, proc, taskVars, fut, to>>
    BY <1>6 DEF Refuse, Restart, BackoffOver, SpawnFails, Return
  <2>2. /\ \E step \in {"idle", "backoff", "spawn"} : Suspend(k, step)
        /\ mine' = [mine EXCEPT ![k] = 0] \/ mine' = mine
    BY <1>6 DEF Refuse, Restart, BackoffOver, SpawnFails, Return, Raise
  <2>3. \A j \in Callers : Awaited(j)' => Awaited(j) /\ mine'[j] = mine[j]
    BY <1>1, <2>1, <2>2 DEF Awaited, Suspend, TypeOK
  <2>4. QED  BY <2>1, <2>3 DEF Watched, Running
<1>7. QED  BY <1>2, <1>3, <1>4, <1>5, <1>6 DEF Caller

LEMMA WatchedByOthers ==
  ASSUME IInv, Watched, [Next]_vars, \A k \in Callers : ~Caller(k), IInv'
  PROVE  Watched'
<1>1. /\ TypeOK /\ 0 \notin Procs /\ 0 \notin Ids /\ cur \in Procs \cup {0}
  BY Ranges DEF IInv
<1>2. ASSUME NEW n \in Ids, Answer(n) PROVE Watched'
  <2>1. UNCHANGED <<cur, restarts, proc, taskVars, idOf, pending, pc, mine>>
    BY <1>2 DEF Answer
  <2>2. ASSUME NEW k \in Callers, Awaited(k)'
        PROVE  to'[mine'[k]] \in watch' \cup overtaken'
    <3>1. mine[k] \in Ids /\ mine[k] < nextId /\ pc[k] \in {"init", "wait"}
      BY <2>1, <2>2 DEF Awaited, IInv, OwnRequest, Waiting
    <3>2. fut[mine[k]] = "open"
      BY <1>1, <1>2, <2>1, <2>2, <3>1 DEF Answer, Awaited, TypeOK
    <3>3. pending[idOf[mine[k]]] = mine[k] /\ Awaited(k)
      BY <3>1, <3>2 DEF Awaited, IInv, AwaitedIsPending, InPending
    <3>4. CASE mine[k] = n
      BY <1>1, <1>2, <2>1, <2>2, <3>1, <3>2, <3>3, <3>4 DEF Answer, Awaited, TypeOK
    <3>5. CASE mine[k] # n
      BY <1>1, <1>2, <2>1, <3>1, <3>3, <3>5 DEF Answer, TypeOK, Watched
    <3>6. QED  BY <3>4, <3>5
  <2>3. QED  BY <2>1, <2>2 DEF Watched, Running
<1>3. ASSUME NEW p \in Procs, TasksRun(p) PROVE Watched'
  <2>1. /\ p \in fresh /\ fresh' = fresh \ {p} /\ follows' = [follows EXCEPT ![p] = cur]
        /\ watch' = (IF cur = 0 THEN watch \ {p} ELSE watch)
        /\ UNCHANGED <<cur, restarts, proc, overtaken, reqVars, pc, mine>>
    BY <1>3 DEF TasksRun
  <2>2. cur = 0 => p \in overtaken
    BY <1>1, <2>1 DEF Watched
  <2>3. \A q \in watch' \ fresh' : follows'[q] = q \/ q \in overtaken'
    BY <1>1, <2>1 DEF Watched, TypeOK
  <2>4. \A k \in Callers : Awaited(k)' => to'[mine'[k]] \in watch' \cup overtaken'
    BY <2>1, <2>2 DEF Watched, Awaited
  <2>5. QED  BY <2>1, <2>2, <2>3, <2>4 DEF Watched, Running
<1>4. ASSUME NEW p \in Procs, Garbage(p) \/ Crash(p) \/ Reap(p) PROVE Watched'
  <2>1. UNCHANGED <<cur, restarts, watch, fresh, follows, overtaken, reqVars, pc, mine>>
    BY <1>4 DEF Garbage, Crash, Reap
  <2>2. Running' => Running
    BY <1>1, <1>4 DEF Garbage, Crash, Reap, Running, TypeOK
  <2>3. QED  BY <2>1, <2>2 DEF Watched, Awaited
<1>5. ASSUME NEW p \in Procs, ExitWatch(p) PROVE Watched'
  <2>1. \A k \in Callers : ~Awaited(k)'
    BY <1>1, <1>5 DEF ExitWatch, FailPending, IInv, AwaitedIsPending, StopReleases,
       OwnRequest, Waiting, Awaited, TypeOK
  <2>2. /\ p \in watch \ fresh /\ proc[follows[p]] = "exited" /\ watch' = watch \ {p}
        /\ UNCHANGED <<cur, restarts, proc, fresh, follows, overtaken>>
    BY <1>5 DEF ExitWatch
  <2>3. restarts \in Nat
    BY <1>1, StartsType DEF TypeOK
  <2>4. Running' => p # cur
    BY <2>2, <2>3 DEF Watched, Running
  <2>5. QED  BY <2>1, <2>2, <2>4 DEF Watched, Running
<1>6. CASE Stop
  <2>1. \A k \in Callers : ~Awaited(k)'
    BY <1>6 DEF Stop, IInv, StopReleases
  <2>2. QED  BY <1>1, <1>6, <2>1 DEF Stop, Shutdown, Watched, Running
<1>7. CASE UNCHANGED vars
  BY <1>7 DEF vars, Watched, Awaited, Running
<1>8. QED
  BY <1>2, <1>3, <1>4, <1>5, <1>6, <1>7 DEF Next

\* The exit of a process that owes an answer is noticed by a task of the client
\* that follows it, unless the next process was there before its tasks ran.
THEOREM ExitsAreNoticed == Spec => []ExitIsNoticed
<1>1. Init => Watched
  BY DEF Init, Watched, Running, Awaited
<1>2. IInv /\ IInv' /\ Watched /\ [Next]_vars => Watched'
  BY WatchedByCaller, WatchedByOthers
<1>3. Watched => ExitIsNoticed
  BY DEF Watched, ExitIsNoticed, Unfollowed, Found
<1>4. QED  BY <1>1, <1>2, <1>3, Invariant, PTL DEF Spec
=============================================================================
