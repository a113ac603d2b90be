----------------------------- MODULE McpClient -----------------------------
(***************************************************************************)
(* The MCP stdio client of src/mcp/stdio_client.py: one client object, the *)
(* server processes it starts, and the tasks that call tools through it.   *)
(*                                                                         *)
(* The client takes no lock around the start of a process.  A step is the  *)
(* code of one task between two points where it is suspended: the backoff  *)
(* sleep, create_subprocess_exec, a future.                                *)
(*                                                                         *)
(* Abstracted: the pipes (a request written to a live process arrives, an  *)
(* answer may be read even after the process has died; a write that blocks *)
(* because the server does not read is left out), the content of messages, *)
(* notifications, stderr, and the name of the exception a caller gets.     *)
(***************************************************************************)
EXTENDS Integers, FiniteSets

CONSTANTS
  Callers,         (* tasks that call through the client                    *)
  Timed,           (* those with a timeout: tool calls, but not tools/list  *)
  RestartEnabled,  (* restart.enabled                                       *)
  MaxRestarts,     (* restart.max_restarts                                  *)
  MaxCalls,        (* bound on the number of calls                          *)
  MaxCrashes,      (* bound on the number of processes that die             *)
  MaxGarbage       (* bound on malformed frames                             *)

ASSUME ClientAssumption ==
  /\ IsFiniteSet(Callers) /\ Timed \subseteq Callers
  /\ RestartEnabled \in BOOLEAN
  /\ MaxRestarts \in Nat /\ MaxCalls \in Nat
  /\ MaxCrashes \in Nat /\ MaxGarbage \in Nat

\* Processes are numbered as they are started; StartsBounded says there are
\* no more.  A process gets one "initialize", a call makes one request more.
Starts == (IF RestartEnabled THEN MaxRestarts ELSE 0) + Cardinality(Callers)
Procs  == 1..Starts
Ids    == 1..(Starts + MaxCalls)

VARIABLES
  closing,   (* _closing                                                    *)
  cur,       (* _proc: 0 for None                                           *)
  restarts,  (* _restarts                                                   *)
  proc,      (* "none", "alive", "broken" (dead, its exit not seen yet),    *)
             (* "ending" (terminated by stop), "exited" (returncode is set) *)
  rx, watch, (* starts whose _rx_loop, _exit_watch task is not done         *)
  fresh,     (* starts whose tasks have been created and have not run       *)
  follows,   (* the process that the tasks of a start have found in _proc   *)
  overtaken, (* history: starts whose tasks had not run when the next       *)
             (* process was there (both in one turn of the event loop)      *)
  nextId,    (* _next_id; it also numbers the requests of this model        *)
  idOf,      (* idOf[n]: the id request n carries                           *)
  pending,   (* _pending[id]: the request that waits for this id, or 0      *)
  fut,       (* future of request n: "none", "open", "answered", "failed"   *)
  from,      (* history: the request whose answer resolved the future       *)
  to,        (* the process that has still to answer request n, or 0        *)
  pc,        (* where a caller is suspended: "idle", "backoff", "spawn",    *)
             (* "init" (awaits the handshake), "wait" (awaits its answer)   *)
  mine,      (* the request a caller awaits                                 *)
  nCalls, nCrashes, nGarbage

taskVars == <<rx, watch, fresh, follows, overtaken>>
procVars == <<cur, restarts, proc, taskVars>>
reqVars  == <<nextId, idOf, pending, fut, from, to>>
bounds   == <<nCalls, nCrashes, nGarbage>>
vars == <<closing, procVars, reqVars, pc, mine, bounds>>

Init ==
  /\ closing = FALSE /\ cur = 0 /\ restarts = 0
  /\ proc = [p \in Procs |-> "none"]
  /\ rx = {} /\ watch = {} /\ fresh = {} /\ follows = [p \in Procs |-> 0]
  /\ overtaken = {}
  /\ nextId = 1
  /\ idOf    = [n \in Ids |-> 0] /\ pending = [i \in Ids |-> 0]
  /\ fut     = [n \in Ids |-> "none"]
  /\ from    = [n \in Ids |-> 0] /\ to = [n \in Ids |-> 0]
  /\ pc      = [k \in Callers |-> "idle"]
  /\ mine    = [k \in Callers |-> 0]
  /\ nCalls = 0 /\ nCrashes = 0 /\ nGarbage = 0
-----------------------------------------------------------------------------
(* Shared pieces *)

Suspend(k, step) == pc' = [pc EXCEPT ![k] = step]

\* "_proc and _proc.returncode is None"
Running == cur # 0 /\ proc[cur] # "exited"

InPending(n) == pending[idOf[n]] = n

FailNobody == UNCHANGED fut   \* variant: _pending is cleared before it is walked
\* Futures that are pending and not done fail.
FailPending ==
  fut' = [n \in Ids |-> IF fut[n] = "open" /\ InPending(n) THEN "failed" ELSE fut[n]]

\* _shutdown_process, up to the terminate: the tasks of the last start, the
\* only ones the client still knows, are cancelled.
Shutdown ==
  /\ cur' = 0
  /\ rx' = rx \ {restarts} /\ watch' = watch \ {restarts}
  /\ fresh' = fresh \ {restarts} /\ UNCHANGED <<follows, overtaken>>
  /\ FailPending
  /\ pending' = [i \in Ids |-> 0]

ReusedId == 1 + Cardinality({i \in Ids : pending[i] # 0})   \* variant: ids of
NewId == nextId                                             \* answered requests return

\* The future enters _pending (held: what it holds otherwise) and the request
\* is written to process p.  The pipe of a dead process raises after that.
Request(k, p, step, held) ==
  /\ nextId'  = nextId + 1
  /\ idOf'    = [idOf EXCEPT ![nextId] = NewId]
  /\ pending' = [held EXCEPT ![NewId] = nextId]
  /\ fut'     = [fut EXCEPT ![nextId] = "open"]
  /\ IF proc[p] = "broken"
     THEN to' = to /\ Suspend(k, "idle") /\ mine' = [mine EXCEPT ![k] = 0]
     ELSE /\ to' = [to EXCEPT ![nextId] = p]
          /\ Suspend(k, step) /\ mine' = [mine EXCEPT ![k] = nextId]
  /\ UNCHANGED from

Raise(k) == Suspend(k, "idle") /\ mine' = [mine EXCEPT ![k] = 0]

\* The finally of request(): _pending.pop
Popped(k) == IF mine[k] = 0 THEN pending
             ELSE [pending EXCEPT ![idOf[mine[k]]] = 0]
-----------------------------------------------------------------------------
(* The caller *)

\* A call begins, or the handshake it waited for has been answered; with it
\* ends the start, and the caller goes on to its own request.
Ready(k) == \/ pc[k] = "idle" /\ nCalls < MaxCalls
            \/ pc[k] = "init" /\ fut[mine[k]] = "answered"
Count(k) == nCalls' = IF pc[k] = "idle" THEN nCalls + 1 ELSE nCalls

Refused == closing

Refuse(k) ==
  /\ Ready(k) /\ Count(k) /\ Refused
  /\ Raise(k) /\ pending' = Popped(k)
  /\ UNCHANGED <<closing, procVars, nextId, idOf, fut, from, to, nCrashes, nGarbage>>

\* A process that exists is taken as started, its handshake answered or not.
Call(k) ==
  /\ Ready(k) /\ Count(k) /\ ~Refused /\ Running
  /\ pc[k] = "init" => proc[cur] # "broken"
  /\ Request(k, cur, "wait", Popped(k))
  /\ UNCHANGED <<closing, procVars, nCrashes, nGarbage>>

\* _ensure_started without a running process: what is left of the last one
\* goes, and unless this is the first start the caller backs off.
Restart(k) ==
  /\ Ready(k) /\ Count(k) /\ ~Refused /\ ~Running
  /\ IF cur # 0 THEN Shutdown
     ELSE pending' = Popped(k) /\ UNCHANGED <<cur, taskVars, fut>>
  /\ mine' = [mine EXCEPT ![k] = 0]
  /\ Suspend(k, IF restarts = 0 THEN "spawn"
                ELSE IF RestartEnabled THEN "backoff" ELSE "idle")
  /\ UNCHANGED <<closing, restarts, proc, nextId, idOf, from, to, nCrashes, nGarbage>>

LimitIgnored == FALSE   \* variant: no restart limit
LimitReached == restarts > MaxRestarts

\* After the sleep only the limit is looked at: neither _closing nor whether
\* another caller has started a process meanwhile.
BackoffOver(k) ==
  /\ pc[k] = "backoff"
  /\ Suspend(k, IF LimitReached THEN "idle" ELSE "spawn")
  /\ UNCHANGED <<closing, procVars, reqVars, mine, bounds>>

Counted(p) == restarts' = p

TasksReplaced(p) == rx' = {p} /\ watch' = {p} /\ fresh' = {p}   \* variant
TasksCreated(p) == /\ rx' = rx \cup {p} /\ watch' = watch \cup {p}
                   /\ fresh' = fresh \cup {p}

\* The process exists: its tasks are created, and the handshake is sent unless the
\* client has been stopped in the meantime.
SpawnDone(k) ==
  LET p == restarts + 1 IN
  /\ pc[k] = "spawn"
  /\ Counted(p) /\ cur' = p
  /\ proc' = [proc EXCEPT ![p] = "alive"]
  /\ TasksCreated(p) /\ overtaken' = overtaken \cup fresh /\ UNCHANGED follows
  /\ IF Refused THEN Raise(k) /\ UNCHANGED reqVars
                ELSE Request(k, p, "init", pending)
  /\ UNCHANGED <<closing, bounds>>

SpawnFails(k) ==
  /\ pc[k] = "spawn"
  /\ Raise(k)
  /\ UNCHANGED <<closing, procVars, reqVars, bounds>>

\* The timeout of wait_for cancels the future; the caller wakes up later.
Timeout(k) ==
  /\ pc[k] = "wait" /\ k \in Timed /\ fut[mine[k]] = "open"
  /\ fut' = [fut EXCEPT ![mine[k]] = "failed"]
  /\ UNCHANGED <<closing, procVars, nextId, idOf, pending, from, to, pc, mine, bounds>>

\* The call returns or raises; so does a start whose handshake failed or was
\* answered with an error, or whose "initialized" finds the pipe broken.
Return(k) ==
  /\ pc[k] \in {"wait", "init"} /\ fut[mine[k]] # "open"
  /\ Raise(k) /\ pending' = Popped(k)
  /\ UNCHANGED <<closing, procVars, nextId, idOf, fut, from, to, bounds>>

Caller(k) == \/ Refuse(k) \/ Call(k) \/ Restart(k) \/ BackoffOver(k)
             \/ SpawnDone(k) \/ SpawnFails(k) \/ Timeout(k) \/ Return(k)
-----------------------------------------------------------------------------
(* The server process and the tasks that follow it *)

\* The tasks of start p run for the first time.  They follow the process in
\* _proc, whichever it is by now, and of two readers the second fails.
TasksRun(p) ==
  /\ p \in fresh /\ fresh' = fresh \ {p}
  /\ follows' = [follows EXCEPT ![p] = cur]
  /\ watch' = IF cur = 0 THEN watch \ {p} ELSE watch
  /\ rx' = IF cur = 0 \/ (\E q \in rx \ fresh : follows[q] = cur)
           THEN rx \ {p} ELSE rx
  /\ UNCHANGED <<closing, cur, restarts, proc, overtaken, reqVars, pc, mine, bounds>>

\* The server answers request n and a reader gets to it, sooner or later.
Answer(n) ==
  LET m == pending[idOf[n]] IN
  /\ to[n] # 0 /\ \E q \in rx \ fresh : follows[q] = to[n]
  /\ to' = [to EXCEPT ![n] = 0]
  /\ IF m # 0 /\ fut[m] = "open"
     THEN /\ fut'  = [fut EXCEPT ![m] = "answered"]
          /\ from' = [from EXCEPT ![m] = n]
     ELSE UNCHANGED <<fut, from>>
  /\ UNCHANGED <<closing, procVars, nextId, idOf, pending, pc, mine, bounds>>

\* A malformed frame ends _rx_loop with an exception nobody looks at.
Garbage(p) ==
  /\ p \in rx \ fresh /\ nGarbage < MaxGarbage
  /\ rx' = rx \ {p} /\ nGarbage' = nGarbage + 1
  /\ UNCHANGED <<closing, cur, restarts, proc, watch, fresh, follows, overtaken, reqVars, pc, mine,
                 nCalls, nCrashes>>

Crash(p) ==
  /\ proc[p] = "alive" /\ nCrashes < MaxCrashes
  /\ proc' = [proc EXCEPT ![p] = "broken"] /\ nCrashes' = nCrashes + 1
  /\ UNCHANGED <<closing, cur, restarts, taskVars, reqVars, pc, mine, nCalls, nGarbage>>

\* returncode is set; a process that ignores terminate is killed after 3 s.
Reap(p) ==
  /\ proc[p] \in {"broken", "ending"}
  /\ proc' = [proc EXCEPT ![p] = "exited"]
  /\ UNCHANGED <<closing, cur, restarts, taskVars, reqVars, pc, mine, bounds>>

ExitWatchSilent(p) ==   \* variant: the exit is only logged
  /\ p \in watch \ fresh /\ proc[follows[p]] = "exited"
  /\ watch' = watch \ {p}
  /\ UNCHANGED <<closing, cur, restarts, proc, rx, fresh, follows, overtaken, reqVars, pc,
                 mine, bounds>>

\* _exit_watch fails whatever is pending, for whichever process.
ExitWatch(p) ==
  /\ p \in watch \ fresh /\ proc[follows[p]] = "exited"
  /\ watch' = watch \ {p}
  /\ IF closing THEN UNCHANGED fut ELSE FailPending
  /\ UNCHANGED <<closing, cur, restarts, proc, rx, fresh, follows, overtaken, nextId, idOf,
                 pending, from, to, pc, mine, bounds>>

\* stop() may be called at any time, also while a caller is suspended.
Stop ==
  /\ ~closing /\ closing' = TRUE
  /\ Shutdown
  /\ proc' = IF Running THEN [proc EXCEPT ![cur] = "ending"] ELSE proc
  /\ UNCHANGED <<restarts, nextId, idOf, from, to, pc, mine, bounds>>

Next ==
  \/ \E k \in Callers : Caller(k)
  \/ \E n \in Ids : Answer(n)
  \/ \E p \in Procs : TasksRun(p) \/ Garbage(p) \/ Crash(p) \/ Reap(p) \/ ExitWatch(p)
  \/ Stop

Spec == Init /\ [][Next]_vars

\* A suspended caller gets on once it can, an exit is noticed, and a live server
\* answers what is asked without a timeout: the handshake and tools/list.  It
\* need not answer a tool call.
NoTimeout(k) == pc[k] = "init" \/ (pc[k] = "wait" /\ k \notin Timed)
Fairness ==
  /\ \A k \in Callers : /\ WF_vars(pc[k] # "idle" /\ Caller(k))
                        /\ WF_vars(NoTimeout(k) /\ Answer(mine[k]) /\ proc[to[mine[k]]] = "alive")
  /\ \A p \in Procs : WF_vars(TasksRun(p)) /\ WF_vars(Reap(p)) /\ WF_vars(ExitWatch(p))
FairSpec == Spec /\ Fairness
-----------------------------------------------------------------------------
TypeOK ==
  /\ closing \in BOOLEAN
  /\ restarts \in 0..Starts /\ cur \in 0..restarts
  /\ proc \in [Procs -> {"none", "alive", "broken", "ending", "exited"}]
  /\ watch \in SUBSET Procs /\ rx \in SUBSET Procs /\ fresh \in SUBSET Procs
  /\ follows \in [Procs -> Procs \cup {0}] /\ overtaken \in SUBSET Procs
  /\ nextId \in 1..(Starts + MaxCalls + 1)
  /\ idOf \in [Ids -> Ids \cup {0}] /\ pending \in [Ids -> Ids \cup {0}]
  /\ fut \in [Ids -> {"none", "open", "answered", "failed"}]
  /\ from \in [Ids -> Ids \cup {0}]
  /\ to \in [Ids -> Procs \cup {0}]
  /\ pc \in [Callers -> {"idle", "backoff", "spawn", "init", "wait"}]
  /\ mine \in [Callers -> Ids \cup {0}]
  /\ nCalls \in 0..MaxCalls /\ nCrashes \in 0..MaxCrashes /\ nGarbage \in 0..MaxGarbage

(* However calls, crashes and a stop interleave, no more processes are        *)
(* started than the restart limit allows plus one for every task that can     *)
(* be starting one at the same time: _ensure_started checks before it awaits. *)
Starting == {k \in Callers : pc[k] = "spawn"}
StartsBounded == restarts + Cardinality(Starting) <= Starts

(* A future somebody awaits is in _pending, where an answer, an exit or a     *)
(* stop finds it: nothing that empties _pending forgets a future.  stop()     *)
(* releases everybody, and nobody starts to wait on a stopped client.         *)
Awaited(k) == pc[k] \in {"init", "wait"} /\ fut[mine[k]] = "open"
AwaitedIsPending == \A k \in Callers : Awaited(k) => InPending(mine[k])
StopReleases == closing => \A k \in Callers : ~Awaited(k)
NobodyStranded == AwaitedIsPending /\ StopReleases

(* The exit of a process that owes somebody an answer is noticed, by a task   *)
(* that follows it, unless the next process was there before its own tasks    *)
(* had run.                                                                   *)
Found(p) == IF p \in fresh THEN cur ELSE follows[p]
Unfollowed(k) == Awaited(k) /\ to[mine[k]] \in overtaken
ExitIsNoticed ==
  \A k \in Callers : Awaited(k) /\ ~Unfollowed(k) => \E p \in watch : Found(p) = to[mine[k]]

(* The client implements Requests: a request is settled once, and never by    *)
(* the answer to another request (a late answer of a call that timed out, or  *)
(* one from a process that has been replaced).                                *)
OutcomeOf == [n \in Ids |-> IF fut[n] = "answered" /\ from[n] # n THEN "mixed up"
                            ELSE fut[n]]
Board == INSTANCE Requests WITH outcome <- OutcomeOf
RequestsRefined == Board!Spec

(* Every call returns or raises, although a server may never answer it, as    *)
(* long as no malformed frame has ended a reader and the caller does not      *)
(* await a process that was overtaken.                                        *)
CallsReturn ==
  \A k \in Callers : (pc[k] # "idle") ~> (pc[k] = "idle" \/ nGarbage > 0 \/ Unfollowed(k))

(* "Pending requests will error on next ensure_started; also fail them now"   *)
(* (stdio_client.py, line 245).  It does not hold: the tasks of a process     *)
(* that was overtaken follow the next one.                                    *)
ExitFails ==
  \A k \in Callers : (Awaited(k) /\ proc[to[mine[k]]] = "exited") ~> ~Awaited(k)

(* After a stop, and once every call has returned, no process is left running *)
(* ("Stop gracefully on engine shutdown").  It does not hold: a caller that   *)
(* is starting the server meanwhile leaves it running.                        *)
StopEndsAll == closing /\ (\A k \in Callers : pc[k] = "idle") => \A p \in Procs : proc[p] # "alive"
=============================================================================
