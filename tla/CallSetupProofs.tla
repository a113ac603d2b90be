--------------------------- MODULE CallSetupProofs ---------------------------
(***************************************************************************)
(* Proofs about CallSetup for every set of instances and tasks, every      *)
(* number of attempts and both transports.                                 *)
(***************************************************************************)
EXTENDS CallSetup, TLAPS

\* Attempts are only made while some are left.
TriesLeft ==
  /\ setup.at # "over" => setup.tries < Tries
  /\ handler.at = "readding" => external
  /\ external /\ handler.at \in {"none", "event", "adding", "retry", "readding"} =>
       handler.tries < Tries

\* A channel's handler runs once the channel is in Stasis.
HandlerInv == media \in {"none", "made"} => handler.at = "none"

\* The guard of the cleanup tells how often it ran.
OnceInv == bodies <= 1 /\ (cleanup = "no" => bodies = 0)

\* A handler awaits the start that has it among its waiters.
WaitInv ==
  \A t \in Tasks :
    /\ "setup" \in tasks[t].waits => setup.at = "await"
    /\ "handler" \in tasks[t].waits => handler.at = "await"
    /\ tasks[t].at = "none" => tasks[t].waits = {}

\* What a start may find: the registered task is the only one, an instance
\* that starts has its task, one that lives has marked the session.
StartInv ==
  /\ \A t \in Tasks : tasks[t].at # "none" <=> starting = t
  /\ \A i \in Instances : inst[i] \in Alive => provider = i
  /\ \A i \in Instances : inst[i] = "starting" =>
       \E t \in Tasks : tasks[t].at = "starting" /\ tasks[t].inst = i
  /\ \A i \in Instances : inst[i] = "live" => sess.active
  /\ \A t \in Tasks : tasks[t].at = "starting" =>
       tasks[t].inst \in Instances /\ inst[tasks[t].inst] = "starting"
  /\ \A t \in Tasks : tasks[t].at = "failing" => tasks[t].inst \in Instances
  /\ \A t \in Tasks : tasks[t].at = "tools" => \A i \in Instances : inst[i] \notin Alive

\* A cleanup that began when all was settled meets no other task, and each of
\* its steps has released one thing more.
ReleaseInv ==
  settled =>
    /\ cleanup # "no" /\ setup.at = "over" /\ handler.at = "over" /\ starting = None
    /\ sess.known /\ sess.active
    /\ cleanup # "stream" => \A i \in Instances : inst[i] \notin Alive
    /\ cleanup \notin {"stream", "provider"} => bridge = "gone"
    /\ cleanup \notin {"stream", "provider", "bridge"} => media = "gone"
    /\ cleanup \in {"caller", "late", "done"} => caller = "gone"
    /\ cleanup \in {"late", "done"} => (external => ~port)
    /\ cleanup = "done" => ~sess.stored

IInv == TypeOK /\ TriesLeft /\ OnceInv /\ HandlerInv /\ WaitInv /\ StartInv /\ ReleaseInv
-----------------------------------------------------------------------------
(* The operators that several steps share *)

Mid == {"tools", "starting", "failing"}

\* _ensure_provider_session_started leaves one task registered and changes
\* none that is past its beginning.
LEMMA EnsureEffect ==
  ASSUME TypeOK, StartInv, NEW ws \in Waits, Ensure(ws)
  PROVE  /\ tasks' \in [Tasks -> Starts] /\ starting' \in Tasks
         /\ \A u \in Tasks :
              /\ tasks'[u].at # "none" <=> starting' = u
              /\ tasks'[u].at = tasks[u].at \/ (tasks'[u].at = "begin" /\ tasks[u].at = "none")
              /\ tasks[u].at # "none" => tasks'[u].inst = tasks[u].inst
              /\ tasks'[u].at = "none" => tasks'[u] = tasks[u]
              /\ tasks'[u].waits \subseteq tasks[u].waits \cup ws
<1>1. CASE starting # None
  <2>1. starting \in Tasks /\ tasks[starting] \in Starts
    BY <1>1 DEF TypeOK
  <2>2. tasks' = [tasks EXCEPT ![starting] = [tasks[starting] EXCEPT !.waits = @ \cup ws]]
        /\ starting' = starting
    BY <1>1, <2>1 DEF Ensure, TypeOK
  <2>3. [tasks[starting] EXCEPT !.waits = @ \cup ws] \in Starts
    BY <2>1 DEF Starts, Waits
  <2>4. \A u \in Tasks : u # starting => tasks'[u] = tasks[u]
    BY <2>2 DEF TypeOK
  <2>5. /\ tasks'[starting].at = tasks[starting].at
        /\ tasks'[starting].inst = tasks[starting].inst
        /\ tasks'[starting].waits = tasks[starting].waits \cup ws
    BY <2>1, <2>2 DEF TypeOK, Starts
  <2>6. tasks' \in [Tasks -> Starts]
    BY <2>1, <2>2, <2>3 DEF TypeOK
  <2>7. \A u \in Tasks : tasks'[u].at # "none" <=> starting' = u
    BY <2>1, <2>2, <2>4, <2>5 DEF StartInv
  <2> QED
    BY <2>1, <2>2, <2>4, <2>5, <2>6, <2>7
<1>2. CASE starting = None
  <2>1. \A u \in Tasks : tasks[u].at = "none"
    BY <1>2, CallSetupAssumption DEF StartInv
  <2>2. PICK t \in Tasks : /\ tasks' = [tasks EXCEPT ![t] = [at |-> "begin", inst |-> None, waits |-> ws]]
                          /\ starting' = t
    <3> DEFINE t == CHOOSE u \in Tasks : tasks[u].at = "none"
    <3>1. t \in Tasks
      BY <2>1, CallSetupAssumption
    <3>2. /\ tasks' = [tasks EXCEPT ![t] = [at |-> "begin", inst |-> None, waits |-> ws]]
          /\ starting' = t
      BY <1>2 DEF Ensure
    <3> QED
      BY <3>1, <3>2
  <2>3. [at |-> "begin", inst |-> None, waits |-> ws] \in Starts
    BY DEF Starts
  <2> QED
    BY <2>1, <2>2, <2>3 DEF TypeOK
<1> QED
  BY <1>1, <1>2

\* The end of a task: no task is left and its waiters go on.
LEMMA EndTaskEffect ==
  ASSUME TypeOK, StartInv, WaitInv, NEW t \in Tasks, tasks[t].at # "none", EndTask(t)
  PROVE  /\ tasks' \in [Tasks -> Starts] /\ starting' = None
         /\ \A u \in Tasks : tasks'[u].at = "none" /\ tasks'[u].waits = {}
         /\ setup' \in Setups /\ setup'.tries = setup.tries
         /\ setup'.at = setup.at \/ (setup.at = "await" /\ setup'.at = "talk")
         /\ handler' \in Handlers /\ handler'.tries = handler.tries
         /\ handler'.at = handler.at \/ (handler.at = "await" /\ handler'.at = "over")
<1>1. NoTask \in Starts
  BY DEF NoTask, Starts, Waits
<1>2. starting = t /\ tasks[t].waits \in Waits
  BY DEF StartInv, TypeOK, Starts
<1>3. /\ setup' \in Setups /\ setup'.tries = setup.tries
      /\ setup'.at = setup.at \/ (setup.at = "await" /\ setup'.at = "talk")
  <2>1. setup \in Setups
    BY DEF TypeOK
  <2>2. LET s == [setup EXCEPT !.at = "talk"]
        IN s \in Setups /\ s.at = "talk" /\ s.tries = setup.tries
    BY <2>1 DEF Setups
  <2>3. setup' = IF "setup" \in tasks[t].waits THEN [setup EXCEPT !.at = "talk"] ELSE setup
    BY DEF EndTask, Talks
  <2> QED
    BY <2>1, <2>2, <2>3 DEF WaitInv
<1>4. /\ handler' \in Handlers /\ handler'.tries = handler.tries
      /\ handler'.at = handler.at \/ (handler.at = "await" /\ handler'.at = "over")
  BY <1>2 DEF EndTask, Resumed, TypeOK, Handlers, WaitInv
<1>5. \A u \in Tasks : u # t => tasks[u].at = "none"
  BY <1>2 DEF StartInv
<1>6. tasks' = [tasks EXCEPT ![t] = NoTask] /\ starting' = None
  BY <1>2 DEF EndTask
<1>7. tasks' \in [Tasks -> Starts]
  BY <1>1, <1>6 DEF TypeOK
<1>8. \A u \in Tasks : tasks'[u].at = "none" /\ tasks'[u].waits = {}
  BY <1>5, <1>6 DEF TypeOK, NoTask, WaitInv
<1> QED
  BY <1>3, <1>4, <1>6, <1>7, <1>8

\* What the small operators leave behind.
LEMMA SessionKept ==
  ASSUME TypeOK
  PROVE  /\ Saved \in Sessions /\ Saved.stored
         /\ Saved.active = sess.active /\ Saved.known = sess.known
BY DEF TypeOK, Saved, Sessions

LEMMA SetupMoves ==
  ASSUME TypeOK, NEW a \in {"join", "joined", "enrich", "resolve", "create", "attach",
                            "await", "talk", "over"}, At(a)
  PROVE  setup' \in Setups /\ setup'.at = a /\ setup'.tries = setup.tries
BY DEF TypeOK, At, Setups

LEMMA HandlerMoves ==
  ASSUME TypeOK, NEW a \in {"retry", "adding", "await", "over"}, Handles(a)
  PROVE  handler' \in Handlers /\ handler'.at = a /\ handler'.tries = handler.tries
BY DEF TypeOK, Handles, Handlers

LEMMA TriedType ==
  ASSUME TypeOK, handler.tries < Tries
  PROVE  /\ Tried \in Handlers /\ Tried.at \in {"retry", "over"}
         /\ Tried.at = "retry" => Tried.tries < Tries
<1>1. handler.tries + 1 \in 0..Tries
  BY CallSetupAssumption DEF TypeOK, Handlers
<1>2. [at |-> "retry", tries |-> handler.tries + 1] \in Handlers
      /\ [at |-> "over", tries |-> handler.tries + 1] \in Handlers
  BY <1>1 DEF Handlers
<1> QED
  BY <1>2 DEF Tried

LEMMA MediaHung ==
  ASSUME TypeOK, HangsUpMedia
  PROVE  media' = "gone" /\ ends' \in [Channels -> 0..2]
BY DEF TypeOK, HangsUpMedia, Goes, Channels

LEMMA CleanupEffect ==
  ASSUME TypeOK, OnceInv, NEW c \in Channels, Cleanup(c)
  PROVE  /\ bodies' \in 0..2 /\ settled' \in BOOLEAN /\ OnceInv'
         /\ \/ UNCHANGED <<cleanup, settled>>
            \/ cleanup = "no" /\ cleanup' = "stream" /\ settled' = Settled
<1>1. CASE Finds(c) /\ Guarded(c)
  <2>1. Settled \in BOOLEAN
    BY DEF Settled
  <2>2. bodies = 0 /\ cleanup = "no"
    BY <1>1 DEF OnceInv, Guarded
  <2>3. bodies' = 1 /\ cleanup' = "stream" /\ settled' = Settled
    BY <1>1, <2>2 DEF Cleanup
  <2> QED
    BY <2>1, <2>2, <2>3 DEF OnceInv
<1>2. CASE ~(Finds(c) /\ Guarded(c))
  BY <1>2 DEF Cleanup, TypeOK, OnceInv
<1> QED
  BY <1>1, <1>2
-----------------------------------------------------------------------------
(* The steps that leave the start of the provider alone *)

Quiet ==
  \/ CreateBridge \/ CallerJoins \/ SessionSaved \/ SetupFails \/ Enrich
  \/ Resolve \/ NoPort \/ ExternalMediaAnswered \/ AudioSocketAnswered
  \/ ExternalMediaRefused \/ AudioSocketRefused \/ AttachFails
  \/ TalkDetect \/ ExternalMediaStasis \/ RetryLooksUp \/ AudioSocketStasis
  \/ MediaNotJoined \/ CleanupMedia \/ CleanupCaller \/ CleanupTransport
  \/ CleanupRemoves \/ MediaMade \/ MediaEnters \/ ConnectionBinds
  \/ ConnectionRefused \/ ConnectionDrops \/ CallerHangsUp \/ MediaDies
  \/ \E c \in Channels : EndEvent(c)

\* Everything but what concerns the provider's start stays well typed, and the
\* provider's start is left as it is.
SmallInv == TypeOK /\ TriesLeft /\ OnceInv /\ HandlerInv /\ WaitInv
LEMMA QuietSteps ==
  ASSUME IInv, Quiet
  PROVE  SmallInv' /\ UNCHANGED provVars /\ sess'.active = sess.active
<1> DEFINE G == SmallInv' /\ UNCHANGED provVars /\ sess'.active = sess.active
<1> USE DEF SmallInv, IInv, TypeOK, TriesLeft, OnceInv, HandlerInv, WaitInv
<1>1. CASE CreateBridge
  BY <1>1, CallSetupAssumption, SetupMoves
  DEF CreateBridge, ariVars, provVars, histVars
<1>2. CASE CallerJoins
  BY <1>2, CallSetupAssumption, SetupMoves
  DEF CallerJoins, ariVars, provVars, histVars
<1>3. CASE SessionSaved
  BY <1>3, CallSetupAssumption, SetupMoves, SessionKept
  DEF SessionSaved, ariVars, provVars, histVars
<1>4. CASE SetupFails
  BY <1>4, CallSetupAssumption, SetupMoves, CleanupEffect
  DEF SetupFails, Channels, ariVars, provVars
<1>5. CASE Enrich
  BY <1>5, CallSetupAssumption, SetupMoves, SessionKept
  DEF Enrich, ariVars, provVars, histVars
<1>6. CASE Resolve
  BY <1>6, CallSetupAssumption, SetupMoves, SessionKept
  DEF Resolve, ariVars, provVars, histVars
<1>7. CASE NoPort
  BY <1>7, CallSetupAssumption, SetupMoves
  DEF NoPort, ariVars, provVars
<1>8. CASE ExternalMediaAnswered
  <2>1. LET s == [Saved EXCEPT !.known = TRUE, !.pending = sess.stored \/ @]
        IN s \in Sessions /\ s.active = sess.active
    BY SessionKept DEF Sessions
  <2> QED
    BY <2>1, <1>8, SetupMoves DEF ExternalMediaAnswered, ariVars, provVars, histVars
<1>9. CASE AudioSocketAnswered
  BY <1>9, CallSetupAssumption, SetupMoves
  DEF AudioSocketAnswered, ariVars, provVars, histVars
<1>10. CASE ExternalMediaRefused
  <2>1. port' \in BOOLEAN
    BY <1>10 DEF ExternalMediaRefused
  <2> QED
    BY <2>1, <1>10, CallSetupAssumption, SetupMoves
    DEF ExternalMediaRefused, ariVars, provVars
<1>11. CASE AudioSocketRefused
  BY <1>11, CallSetupAssumption, SetupMoves, CleanupEffect
  DEF AudioSocketRefused, Channels, ariVars, provVars
<1>12. CASE AttachFails
  <2>1. setup.tries \in Nat /\ setup.tries < Tries
    BY <1>12 DEF AttachFails, Setups
  <2>2. setup' \in Setups /\ (setup'.at # "over" => setup'.tries < Tries)
    <3>1. setup.tries + 1 \in 0..Tries
      BY <2>1, CallSetupAssumption
    <3>2. LET s == [setup EXCEPT !.tries = @ + 1] IN s \in Setups /\ s.tries = setup.tries + 1
      BY <3>1 DEF Setups
    <3>3. LET s == [setup EXCEPT !.at = "over", !.tries = @ + 1] IN s \in Setups /\ s.at = "over"
      BY <3>1 DEF Setups
    <3> QED
      BY <1>12, <3>2, <3>3 DEF AttachFails
  <2>3. setup.at = "attach"
    BY <1>12 DEF AttachFails
  <2> QED
    BY <2>2, <2>3, <1>12 DEF AttachFails, ariVars, provVars
<1>13. CASE TalkDetect
  BY <1>13, CallSetupAssumption, SetupMoves, SessionKept
  DEF TalkDetect, ariVars, provVars, histVars
<1>14. CASE ExternalMediaStasis
  BY <1>14, CallSetupAssumption, HandlerMoves
  DEF ExternalMediaStasis, ariVars, provVars, histVars
<1>15. CASE RetryLooksUp
  BY <1>15, CallSetupAssumption, TriedType
  DEF RetryLooksUp, Handlers, ariVars, provVars, histVars
<1>16. CASE AudioSocketStasis
  BY <1>16, CallSetupAssumption, HandlerMoves, MediaHung
  DEF AudioSocketStasis, HangsUpStray, Handlers, ariVars, provVars, histVars
<1>17. CASE MediaNotJoined
  BY <1>17, CallSetupAssumption, MediaHung, TriedType
  DEF MediaNotJoined, HangsUpStray, Handlers, ariVars, provVars
<1>18. CASE CleanupMedia
  BY <1>18, CallSetupAssumption, MediaHung
  DEF CleanupMedia, ariVars, provVars, histVars
<1>19. CASE CleanupCaller
  BY <1>19, CallSetupAssumption
  DEF CleanupCaller, Goes, Channels, ariVars, provVars, histVars
<1>20. CASE CleanupTransport
  <2>1. port' \in BOOLEAN /\ mapped' \in [pending : BOOLEAN, uuid : BOOLEAN]
    <3>1. port' = FALSE /\ mapped' = [mapped EXCEPT !.uuid = FALSE]
      BY <1>20 DEF CleanupTransport
    <3> QED
      BY <3>1
  <2>2. media' \in {media, "gone"} /\ ends' \in [Channels -> 0..2]
    BY <1>20, MediaHung DEF CleanupTransport
  <2> QED
    BY <2>1, <2>2, <1>20 DEF CleanupTransport, provVars, histVars
<1>21. CASE CleanupRemoves
  <2>1. LET s == [sess EXCEPT !.stored = FALSE] IN s \in Sessions /\ s.active = sess.active
    BY DEF Sessions
  <2> QED
    BY <2>1, <1>21 DEF CleanupRemoves, ariVars, provVars, histVars
<1>22. CASE MediaMade
  BY <1>22, CallSetupAssumption
  DEF MediaMade, ariVars, provVars, histVars
<1>23. CASE MediaEnters
  BY <1>23, CallSetupAssumption
  DEF MediaEnters, Handlers, ariVars, provVars, histVars
<1>24. CASE ConnectionBinds
  BY <1>24, CallSetupAssumption
  DEF ConnectionBinds, ariVars, provVars, histVars
<1>25. CASE ConnectionRefused
  BY <1>25, CallSetupAssumption, MediaHung
  DEF ConnectionRefused, ariVars, provVars
<1>26. CASE ConnectionDrops
  <2>1. port' \in BOOLEAN
    BY <1>26 DEF ConnectionDrops
  <2> QED
    BY <2>1, <1>26, CallSetupAssumption
    DEF ConnectionDrops, ariVars, provVars, histVars
<1>27. CASE CallerHangsUp
  BY <1>27, CallSetupAssumption
  DEF CallerHangsUp, Goes, Channels, ariVars, provVars, histVars
<1>28. CASE MediaDies
  BY <1>28, CallSetupAssumption, MediaHung
  DEF MediaDies, ariVars, provVars
<1>29. ASSUME NEW c \in Channels, EndEvent(c) PROVE G
  BY <1>29, CleanupEffect DEF EndEvent, provVars
<1> QED
  BY <1>1, <1>2, <1>3, <1>4, <1>5, <1>6, <1>7, <1>8, <1>9, <1>10, <1>11, <1>12, <1>13, <1>14, <1>15, <1>16, <1>17, <1>18, <1>19, <1>20, <1>21, <1>22, <1>23, <1>24, <1>25, <1>26, <1>27, <1>28, <1>29 DEF Quiet
-----------------------------------------------------------------------------
(* The start of the provider *)

\* A handler, or a frame, that asks for the start.
LEMMA AskKeepsStart ==
  ASSUME IInv, NEW ws \in Waits, Ensure(ws), UNCHANGED <<provider, inst>>,
         sess'.active = sess.active
  PROVE  StartInv'
<1>1. /\ \A u \in Tasks : tasks'[u].at # "none" <=> starting' = u
      /\ \A u \in Tasks : tasks'[u].at \in {"tools", "starting", "failing"} =>
           tasks'[u].at = tasks[u].at /\ tasks'[u].inst = tasks[u].inst
      /\ \A u \in Tasks : tasks[u].at = "starting" =>
           tasks'[u].at = "starting" /\ tasks'[u].inst = tasks[u].inst
  BY EnsureEffect DEF IInv
<1> QED
  BY <1>1 DEF IInv, StartInv, Alive

\* A task that ends changes nothing of the caller's handler but its wait.
LEMMA EndTaskKeeps ==
  ASSUME IInv, NEW t \in Tasks, tasks[t].at # "none", EndTask(t),
         UNCHANGED <<external, ariVars, port, mapped, cleanup, bodies, settled, faulty>>,
         sess' \in Sessions, provider' \in Instances \cup {None},
         inst' \in [Instances -> {"none", "starting", "live", "dead", "stopping", "stopped", "cut"}]
  PROVE  SmallInv' /\ \A u \in Tasks : tasks'[u].at = "none" /\ starting' # u
<1>1. /\ tasks' \in [Tasks -> Starts] /\ starting' = None
      /\ \A u \in Tasks : tasks'[u].at = "none" /\ tasks'[u].waits = {}
      /\ setup' \in Setups /\ setup'.tries = setup.tries
      /\ setup'.at = setup.at \/ (setup.at = "await" /\ setup'.at = "talk")
      /\ handler' \in Handlers /\ handler'.tries = handler.tries
      /\ handler'.at = handler.at \/ (handler.at = "await" /\ handler'.at = "over")
  BY EndTaskEffect DEF IInv
<1> QED
  BY <1>1, CallSetupAssumption DEF SmallInv, IInv, TypeOK, TriesLeft, OnceInv, HandlerInv, WaitInv, ariVars

LEMMA StartSteps ==
  ASSUME IInv, [Next]_vars, ~Quiet, ~UNCHANGED vars
  PROVE  SmallInv' /\ StartInv'
<1> DEFINE G == SmallInv' /\ StartInv'
<1>1. CASE AttachSucceeds
  <2>1. setup.at = "attach" /\ joined' \in BOOLEAN /\ sess' = [Saved EXCEPT !.pending = FALSE]
    BY <1>1 DEF AttachSucceeds
  <2>2. sess' \in Sessions /\ sess'.active = sess.active
    BY <2>1, SessionKept DEF IInv, Sessions
  <2>3. CASE sess.active
    <3>1. /\ setup' \in Setups /\ setup'.at = "talk" /\ setup'.tries = setup.tries
          /\ UNCHANGED <<tasks, starting>>
      BY <1>1, <2>3, SetupMoves DEF AttachSucceeds, IInv
    <3> QED
      BY <1>1, <2>1, <2>2, <3>1
      DEF AttachSucceeds, histVars, IInv, SmallInv, TypeOK, TriesLeft, OnceInv, HandlerInv, WaitInv, StartInv
  <2>4. CASE ~sess.active
    <3>1. /\ setup' \in Setups /\ setup'.at = "await" /\ setup'.tries = setup.tries
          /\ Ensure({"setup"})
      BY <1>1, <2>4, SetupMoves DEF AttachSucceeds, IInv
    <3>2. {"setup"} \in Waits
      BY DEF Waits
    <3>3. StartInv'
      BY <1>1, <2>2, <3>1, <3>2, AskKeepsStart DEF AttachSucceeds
    <3>4. /\ tasks' \in [Tasks -> Starts] /\ starting' \in Tasks
          /\ \A u \in Tasks : /\ tasks'[u].waits \subseteq tasks[u].waits \cup {"setup"}
                              /\ tasks'[u].at = "none" => tasks'[u] = tasks[u]
      BY <3>1, <3>2, EnsureEffect DEF IInv
    <3>5. WaitInv'
      <4>1. handler' = handler
        BY <1>1 DEF AttachSucceeds
      <4>2. ASSUME NEW u \in Tasks
            PROVE  /\ "setup" \in tasks'[u].waits => setup'.at = "await"
                   /\ "handler" \in tasks'[u].waits => handler'.at = "await"
                   /\ tasks'[u].at = "none" => tasks'[u].waits = {}
        BY <3>1, <3>4, <4>1 DEF IInv, WaitInv
      <4> QED
        BY <4>2 DEF WaitInv
    <3>6. SmallInv'
      BY <1>1, <2>1, <2>2, <3>1, <3>4, <3>5
      DEF AttachSucceeds, histVars, IInv, SmallInv, TypeOK, TriesLeft, OnceInv, HandlerInv
    <3> QED
      BY <3>3, <3>6
  <2> QED
    BY <2>3, <2>4
<1>2. CASE MediaJoins
  <2>1. /\ handler.at \in {"adding", "readding"} /\ joined' \in BOOLEAN
        /\ sess' = [Saved EXCEPT !.known = TRUE, !.pending = FALSE]
    BY <1>2 DEF MediaJoins
  <2>2. sess' \in Sessions /\ sess'.active = sess.active
    BY <2>1, SessionKept DEF IInv, Sessions
  <2>3. CASE sess.active
    <3>1. /\ handler' \in Handlers /\ handler'.at = "over" /\ handler'.tries = handler.tries
          /\ UNCHANGED <<tasks, starting>>
      BY <1>2, <2>3, HandlerMoves DEF MediaJoins, IInv
    <3> QED
      BY <1>2, <2>1, <2>2, <3>1
      DEF MediaJoins, histVars, IInv, SmallInv, TypeOK, TriesLeft, OnceInv, HandlerInv, WaitInv, StartInv
  <2>4. CASE ~sess.active
    <3>1. /\ handler' \in Handlers /\ handler'.at = "await" /\ handler'.tries = handler.tries
          /\ Ensure({"handler"})
      BY <1>2, <2>4, HandlerMoves DEF MediaJoins, IInv
    <3>2. {"handler"} \in Waits
      BY DEF Waits
    <3>3. StartInv'
      BY <1>2, <2>2, <3>1, <3>2, AskKeepsStart DEF MediaJoins
    <3>4. /\ tasks' \in [Tasks -> Starts] /\ starting' \in Tasks
          /\ \A u \in Tasks : /\ tasks'[u].waits \subseteq tasks[u].waits \cup {"handler"}
                              /\ tasks'[u].at = "none" => tasks'[u] = tasks[u]
      BY <3>1, <3>2, EnsureEffect DEF IInv
    <3>5. WaitInv'
      <4>1. setup' = setup
        BY <1>2 DEF MediaJoins
      <4>2. ASSUME NEW u \in Tasks
            PROVE  /\ "handler" \in tasks'[u].waits => handler'.at = "await"
                   /\ "setup" \in tasks'[u].waits => setup'.at = "await"
                   /\ tasks'[u].at = "none" => tasks'[u].waits = {}
        BY <3>1, <3>4, <4>1 DEF IInv, WaitInv
      <4> QED
        BY <4>2 DEF WaitInv
    <3>6. SmallInv'
      BY <1>2, <2>1, <2>2, <3>1, <3>4, <3>5
      DEF MediaJoins, histVars, IInv, SmallInv, TypeOK, TriesLeft, OnceInv, HandlerInv
    <3> QED
      BY <3>3, <3>6
  <2> QED
    BY <2>3, <2>4
<1>3. CASE AudioKicksOff
  <2>1. {} \in Waits
    BY DEF Waits
  <2>2. Ensure({}) /\ UNCHANGED <<external, ariVars, sess, port, mapped, setup, handler, provider, inst, cleanup, histVars>>
    BY <1>3 DEF AudioKicksOff
  <2>3. StartInv'
    BY <2>1, <2>2, AskKeepsStart
  <2>4. SmallInv'
    BY <2>1, <2>2, EnsureEffect
    DEF IInv, SmallInv, TypeOK, TriesLeft, OnceInv, HandlerInv, WaitInv, ariVars, histVars
  <2> QED
    BY <2>3, <2>4
<1>4. CASE CleanupProvider
  <2>1. NoTask \in Starts /\ NoTask.at = "none" /\ NoTask.waits = {}
    BY DEF NoTask, Starts, Waits
  <2>2. /\ tasks' \in [Tasks -> Starts] /\ starting' = None
        /\ \A u \in Tasks : tasks'[u].at = "none" /\ tasks'[u].waits = {}
    <3>1. CASE starting = None
      BY <1>4, <3>1, CallSetupAssumption
      DEF CleanupProvider, CancelStart, IInv, TypeOK, StartInv, WaitInv
    <3>2. CASE starting # None
      <4>1. starting \in Tasks /\ tasks' = [tasks EXCEPT ![starting] = NoTask] /\ starting' = None
        BY <1>4, <3>2 DEF CleanupProvider, CancelStart, IInv, TypeOK
      <4> QED
        BY <2>1, <4>1 DEF IInv, TypeOK, StartInv, WaitInv
    <3> QED
      BY <3>1, <3>2
  <2>3. /\ setup' \in Setups /\ setup'.tries = setup.tries
        /\ setup'.at = setup.at \/ setup'.at = "over"
    BY <1>4 DEF CleanupProvider, CancelStart, Cancelled, IInv, TypeOK, Setups
  <2>4. /\ handler' \in Handlers /\ handler'.tries = handler.tries
        /\ handler'.at = handler.at \/ (handler.at = "await" /\ handler'.at = "over")
    BY <1>4 DEF CleanupProvider, CancelStart, Cancelled, IInv, TypeOK, Handlers, WaitInv
  <2>5. /\ inst' \in [Instances -> {"none", "starting", "live", "dead", "stopping", "stopped", "cut"}]
        /\ \A i \in Instances : inst'[i] \notin Alive
    BY <1>4 DEF CleanupProvider, IInv, TypeOK, StartInv, Alive
  <2> QED
    BY <1>4, <2>2, <2>3, <2>4, <2>5, CallSetupAssumption
    DEF CleanupProvider, IInv, SmallInv, TypeOK, TriesLeft, OnceInv, HandlerInv, WaitInv, StartInv,
        ariVars, histVars, Alive
<1>5. CASE CleanupBridge
  <2>1. /\ inst' \in [Instances -> {"none", "starting", "live", "dead", "stopping", "stopped", "cut"}]
        /\ \A i \in Instances : inst[i] \in Alive \/ inst'[i] \in Alive => inst'[i] = inst[i]
    BY <1>5 DEF CleanupBridge, IInv, TypeOK, Alive
  <2>2. SmallInv'
    BY <1>5, <2>1
    DEF CleanupBridge, IInv, SmallInv, TypeOK, TriesLeft, OnceInv, HandlerInv, WaitInv, histVars
  <2>3. StartInv'
    BY <1>5, <2>1 DEF CleanupBridge, IInv, StartInv, Alive, TypeOK
  <2> QED
    BY <2>2, <2>3
<1>6. ASSUME NEW t \in Tasks, StartBegins(t) PROVE G
  <2>1. tasks[t].at = "begin"
    BY <1>6 DEF StartBegins
  <2>2. CASE ~sess.stored \/ AlreadyStarted
    <3>1. EndTask(t) /\ UNCHANGED <<external, ariVars, sess, port, mapped, provider, inst, cleanup, histVars>>
      BY <1>6, <2>2 DEF StartBegins
    <3>2. SmallInv' /\ \A u \in Tasks : tasks'[u].at = "none" /\ starting' # u
      BY <2>1, <3>1, EndTaskKeeps DEF IInv, TypeOK, histVars
    <3>3. \A i \in Instances : inst[i] # "starting"
      BY <2>1 DEF IInv, StartInv
    <3> QED
      BY <3>1, <3>2, <3>3 DEF IInv, StartInv
  <2>3. CASE ~(~sess.stored \/ AlreadyStarted)
    <3>1. /\ tasks' = [tasks EXCEPT ![t].at = "tools"]
          /\ UNCHANGED <<external, ariVars, sess, port, mapped, setup, handler, starting, provider, inst, cleanup, histVars>>
      BY <1>6, <2>3 DEF StartBegins
    <3>2. \A i \in Instances : inst[i] \notin Alive
      BY <2>1, <2>3, CallSetupAssumption DEF AlreadyStarted, IInv, StartInv, Alive
    <3>3. /\ tasks' \in [Tasks -> Starts] /\ tasks'[t].at = "tools" /\ tasks'[t].waits = tasks[t].waits
          /\ \A u \in Tasks : u # t => tasks'[u] = tasks[u]
      BY <3>1 DEF IInv, TypeOK, Starts
    <3>4. SmallInv'
      BY <2>1, <3>1, <3>3
      DEF IInv, SmallInv, TypeOK, TriesLeft, OnceInv, HandlerInv, WaitInv, ariVars, histVars
    <3>5. StartInv'
      BY <2>1, <3>1, <3>2, <3>3 DEF IInv, StartInv, Alive
    <3> QED
      BY <3>4, <3>5
  <2> QED
    BY <2>2, <2>3
<1>7. ASSUME NEW t \in Tasks, NEW i \in Instances, CreateProvider(t, i) PROVE G
  <2>1. /\ tasks[t].at = "tools" /\ provider' = i /\ inst' = [inst EXCEPT ![i] = "starting"]
        /\ tasks' = [tasks EXCEPT ![t].at = "starting", ![t].inst = i]
        /\ UNCHANGED <<external, ariVars, sess, port, mapped, setup, handler, starting, cleanup, histVars>>
    BY <1>7 DEF CreateProvider
  <2>2. /\ tasks' \in [Tasks -> Starts] /\ tasks'[t].at = "starting" /\ tasks'[t].inst = i
        /\ tasks'[t].waits = tasks[t].waits
        /\ \A u \in Tasks : u # t => tasks'[u] = tasks[u]
    BY <2>1 DEF IInv, TypeOK, Starts
  <2>3. SmallInv'
    BY <2>1, <2>2
    DEF IInv, SmallInv, TypeOK, TriesLeft, OnceInv, HandlerInv, WaitInv, ariVars, histVars
  <2>4. StartInv'
    BY <2>1, <2>2 DEF IInv, TypeOK, StartInv, Alive
  <2> QED
    BY <2>3, <2>4
<1>8. ASSUME NEW t \in Tasks, SessionVanished(t) PROVE G
  <2>1. /\ tasks[t].at = "tools" /\ EndTask(t) /\ provider' = None
        /\ UNCHANGED <<external, ariVars, sess, port, mapped, inst, cleanup, histVars>>
    BY <1>8 DEF SessionVanished
  <2>2. SmallInv' /\ \A u \in Tasks : tasks'[u].at = "none" /\ starting' # u
    BY <2>1, EndTaskKeeps DEF IInv, TypeOK, histVars
  <2> QED
    BY <2>1, <2>2 DEF IInv, StartInv, Alive
<1>9. ASSUME NEW t \in Tasks, StartSucceeds(t) PROVE G
  <2>1. /\ tasks[t].at = "starting" /\ EndTask(t)
        /\ inst' = [inst EXCEPT ![tasks[t].inst] = "live"] /\ sess' = [Saved EXCEPT !.active = TRUE]
        /\ UNCHANGED <<external, ariVars, port, mapped, provider, cleanup, histVars>>
    BY <1>9 DEF StartSucceeds
  <2>2. sess' \in Sessions /\ sess'.active
    BY <2>1, SessionKept DEF IInv, Sessions
  <2>3. inst' \in [Instances -> {"none", "starting", "live", "dead", "stopping", "stopped", "cut"}]
    BY <2>1 DEF IInv, TypeOK
  <2>4. SmallInv' /\ \A u \in Tasks : tasks'[u].at = "none" /\ starting' # u
    BY <2>1, <2>2, <2>3, EndTaskKeeps DEF IInv, TypeOK, histVars
  <2>5. tasks[t].inst \in Instances /\ provider = tasks[t].inst
    BY <2>1 DEF IInv, StartInv, Alive
  <2> QED
    BY <2>1, <2>2, <2>4, <2>5 DEF IInv, TypeOK, StartInv, Alive
<1>10. ASSUME NEW t \in Tasks, StartFails(t) PROVE G
  <2>1. /\ tasks[t].at = "starting" /\ provider' = None /\ faulty' \in BOOLEAN
        /\ inst' = [inst EXCEPT ![tasks[t].inst] = "stopping"]
        /\ tasks' = [tasks EXCEPT ![t].at = "failing"]
        /\ UNCHANGED <<external, ariVars, sess, port, mapped, setup, handler, starting, cleanup, bodies, settled>>
    BY <1>10 DEF StartFails
  <2>2. tasks[t].inst \in Instances /\ provider = tasks[t].inst /\ starting = t
    BY <2>1 DEF IInv, StartInv, Alive
  <2>3. /\ tasks' \in [Tasks -> Starts] /\ tasks'[t].at = "failing"
        /\ tasks'[t].inst = tasks[t].inst /\ tasks'[t].waits = tasks[t].waits
        /\ \A u \in Tasks : u # t => tasks'[u] = tasks[u]
    BY <2>1 DEF IInv, TypeOK, Starts
  <2>4. inst' \in [Instances -> {"none", "starting", "live", "dead", "stopping", "stopped", "cut"}]
    BY <2>1 DEF IInv, TypeOK
  <2>5. SmallInv'
    BY <2>1, <2>3, <2>4
    DEF IInv, SmallInv, TypeOK, TriesLeft, OnceInv, HandlerInv, WaitInv, ariVars
  <2>6. \A i \in Instances : inst'[i] \notin Alive
    BY <2>1, <2>2 DEF IInv, TypeOK, StartInv, Alive
  <2>7. StartInv'
    BY <2>1, <2>2, <2>3, <2>6 DEF IInv, StartInv, Alive
  <2> QED
    BY <2>5, <2>7
<1>11. ASSUME NEW t \in Tasks, FailedStopped(t) PROVE G
  <2>1. /\ tasks[t].at = "failing" /\ EndTask(t)
        /\ inst' = [inst EXCEPT ![tasks[t].inst] = "stopped"]
        /\ UNCHANGED <<external, ariVars, sess, port, mapped, provider, cleanup, histVars>>
    BY <1>11 DEF FailedStopped
  <2>2. inst' \in [Instances -> {"none", "starting", "live", "dead", "stopping", "stopped", "cut"}]
    BY <2>1 DEF IInv, TypeOK
  <2>3. SmallInv' /\ \A u \in Tasks : tasks'[u].at = "none" /\ starting' # u
    BY <2>1, <2>2, EndTaskKeeps DEF IInv, TypeOK, histVars
  <2>4. \A i \in Instances : inst[i] # "starting"
    BY <2>1 DEF IInv, StartInv
  <2> QED
    BY <2>1, <2>3, <2>4 DEF IInv, TypeOK, StartInv, Alive
<1>12. ASSUME NEW i \in Instances, ProviderDies(i) PROVE G
  <2>1. /\ inst[i] = "live" /\ inst' = [inst EXCEPT ![i] = "dead"]
        /\ UNCHANGED <<external, bridge, media, joined, port, mapped, setup, handler, tasks, starting,
                       provider, cleanup, bodies>>
        /\ faulty' \in BOOLEAN /\ settled' \in BOOLEAN
    BY <1>12 DEF ProviderDies
  <2>2. sess' \in Sessions
    BY <1>12 DEF ProviderDies, IInv, TypeOK, Sessions
  <2>3. caller' \in {"up", "gone"} /\ ends' \in [Channels -> 0..2]
    BY <1>12 DEF ProviderDies, IInv, TypeOK, Goes, Channels
  <2>4. inst' \in [Instances -> {"none", "starting", "live", "dead", "stopping", "stopped", "cut"}]
    BY <2>1 DEF IInv, TypeOK
  <2>5. SmallInv'
    BY <2>1, <2>2, <2>3, <2>4 DEF IInv, SmallInv, TypeOK, TriesLeft, OnceInv, HandlerInv, WaitInv
  <2>6. StartInv'
    BY <2>1 DEF IInv, TypeOK, StartInv, Alive
  <2> QED
    BY <2>5, <2>6
<1> QED
  BY <1>1, <1>2, <1>3, <1>4, <1>5, <1>6, <1>7, <1>8, <1>9, <1>10, <1>11, <1>12
  DEF Quiet, Next, SetupStep, HandlerStep, CleanupStep, StartStep, Connection
-----------------------------------------------------------------------------
(* What a cleanup releases *)

\* No task of the call is left to disturb a cleanup that began when all was settled.
LEMMA OthersUnsettled ==
  ASSUME IInv, [Next]_vars,
         \/ SetupStep \/ HandlerStep \/ (\E t \in Tasks : StartStep(t))
         \/ AudioKicksOff \/ MediaMade \/ MediaEnters
  PROVE  ~settled'
<1>1. ASSUME SetupStep PROVE setup.at # "over" /\ (settled' = settled \/ Cleanup("caller"))
  BY <1>1 DEF SetupStep, CreateBridge, CallerJoins, SessionSaved, SetupFails, Enrich, Resolve,
     NoPort, ExternalMediaAnswered, AudioSocketAnswered, ExternalMediaRefused,
     AudioSocketRefused, AttachSucceeds, AttachFails, TalkDetect, histVars
<1>2. CASE SetupStep
  BY <1>1, <1>2, CleanupEffect DEF IInv, ReleaseInv, Settled, Channels
<1>3. CASE HandlerStep
  BY <1>3 DEF HandlerStep, ExternalMediaStasis, RetryLooksUp, AudioSocketStasis, MediaJoins,
     MediaNotJoined, histVars, IInv, ReleaseInv
<1>4. ASSUME NEW t \in Tasks, StartStep(t) PROVE ~settled'
  <2>1. tasks[t].at # "none" /\ settled' = settled
    BY <1>4 DEF StartStep, StartBegins, CreateProvider, SessionVanished, StartSucceeds, StartFails,
       FailedStopped, histVars
  <2> QED
    BY <2>1, CallSetupAssumption DEF IInv, StartInv, ReleaseInv
<1>5. CASE AudioKicksOff
  BY <1>5 DEF AudioKicksOff, histVars, IInv, ReleaseInv
<1>6. CASE MediaMade
  BY <1>6 DEF MediaMade, histVars, IInv, ReleaseInv
<1>7. CASE MediaEnters
  BY <1>7 DEF MediaEnters, histVars, IInv, HandlerInv, ReleaseInv
<1> QED
  BY <1>2, <1>3, <1>4, <1>5, <1>6, <1>7

LEMMA ReleaseSteps == IInv /\ [Next]_vars => ReleaseInv'
<1> SUFFICES ASSUME IInv, [Next]_vars, settled' PROVE ReleaseInv'
  BY DEF ReleaseInv
<1> USE DEF IInv, ReleaseInv
<1>1. CASE UNCHANGED vars
  BY <1>1 DEF vars, ariVars, provVars, histVars, MediaUp
<1>2. CASE \/ SetupStep \/ HandlerStep \/ (\E t \in Tasks : StartStep(t))
           \/ AudioKicksOff \/ MediaMade \/ MediaEnters
  BY <1>2, OthersUnsettled
<1>3. ASSUME NEW c \in Channels, EndEvent(c) PROVE ReleaseInv'
  BY <1>3, CleanupEffect DEF EndEvent, Settled, provVars
<1>4. CASE CallerHangsUp
  BY <1>4 DEF CallerHangsUp, provVars, histVars
<1>5. CASE MediaDies
  BY <1>5, MediaHung DEF MediaDies, provVars
<1>6. ASSUME NEW i \in Instances, ProviderDies(i) PROVE ReleaseInv'
  BY <1>6 DEF ProviderDies
<1>7. CASE ConnectionBinds
  BY <1>7 DEF ConnectionBinds, ariVars, provVars, histVars
<1>8. CASE ConnectionRefused
  BY <1>8, MediaHung DEF ConnectionRefused, provVars
<1>9. CASE ConnectionDrops
  BY <1>9 DEF ConnectionDrops, ariVars, provVars, histVars
<1>10. CASE CleanupProvider
  <2>1. starting = None /\ setup.at = "over" /\ handler.at = "over" /\ sess.known /\ sess.active
    BY <1>10 DEF CleanupProvider, histVars
  <2>2. UNCHANGED <<setup, handler, sess>> /\ starting' = None /\ cleanup' = "provider"
    BY <1>10, <2>1 DEF CleanupProvider, CancelStart, Cancelled
  <2>3. \A i \in Instances : inst'[i] \notin Alive
    BY <1>10 DEF CleanupProvider, TypeOK, StartInv, Alive
  <2> QED
    BY <2>1, <2>2, <2>3
<1>11. CASE CleanupBridge
  BY <1>11 DEF CleanupBridge, histVars, TypeOK, Alive
<1>12. CASE CleanupMedia
  <2>1. media' = "gone"
    BY <1>12, MediaHung DEF CleanupMedia, HungUpMedia, MediaUp, histVars, TypeOK, HandlerInv
  <2> QED
    BY <1>12, <2>1 DEF CleanupMedia, provVars, histVars
<1>13. CASE CleanupCaller
  BY <1>13 DEF CleanupCaller, provVars, histVars
<1>14. CASE CleanupTransport
  BY <1>14, MediaHung DEF CleanupTransport, provVars, histVars
<1>15. CASE CleanupRemoves
  <2>1. sess'.known = sess.known /\ sess'.active = sess.active /\ ~sess'.stored
    BY <1>15 DEF CleanupRemoves, TypeOK, Sessions
  <2> QED
    BY <1>15, <2>1 DEF CleanupRemoves, ariVars, provVars, histVars
<1> QED
  BY <1>1, <1>2, <1>3, <1>4, <1>5, <1>6, <1>7, <1>8, <1>9, <1>10, <1>11, <1>12, <1>13, <1>14, <1>15
  DEF Next, CleanupStep, Connection
-----------------------------------------------------------------------------
(* The channel's handler *)

\* The channel's handler is over, or awaits the provider, only once the channel is
\* in the bridge or gone.
ServedInv == ~external /\ handler.at \in {"await", "over"} => joined \/ media = "gone"

LEMMA ServedSteps == IInv /\ ServedInv /\ [Next]_vars => ServedInv'
<1> SUFFICES ASSUME IInv, ServedInv, [Next]_vars PROVE ServedInv'
  OBVIOUS
<1> USE DEF IInv, ServedInv
<1>1. CASE UNCHANGED vars
  BY <1>1 DEF vars, ariVars
\* The media channel's handler
<1>2. CASE ExternalMediaStasis \/ RetryLooksUp
  BY <1>2 DEF ExternalMediaStasis, RetryLooksUp
<1>3. CASE AudioSocketStasis
  BY <1>3, HandlerMoves, MediaHung DEF AudioSocketStasis, HangsUpStray, TypeOK, Handlers
<1>4. CASE MediaJoins
  BY <1>4 DEF MediaJoins
<1>5. CASE MediaNotJoined
  BY <1>5, HandlerMoves, MediaHung DEF MediaNotJoined, HangsUpStray, TypeOK, Handlers, TriesLeft
\* The tasks that end a wait
<1>6. ASSUME NEW t \in Tasks, StartStep(t) PROVE ServedInv'
  <2>1. tasks[t].at # "none" /\ UNCHANGED <<external, media, joined>>
    BY <1>6 DEF StartStep, StartBegins, CreateProvider, SessionVanished, StartSucceeds, StartFails,
       FailedStopped, ariVars
  <2>2. EndTask(t) \/ handler' = handler
    BY <1>6 DEF StartStep, StartBegins, CreateProvider, SessionVanished, StartSucceeds, StartFails,
       FailedStopped
  <2>3. handler'.at = handler.at \/ handler.at = "await"
    BY <2>1, <2>2, EndTaskEffect
  <2> QED
    BY <2>1, <2>3
<1>7. CASE CleanupProvider
  <2>1. handler'.at = handler.at \/ handler.at = "await"
    BY <1>7 DEF CleanupProvider, CancelStart, Cancelled, TypeOK, WaitInv
  <2> QED
    BY <1>7, <2>1 DEF CleanupProvider, ariVars
\* Steps that end the media channel, or make it
<1>8. CASE CleanupMedia \/ CleanupTransport \/ MediaDies \/ ConnectionRefused
  BY <1>8, MediaHung DEF CleanupMedia, CleanupTransport, MediaDies, ConnectionRefused
<1>9. CASE MediaMade \/ MediaEnters
  BY <1>9 DEF MediaMade, MediaEnters, HandlerInv, TypeOK, Handlers
\* Steps that leave channel and handler alone
<1>10. CASE SetupStep
  BY <1>10 DEF SetupStep, CreateBridge, CallerJoins, SessionSaved, SetupFails, Enrich, Resolve,
     NoPort, ExternalMediaAnswered, AudioSocketAnswered, ExternalMediaRefused,
     AudioSocketRefused, AttachSucceeds, AttachFails, TalkDetect, ariVars
<1>11. CASE CleanupBridge \/ CleanupCaller \/ CleanupRemoves \/ ConnectionBinds \/ ConnectionDrops
            \/ AudioKicksOff \/ CallerHangsUp
  BY <1>11 DEF CleanupBridge, CleanupCaller, CleanupRemoves, ConnectionBinds, ConnectionDrops,
     AudioKicksOff, CallerHangsUp, ariVars
<1>12. ASSUME NEW c \in Channels, EndEvent(c) PROVE ServedInv'
  BY <1>12 DEF EndEvent
<1>13. ASSUME NEW i \in Instances, ProviderDies(i) PROVE ServedInv'
  BY <1>13 DEF ProviderDies
<1> QED
  BY <1>1, <1>2, <1>3, <1>4, <1>5, <1>6, <1>7, <1>8, <1>9, <1>10, <1>11, <1>12, <1>13
  DEF Next, HandlerStep, CleanupStep, Connection

-----------------------------------------------------------------------------
(* The theorems *)

LEMMA InitEstablishes == Init => IInv
<1> SUFFICES ASSUME Init PROVE IInv
  OBVIOUS
<1>1. NoTask \in Starts /\ NoTask.at = "none" /\ NoTask.waits = {} /\ NoTask.inst = None
  BY DEF NoTask, Starts, Waits
<1>2. tasks \in [Tasks -> Starts] /\ \A t \in Tasks : tasks[t] = NoTask
  BY <1>1 DEF Init
<1>3. setup \in Setups /\ handler \in Handlers /\ sess \in Sessions
  BY CallSetupAssumption DEF Init, Setups, Handlers, Sessions
<1>4. TypeOK
  <2>1. ends \in [Channels -> 0..2] /\ mapped \in [pending : BOOLEAN, uuid : BOOLEAN]
    BY DEF Init
  <2>2. joined \in BOOLEAN /\ port \in BOOLEAN /\ settled \in BOOLEAN /\ faulty \in BOOLEAN
    BY DEF Init
  <2> QED
    BY <1>2, <1>3, <2>1, <2>2 DEF Init, TypeOK
<1>5. TriesLeft /\ OnceInv /\ HandlerInv /\ ReleaseInv
  BY CallSetupAssumption DEF Init, TriesLeft, OnceInv, HandlerInv, ReleaseInv
<1>6. WaitInv /\ StartInv
  BY <1>1, <1>2, CallSetupAssumption DEF Init, WaitInv, StartInv, Alive
<1> QED
  BY <1>4, <1>5, <1>6 DEF IInv

LEMMA StepPreserves == IInv /\ [Next]_vars => IInv'
<1> SUFFICES ASSUME IInv, [Next]_vars PROVE IInv'
  OBVIOUS
<1>1. ReleaseInv'
  BY ReleaseSteps
<1>2. CASE Quiet
  <2>1. SmallInv' /\ UNCHANGED provVars /\ sess'.active = sess.active
    BY <1>2, QuietSteps
  <2>2. StartInv'
    BY <2>1 DEF IInv, StartInv, provVars
  <2> QED
    BY <1>1, <2>1, <2>2 DEF SmallInv, IInv
<1>3. CASE UNCHANGED vars
  BY <1>3 DEF vars, ariVars, provVars, histVars, IInv, TypeOK, TriesLeft, OnceInv, HandlerInv,
     WaitInv, StartInv, ReleaseInv, MediaUp
<1>4. CASE ~Quiet /\ ~UNCHANGED vars
  BY <1>1, <1>4, StartSteps DEF SmallInv, IInv
<1> QED
  BY <1>2, <1>3, <1>4

LEMMA Inductive == Spec => []IInv
BY InitEstablishes, StepPreserves, PTL DEF Spec

\* Every reachable state of a call's setup and cleanup is well typed; in
\* particular no attempt is made past the last one.
THEOREM TypesHold == Spec => []TypeOK
<1>1. IInv => TypeOK
  BY DEF IInv
<1> QED
  BY <1>1, Inductive, PTL

\* However many tasks ask for the provider and whenever the cleanup cancels
\* them, a running instance is the registered one.
THEOREM NeverTwoProviders == Spec => []OneProvider
<1>1. IInv => OneProvider
  BY DEF IInv, StartInv, OneProvider
<1> QED
  BY <1>1, Inductive, PTL

\* The body of _cleanup_call runs at most once per call, whoever asks for it
\* and whoever stores the session again.
THEOREM CleanedUpOnce == Spec => []CleanupOnce
<1>1. IInv => CleanupOnce
  BY DEF IInv, OnceInv, CleanupOnce
<1> QED
  BY <1>1, Inductive, PTL

\* The cleanup of a call whose setup was over releases the caller, the bridge,
\* the media channel, the session, the RTP port and the provider.
THEOREM SettledCallsReleased == Spec => []SettledIsReleased
<1>1. IInv => SettledIsReleased
  BY DEF IInv, ReleaseInv, SettledIsReleased, MediaUp
<1> QED
  BY <1>1, Inductive, PTL

\* The StasisStart handler of an AudioSocket channel never returns with the
\* channel up and outside the bridge, whatever the originate, the start and the
\* cleanup do meanwhile.
THEOREM AudioSocketServed == Spec => []NoStrayAudioSocket
<1>1. Init => ServedInv
  BY DEF Init, ServedInv
<1>2. ServedInv => NoStrayAudioSocket
  BY DEF ServedInv, NoStrayAudioSocket, MediaUp
<1> QED
  BY <1>1, <1>2, Inductive, ServedSteps, PTL DEF Spec
=============================================================================
