------------------------- MODULE OpenAIRealtimeProofs -------------------------
(***************************************************************************)
(* The safety of OpenAIRealtime, for any number of websockets, attempts,   *)
(* responses and interruptions.                                            *)
(***************************************************************************)
EXTENDS OpenAIRealtime, SequenceTheorems, TLAPS

USE DEF provider, server, history, NoId, Stop, Tasks

Thens == {"read", "done", "stopped", "noaudio", "end", "stop"}
Busy  == {"tts", "bye"}
Session ==
  [current : Ids, greetingId : Ids, greeted : BOOLEAN, hangupAfter : BOOLEAN,
   farewellId : Ids, waiting : BOOLEAN, burst : BOOLEAN, seen : SUBSET Responses,
   pending : BOOLEAN]

NoLoop   == \A s \in Sockets : ~Live(s)
NoneOpen == \A s \in Sockets : sock[s] = "open" => s \in left
-----------------------------------------------------------------------------
(* How the report of a task ends: it waits for the engine, goes on reading, ends, or is
   the end of stop_session. *)
Waits(t, then) ==
  /\ \E at \in Busy, b \in {then, "noaudio"} :
       /\ b = "noaudio" => then \in {"done", "noaudio"}
       /\ task' = [task EXCEPT ![t] = [at |-> at, then |-> b]]
  /\ stop' = After(t) /\ ws' = ws /\ rc' = rc

GoesOn(t, then) ==
  /\ then \notin {"end", "stop"}
  /\ task' = [task EXCEPT ![t] = [at |-> "reading", then |-> "read"]]
  /\ stop' = After(t) /\ ws' = ws /\ rc' = rc

LoopEnds(t, then) ==
  /\ then = "end"
  /\ task' = [task EXCEPT ![t] = [at |-> "over", then |-> "read"]]
  /\ stop' = After(t) /\ ws' = ws
  /\ rc' = IF Reconnectable THEN [at |-> "connect", tries |-> 1] ELSE rc

StopEnds(then) ==
  /\ then = "stop"
  /\ task' = [task EXCEPT ![Stop] = [at |-> "over", then |-> "read"]]
  /\ stop' = "over" /\ ws' = 0 /\ rc' = rc

Outcome(t, then) ==
  Waits(t, then) \/ GoesOn(t, then) \/ LoopEnds(t, then) \/ StopEnds(then)

(* What a report leaves of the provider's fields: the farewell is forgotten or kept, and
   the engine hangs up only for a farewell or when it was asked to. *)
Fields(t) ==
  /\ me' \in Session /\ vad' \in [Sockets -> BOOLEAN] /\ timer' \in {timer, "off"}
  /\ me'.hangupAfter => me.hangupAfter
  /\ me'.farewellId \in {me.farewellId, NoId}
  /\ ~asked /\ me.farewellId = NoId => task'[t].at \notin Busy

(* A session that may be passed from step to step of a report. *)
Derived(x) ==
  /\ x \in Session
  /\ x.hangupAfter => me.hangupAfter
  /\ x.farewellId \in {me.farewellId, NoId}

LEMMA ReEnabledIs == TypeOK => ReEnabled \in [Sockets -> BOOLEAN]
BY DEF TypeOK, ReEnabled, IsOpen

LEMMA OverIs ==
  ASSUME NEW x, Derived(x)
  PROVE  Derived(Over(x))
BY DEF Derived, Over, Session, Ids

LEMMA DoneIs ==
  ASSUME TypeOK, NEW t \in Tasks, NEW x, Derived(x), Done(t, x)
  PROVE  Outcome(t, "done") /\ Fields(t)
<1> DEFINE greets == x.current = x.greetingId /\ ~x.greeted
           y == [x EXCEPT !.greeted = @ \/ greets]
           z == [y EXCEPT !.hangupAfter = FALSE]
<1>1. /\ ws' = ws /\ rc' = rc /\ stop' = After(t)
      /\ vad' = IF greets THEN ReEnabled ELSE vad
      /\ IF IsFarewell(y)
         THEN /\ timer' = "off"
              /\ IF y.current \in y.seen THEN Resumes(t, Over(z))
                 ELSE /\ task' = [task EXCEPT ![t] = [at |-> "bye", then |-> "noaudio"]]
                      /\ me' = y
         ELSE Resumes(t, Over(y)) /\ timer' = timer
  BY DEF Done, Derived, Session
<1>2. vad' \in [Sockets -> BOOLEAN]
  BY <1>1, ReEnabledIs DEF TypeOK
<1>3. Derived(y) /\ y.farewellId = x.farewellId
  <2>1. greets \in BOOLEAN /\ x.greeted \in BOOLEAN
    BY DEF Derived, Session
  <2> QED
    BY <2>1 DEF Derived, Session
<1>4. Derived(z)
  BY ZenonT(60), <1>3 DEF Derived, Session
<1>5. Derived(Over(y)) /\ Derived(Over(z))
  BY <1>3, <1>4, OverIs
<1>6. task \in [Tasks -> [at : {"none", "reading", "tts", "bye", "over"}, then : Thens]]
  BY DEF TypeOK, Thens
<1> HIDE DEF y, z, greets
<1>7. ASSUME NEW w, Derived(w), Resumes(t, w), timer' \in {timer, "off"}
      PROVE  Outcome(t, "done") /\ Fields(t)
  <2>1. me' = w /\ task' = [task EXCEPT ![t] = [at |-> "reading", then |-> "read"]]
    BY <1>7 DEF Resumes, TaskAt
  <2>2. task'[t].at = "reading"
    BY <1>6, <2>1
  <2>3. Fields(t)
    BY <1>2, <1>7, <2>1, <2>2 DEF Fields, Derived, Busy
  <2> QED
    BY <1>1, <2>1, <2>3 DEF Outcome, GoesOn
<1>8. CASE IsFarewell(y) /\ ~(y.current \in y.seen)
  <2>1. y.farewellId # NoId
    BY <1>8 DEF IsFarewell
  <2> QED
    BY <1>1, <1>2, <1>3, <1>6, <1>8, <2>1 DEF Outcome, Waits, Fields, Derived, Busy
<1> QED
  BY <1>1, <1>5, <1>7, <1>8

LEMMA ContinuesIs ==
  ASSUME TypeOK, NEW t \in Tasks, NEW then \in Thens, NEW x, Derived(x),
         then = "stop" => t = Stop, Continues(t, then, x)
  PROVE  Outcome(t, then) /\ Fields(t)
<1>1. task \in [Tasks -> [at : {"none", "reading", "tts", "bye", "over"}, then : Thens]]
  BY DEF TypeOK, Thens
<1>2. vad \in [Sockets -> BOOLEAN]
  BY DEF TypeOK
<1>3. ASSUME NEW w, Derived(w), Resumes(t, w), then \notin {"end", "stop"},
             UNCHANGED <<ws, rc, timer, vad>>, stop' = After(t)
      PROVE  Outcome(t, then) /\ Fields(t)
  <2>1. me' = w /\ task' = [task EXCEPT ![t] = [at |-> "reading", then |-> "read"]]
    BY <1>3 DEF Resumes, TaskAt
  <2>2. task'[t].at = "reading"
    BY <1>1, <2>1
  <2>3. Fields(t)
    BY <1>2, <1>3, <2>1, <2>2 DEF Fields, Derived, Busy
  <2> QED
    BY <1>3, <2>1, <2>3 DEF Outcome, GoesOn
<1>4. CASE then = "read"
  BY <1>3, <1>4 DEF Continues
<1>5. CASE then = "done"
  BY <1>5, DoneIs DEF Continues
<1>6. CASE then = "stopped"
  BY <1>3, <1>6, OverIs DEF Continues
<1>7. CASE then = "noaudio"
  <2> DEFINE y == [x EXCEPT !.waiting = FALSE, !.farewellId = NoId, !.hangupAfter = FALSE]
  <2>1. Derived(y)
    BY DEF Derived, Session, Ids
  <2>2. Resumes(t, Over(y)) /\ UNCHANGED <<ws, rc, timer, vad>> /\ stop' = After(t)
    BY <1>7 DEF Continues
  <2> HIDE DEF y
  <2> QED
    BY <1>3, <1>7, <2>1, <2>2, OverIs
<1>8. CASE then = "end"
  <2>1. Ends(t, x)
    BY <1>8 DEF Continues
  <2>2. LoopEnds(t, then)
    BY <1>8, <2>1 DEF Ends, LoopEnds, TaskAt
  <2>3. Derived(me')
    BY <2>1 DEF Ends, Derived, Session
  <2>4. task'[t].at = "over"
    BY <1>1, <2>2 DEF LoopEnds
  <2> QED
    BY <1>2, <2>1, <2>2, <2>3, <2>4 DEF Ends, Outcome, Fields, Derived, Busy
<1>9. CASE then = "stop"
  <2>1. Stopped(x) /\ t = Stop
    BY <1>9 DEF Continues
  <2>2. StopEnds(then)
    BY <1>9, <2>1 DEF Stopped, StopEnds, TaskAt
  <2>3. Derived(me')
    BY <2>1 DEF Stopped, Derived, Session
  <2>4. task'[t].at = "over"
    BY <1>1, <2>1, <2>2 DEF StopEnds
  <2> QED
    BY <1>2, <2>1, <2>2, <2>3, <2>4 DEF Stopped, Outcome, Fields, Derived, Busy
<1> QED
  BY <1>4, <1>5, <1>6, <1>7, <1>8, <1>9 DEF Thens

LEMMA ReportedIs ==
  ASSUME TypeOK, NEW t \in Tasks, NEW then \in Thens, NEW x, Derived(x),
         then = "stop" => t = Stop, Reported(t, then, x)
  PROVE  Outcome(t, then) /\ Fields(t)
<1>1. CASE x.waiting /\ x.farewellId # NoId
  <2>1. /\ me' = [x EXCEPT !.burst = FALSE, !.waiting = FALSE, !.farewellId = NoId]
        /\ task' = [task EXCEPT ![t] = [at |-> "bye", then |-> then]]
        /\ timer' = "off" /\ UNCHANGED <<ws, rc, vad>> /\ stop' = After(t)
    BY <1>1 DEF Reported
  <2>2. Derived(me')
    BY <2>1 DEF Derived, Session, Ids
  <2>3. me.farewellId # NoId
    BY <1>1 DEF Derived
  <2>4. Waits(t, then)
    <3>1. then = "noaudio" => then \in {"done", "noaudio"}
      OBVIOUS
    <3> QED
      BY <2>1, <3>1 DEF Waits, Busy
  <2> QED
    BY <2>1, <2>2, <2>3, <2>4 DEF Outcome, Fields, Derived, TypeOK
<1>2. CASE ~(x.waiting /\ x.farewellId # NoId)
  <2> DEFINE y == [x EXCEPT !.burst = FALSE]
  <2>1. Derived(y)
    BY DEF Derived, Session
  <2>2. Continues(t, then, y)
    BY <1>2 DEF Reported
  <2> HIDE DEF y
  <2> QED
    BY <2>1, <2>2, ContinuesIs
<1> QED
  BY <1>1, <1>2

LEMMA AudioDoneIs ==
  ASSUME TypeOK, NEW t \in Tasks, NEW then \in Thens, NEW x, Derived(x),
         then = "stop" => t = Stop, AudioDone(t, then, x)
  PROVE  Outcome(t, then) /\ Fields(t)
<1>1. CASE ~Closed /\ x.burst /\ asked
  <2>1. /\ task' = [task EXCEPT ![t] = [at |-> "tts", then |-> then]]
        /\ me' = x /\ UNCHANGED <<ws, rc, timer, vad>> /\ stop' = After(t)
    BY <1>1 DEF AudioDone
  <2>2. Waits(t, then)
    <3>1. then = "noaudio" => then \in {"done", "noaudio"}
      OBVIOUS
    <3> QED
      BY <2>1, <3>1 DEF Waits, Busy
  <2> QED
    BY <1>1, <2>1, <2>2 DEF Outcome, Fields, Derived, TypeOK
<1>2. CASE Closed
  BY <1>2, ContinuesIs DEF AudioDone
<1>3. CASE ~Closed /\ ~(x.burst /\ asked)
  BY <1>3, ReportedIs DEF AudioDone
<1> QED
  BY <1>1, <1>2, <1>3
-----------------------------------------------------------------------------
(* The invariant *)

(* The phases of start_session and stop_session follow each other, and only stop_session
   reports as stop_session does. *)
ThenFits ==
  /\ \A s \in Sockets : task[s].then # "stop"
  /\ task[Stop].at # "reading"
  /\ task[Stop].at \in Busy => task[Stop].then = "stop" /\ stop = "emit"
Order ==
  /\ stop # "idle" => start \in {"over", "failed", "cancelled"}
  /\ stop = "cut" => awaited \in Sockets
  /\ ThenFits

(* Until the session is stopped, only the websocket in use has a receive loop or, but for
   those that were left, is open, ... *)
OneInUse == \A s \in Sockets :
  /\ sock[s] = "new" => ws < s
  /\ sock[s] = "open" => s = ws \/ s \in left
  /\ task[s].at # "none" => s <= ws
  /\ Live(s) => s = ws

(* ... a reconnect starts without a receive loop, ... *)
FromNothing == rc.at \in {"connect", "update", "sleep"} => NoLoop

(* ... and so does start_session. *)
Starting ==
  /\ start \in {"connect", "created", "update", "failed"} =>
       rc.at = "idle" /\ \A s \in Sockets : task[s].at = "none"
  /\ start = "connect" => ws = 0
  /\ start \in {"created", "update", "ack", "quiet", "over"} => ws # 0
Idle == stop = "idle" => OneInUse /\ FromNothing /\ Starting /\ NotDeaf

(* What stop_session has taken down stays down. *)
Stopping == stop # "idle" /\ ~overlap =>
  /\ rc.at \notin {"connect", "update"}
  /\ \A s \in Sockets : sock[s] = "open" => s = ws \/ s \in left
  /\ stop \in {"cut", "reader"} => \A s \in Sockets : Live(s) => s = awaited
  /\ stop \in {"tasks", "close", "emit", "over"} =>
       NoLoop /\ timer = "off" /\ ~vadTask /\ tool \in {"none", "over"}
  /\ stop \in {"close", "emit", "over"} => NoneOpen

(* Until the tool asks for it nothing hangs up or is about to. *)
Quiet == ~asked =>
  /\ ~me.hangupAfter /\ me.farewellId = NoId /\ timer = "off"
  /\ \A t \in Tasks : task[t].at \notin Busy
  /\ endedBy # "engine"

IInv == TypeOK /\ Order /\ Idle /\ Stopping /\ Quiet
-----------------------------------------------------------------------------
(* The steps that report: of a receive loop, or of stop_session. *)
Reporting(t, then) ==
  /\ Outcome(t, then) /\ Fields(t)
  /\ UNCHANGED <<mode, awaited, asked, start, tool, vadTask, overlap, left, sock, count>>
  /\ \/ /\ t # Stop /\ then # "stop"
        /\ Live(t) \/ (stop = "cut" /\ t = awaited)
     \/ /\ t = Stop /\ then = "stop"
        /\ stop \in {"close", "emit"} \/ (stop = "tasks" /\ ~IsOpen)
  /\ \/ UNCHANGED <<call, endedBy>>
     \/ HangsUp /\ task[t].at \in Busy

(* Speech the provider does not react to. *)
Ignores(s) ==
  /\ UNCHANGED <<mode, awaited, call, asked, start, ws, me, task, rc, tool, vadTask, timer,
                 stop, sock, vad, active, count, endedBy, overlap, left>>
  /\ inbox[s] # <<>> /\ inbox' = [inbox EXCEPT ![s] = Tail(@)]

LEMMA MeIs == TypeOK => Derived(me)
BY DEF TypeOK, Derived, Session

LEMMA TypeOfTask ==
  ASSUME TypeOK, NEW t \in Tasks
  PROVE  task[t].then \in Thens
BY DEF TypeOK, Thens

LEMMA HangUpIs ==
  ASSUME TypeOK, Order, Idle, NEW t \in Tasks, TtsHangsUp(t) \/ ByeHangsUp(t)
  PROVE  Reporting(t, task[t].then)
<1> DEFINE then == task[t].then
<1>1. /\ task[t].at \in Busy /\ HangsUp
      /\ UNCHANGED <<mode, awaited, asked, start, tool, vadTask, sock, count, overlap, left>>
      /\ Reported(t, then, me) \/ Continues(t, then, me)
  BY DEF TtsHangsUp, ByeHangsUp, Busy
<1>2. then = "stop" <=> t = Stop
  BY <1>1 DEF Order, ThenFits
<1>3. Outcome(t, then) /\ Fields(t)
  BY <1>1, <1>2, MeIs, TypeOfTask, ReportedIs, ContinuesIs
<1>4. t # Stop => Live(t)
  BY <1>1 DEF Live, Busy
<1>5. t = Stop => stop = "emit"
  BY <1>1 DEF Order, ThenFits
<1> QED
  BY <1>1, <1>2, <1>3, <1>4, <1>5 DEF Reporting

LEMMA ReadIs ==
  ASSUME TypeOK, NEW s \in Sockets,
         \/ ReadsAudioDone(s) \/ ReadsEnd(s) \/ ReadsSpeech(s) \/ ReadsLoss(s) \/ ReadFails(s)
  PROVE  Ignores(s) \/ \E then \in Thens : Reporting(s, then)
<1>1. s # Stop /\ s \in Tasks
  BY RealtimeAssumption DEF Sockets
<1>2. ASSUME NEW then \in Thens \ {"stop"}, NEW x, Derived(x), AudioDone(s, then, x),
             task[s].at = "reading",
             UNCHANGED <<mode, awaited, call, asked, start, tool, vadTask, sock, count,
                         endedBy, overlap, left>>
      PROVE  \E th \in Thens : Reporting(s, th)
  <2>1. Outcome(s, then) /\ Fields(s)
    BY <1>1, <1>2, AudioDoneIs
  <2>2. Live(s)
    BY <1>2 DEF Live
  <2>3. Reporting(s, then)
    BY <1>1, <1>2, <2>1, <2>2 DEF Reporting
  <2> QED
    BY <2>3
<1>3. CASE ReadsAudioDone(s)
  <2> DEFINE x == [me EXCEPT !.burst = @ /\ mode.api # "beta"]
  <2>1. Derived(x)
    BY DEF TypeOK, Derived, Session
  <2>2. AudioDone(s, "read", x)
    BY <1>3 DEF ReadsAudioDone
  <2> HIDE DEF x
  <2> QED
    BY <1>2, <1>3, <2>1, <2>2 DEF ReadsAudioDone, Reads, Thens
<1>4. CASE ReadsEnd(s)
  <2>1. PICK end \in {"done", "stopped"} : Reads(s, end) /\ AudioDone(s, end, me)
    BY <1>4 DEF ReadsEnd
  <2> QED
    BY <1>2, <1>4, <2>1, MeIs DEF ReadsEnd, Reads, Thens
<1>5. CASE ReadsSpeech(s)
  <2>1. Reads(s, "speech") /\ UNCHANGED <<tool, vadTask>>
    BY <1>5 DEF ReadsSpeech
  <2>2. CASE AudioDone(s, "read", me)
    BY <1>2, <2>1, <2>2, MeIs DEF Reads, Thens
  <2>3. CASE ~AudioDone(s, "read", me)
    BY <1>5, <2>1, <2>3 DEF ReadsSpeech, Reads, Ignores
  <2> QED
    BY <2>2, <2>3
<1>6. CASE ReadsLoss(s)
  BY <1>2, <1>6, MeIs DEF ReadsLoss, Thens
<1>7. CASE ReadFails(s)
  BY <1>2, <1>7, MeIs DEF ReadFails, Thens
<1> QED
  BY <1>3, <1>4, <1>5, <1>6, <1>7

LEMMA StopIs ==
  ASSUME TypeOK, Order, StopCuts \/ StopEmits
  PROVE  \E t \in Tasks, then \in Thens : Reporting(t, then)
<1>1. CASE StopCuts
  <2>1. awaited \in Sockets /\ awaited # Stop /\ awaited \in Tasks /\ stop = "cut"
    BY <1>1, RealtimeAssumption DEF StopCuts, Order, Sockets
  <2>2. ASSUME Reported(awaited, "end", me) \/ AudioDone(awaited, "end", me)
        PROVE  Outcome(awaited, "end") /\ Fields(awaited)
    BY <2>1, <2>2, MeIs, ReportedIs, AudioDoneIs DEF Thens
  <2>3. ASSUME task' = [task EXCEPT ![awaited] = TaskAt("over")],
               me' = [me EXCEPT !.burst = FALSE],
               stop' = After(awaited), UNCHANGED <<ws, rc, timer, vad>>
        PROVE  Outcome(awaited, "end") /\ Fields(awaited)
    <3>1. LoopEnds(awaited, "end")
      BY <2>1, <2>3 DEF LoopEnds, TaskAt, Reconnectable, Closing
    <3>2. Derived(me')
      BY <2>3, MeIs DEF Derived, Session
    <3>3. task'[awaited].at = "over"
      BY <2>1, <2>3 DEF TypeOK, TaskAt
    <3> QED
      BY <2>3, <3>1, <3>2, <3>3 DEF Outcome, Fields, Derived, Busy, TypeOK
  <2>4. Outcome(awaited, "end") /\ Fields(awaited)
    BY <1>1, <2>2, <2>3 DEF StopCuts
  <2>5. Reporting(awaited, "end")
    BY <1>1, <2>1, <2>4 DEF StopCuts, Reporting
  <2> QED
    BY <2>1, <2>5 DEF Thens
<1>2. CASE StopEmits
  <2>1. Outcome(Stop, "stop") /\ Fields(Stop)
    BY <1>2, MeIs, AudioDoneIs DEF StopEmits, Thens
  <2>2. Reporting(Stop, "stop")
    BY <1>2, <2>1 DEF StopEmits, Reporting
  <2> QED
    BY <2>2 DEF Thens
<1> QED
  BY <1>1, <1>2

(* Every step is one of these: a report, an event taken from the websocket without one, or
   an action of its own. *)
Reports == \E t \in Tasks, then \in Thens : Reporting(t, then)
Takes(s) == ReadsCreated(s) \/ ReadsAudio(s) \/ ReadsCall(s) \/ Ignores(s)

LEMMA Steps ==
  ASSUME TypeOK, Order, Idle, Next
  PROVE  \/ StartTask \/ VadFallback \/ TimerTask \/ ToolTask \/ RetryTask
         \/ StopBegins \/ StopCancels \/ StopCloses \/ EngineCancels \/ CallerHangsUp
         \/ Reports
         \/ \E s \in Sockets : Takes(s) \/ ServerStep(s)
<1>1. CASE StopTask
  BY <1>1, StopIs DEF StopTask, Reports
<1>2. ASSUME NEW t \in Tasks, Reporter(t)
      PROVE  Reports \/ \E s \in Sockets : Takes(s)
  <2>1. CASE TtsHangsUp(t) \/ ByeHangsUp(t)
    BY <2>1, HangUpIs, TypeOfTask DEF Reports
  <2>2. CASE t # Stop /\ ReaderTask(t)
    <3>1. t \in Sockets
      BY <2>2
    <3>2. CASE ReadsCreated(t) \/ ReadsAudio(t) \/ ReadsCall(t)
      BY <3>1, <3>2 DEF Takes
    <3>3. CASE ReadsAudioDone(t) \/ ReadsEnd(t) \/ ReadsSpeech(t) \/ ReadsLoss(t)
      BY <3>1, <3>3, ReadIs DEF Reports, Takes
    <3> QED
      BY <2>2, <3>2, <3>3 DEF ReaderTask
  <2> QED
    BY <1>2, <2>1, <2>2 DEF Reporter
<1>3. ASSUME NEW s \in Sockets, ReadFails(s)
      PROVE  Reports \/ Takes(s)
  BY <1>3, ReadIs DEF Reports, Takes
<1> QED
  BY <1>1, <1>2, <1>3 DEF Next
-----------------------------------------------------------------------------
(* Types *)

Control ==
  /\ mode \in [api : Interfaces, greeting : Greetings] /\ call \in {"up", "ended"}
  /\ asked \in BOOLEAN
  /\ start \in {"connect", "created", "update", "ack", "quiet", "over", "failed", "cancelled"}
  /\ ws \in Sockets \cup {0}
  /\ rc \in [at : {"idle", "connect", "update", "sleep", "over", "givenup"}, tries : 0..MaxTries]
  /\ tool \in {"none", "run", "result", "over"}
  /\ vadTask \in BOOLEAN /\ timer \in {"off", "set", "bye"}
  /\ stop \in {"idle", "cut", "reader", "tasks", "close", "emit", "over"}
  /\ awaited \in Sockets \cup {0} /\ endedBy \in {"nobody", "caller", "engine"}
  /\ overlap \in BOOLEAN /\ left \subseteq Sockets
Loops == task \in [Tasks -> [at : {"none", "reading", "tts", "bye", "over"}, then : Thens]]
Wires ==
  /\ sock \in [Sockets -> {"new", "open", "lost", "closed"}]
  /\ inbox \in [Sockets -> Seq(Events)]
  /\ active \in [Sockets -> [id : Ids, stage : {"silent", "speaking", "spoken"}]]
  /\ count \in [responses : 0..MaxResponses, speech : 0..MaxInterruptions, barges : 0..MaxInterruptions,
                calls : 0..1]

LEMMA TypeParts ==
  TypeOK <=> Control /\ Loops /\ Wires /\ me \in Session /\ vad \in [Sockets -> BOOLEAN]
BY DEF TypeOK, Control, Loops, Wires, Session, Thens

LEMMA OutcomeTypes ==
  ASSUME TypeOK, NEW t \in Tasks, NEW then \in Thens, Outcome(t, then)
  PROVE  /\ Loops' /\ ws' \in Sockets \cup {0}
         /\ rc' \in [at : {"idle", "connect", "update", "sleep", "over", "givenup"},
                     tries : 0..MaxTries]
         /\ stop' \in {"idle", "cut", "reader", "tasks", "close", "emit", "over"}
<1>1. Loops
  BY TypeParts
<1>2. 1 \in 0..MaxTries
  BY RealtimeAssumption
<1>3. After(t) \in {"idle", "cut", "reader", "tasks", "close", "emit", "over"}
  BY DEF After, TypeOK
<1>4. CASE Waits(t, then)
  BY <1>1, <1>3, <1>4 DEF Waits, Loops, Busy, Thens, TypeOK
<1>5. CASE GoesOn(t, then)
  BY <1>1, <1>3, <1>5 DEF GoesOn, Loops, Thens, TypeOK
<1>6. CASE LoopEnds(t, then)
  BY <1>1, <1>2, <1>3, <1>6 DEF LoopEnds, Loops, Thens, TypeOK
<1>7. CASE StopEnds(then)
  BY <1>1, <1>7 DEF StopEnds, Loops, Thens, TypeOK
<1> QED
  BY <1>4, <1>5, <1>6, <1>7 DEF Outcome

LEMMA ControlStep == TypeOK /\ Order /\ Idle /\ Next => Control'
<1> SUFFICES ASSUME TypeOK, Order, Idle, Next PROVE Control'
  OBVIOUS
<1> USE DEF Control
<1>0. Control
  BY TypeParts
<1>A. Opens => left' \subseteq Sockets
  BY <1>0 DEF Opens, IsOpen
<1>1. CASE StartTask
  <2>1. vadTask' \in BOOLEAN
    BY <1>0, <1>1 DEF StartTask, Connects, Configures, StartsToRead, StartFails,
                      Acknowledged, Greets, Fallback
  <2>2. CASE Connects
    <3>1. ws' \in Sockets /\ left' \subseteq Sockets
      BY <1>A, <2>2 DEF Connects, Opens, Fresh
    <3> QED
      BY <1>0, <2>1, <2>2, <3>1 DEF Connects
  <2>3. CASE Configures \/ StartsToRead \/ StartFails
    BY <1>0, <2>1, <2>3 DEF Configures, StartsToRead, StartFails
  <2>4. CASE Acknowledged
    BY <1>0, <2>1, <2>4 DEF Acknowledged
  <2>5. CASE Greets
    BY <1>0, <2>1, <2>5 DEF Greets
  <2> QED
    BY <1>1, <2>2, <2>3, <2>4, <2>5 DEF StartTask
<1>2. CASE VadFallback
  <2>1. vadTask' \in BOOLEAN
    BY <1>2 DEF VadFallback
  <2>2. UNCHANGED <<mode, awaited, call, asked, start, ws, rc, tool, timer, stop, endedBy,
                    overlap, left>>
    BY <1>2 DEF VadFallback
  <2> QED
    BY <1>0, <2>1, <2>2
<1>3. CASE TimerTask
  BY <1>0, <1>3 DEF TimerTask, TimesOut, TimeoutHangsUp, HangsUp
<1>4. CASE ToolTask
  <2>1. asked' \in BOOLEAN
    BY <1>0, <1>4 DEF ToolTask, ToolRuns, ToolAsksFarewell
  <2>2. /\ UNCHANGED <<mode, awaited, call, start, ws, rc, vadTask, timer, stop, history>>
        /\ tool' \in {"result", "over"}
    BY <1>4 DEF ToolTask, ToolRuns, ToolAsksFarewell
  <2> QED
    BY <1>0, <2>1, <2>2
<1>5. CASE RetryTask
  <2>1. 0 \in 0..MaxTries
    BY RealtimeAssumption
  <2>2. Retry \in [at : {"over", "connect", "givenup"}, tries : 0..MaxTries]
    BY <1>0, <2>1, RealtimeAssumption DEF Retry
  <2>3. CASE Reconnects
    <3>1. rc' \in [at : {"update"}, tries : 0..MaxTries]
      BY <1>0, <2>3 DEF Reconnects
    <3>2. ws' \in Sockets /\ left' \subseteq Sockets
      BY <1>A, <2>3 DEF Reconnects, Opens, Fresh
    <3> QED
      BY <1>0, <2>3, <3>1, <3>2 DEF Reconnects
  <2>4. CASE ConnectFails \/ UpdateFails
    <3>1. rc' \in [at : {"sleep"}, tries : 0..MaxTries]
      BY <1>0, <2>4 DEF ConnectFails, UpdateFails
    <3> QED
      BY <1>0, <2>4, <3>1 DEF ConnectFails, UpdateFails
  <2>5. CASE Restarts \/ BacksOff
    BY <1>0, <2>1, <2>2, <2>5 DEF Restarts, BacksOff
  <2> QED
    BY <1>5, <2>3, <2>4, <2>5 DEF RetryTask
<1>6. CASE StopBegins
  BY <1>0, <1>6 DEF StopBegins
<1>7. CASE StopCancels
  <2>1. vadTask' \in BOOLEAN /\ timer' \in {"off", "set", "bye"}
    BY <1>7 DEF StopCancels
  <2>2. tool' \in {"none", "run", "result", "over"} /\ stop' = "tasks"
    BY <1>0, <1>7 DEF StopCancels
  <2> QED
    BY <1>0, <1>7, <2>1, <2>2 DEF StopCancels
<1>8. CASE StopCloses
  BY <1>0, <1>8 DEF StopCloses
<1>9. CASE EngineCancels \/ CallerHangsUp
  BY <1>0, <1>9 DEF EngineCancels, CallerHangsUp
<1>10. CASE Reports
  <2>1. PICK t \in Tasks, then \in Thens : Reporting(t, then)
    BY <1>10 DEF Reports
  <2>2. timer' \in {timer, "off"}
    BY <2>1 DEF Reporting, Fields
  <2>3. call' \in {"up", "ended"} /\ endedBy' \in {"nobody", "caller", "engine"}
    BY <1>0, <2>1 DEF Reporting, HangsUp
  <2> QED
    BY <1>0, <2>1, <2>2, <2>3, OutcomeTypes DEF Reporting
<1>11. ASSUME NEW s \in Sockets, Takes(s) PROVE Control'
  BY <1>0, <1>11 DEF Takes, ReadsCreated, TimerOf, ReadsAudio, ReadsCall, Ignores, Reads
<1>12. ASSUME NEW s \in Sockets, ServerStep(s) PROVE Control'
  BY <1>0, <1>12 DEF ServerStep, Server, Speaks, CallsTool, EndsResponse, HearsSpeech,
                     AnswersSpeech, Loses
<1> QED
  BY <1>1, <1>2, <1>3, <1>4, <1>5, <1>6, <1>7, <1>8, <1>9, <1>10, <1>11, <1>12, Steps

LEMMA LoopsStep == TypeOK /\ Order /\ Idle /\ Next => Loops'
<1> SUFFICES ASSUME TypeOK, Order, Idle, Next PROVE Loops'
  OBVIOUS
<1>0. Loops /\ ws \in Tasks
  BY TypeParts DEF Control
<1>1. CASE Reports
  BY <1>1, OutcomeTypes DEF Reports, Reporting
<1>2. CASE StartsToRead \/ Restarts
  BY <1>0, <1>2 DEF StartsToRead, Restarts, TaskAt, Loops, Thens
<1>3. CASE UNCHANGED task
  BY <1>0, <1>3 DEF Loops
<1>4. StartTask => StartsToRead \/ UNCHANGED task
  BY DEF StartTask, Connects, Configures, StartFails, Acknowledged, Greets
<1>5. RetryTask => Restarts \/ UNCHANGED task
  BY DEF RetryTask, Reconnects, ConnectFails, UpdateFails, BacksOff
<1>6. VadFallback \/ TimerTask \/ ToolTask \/ StopBegins \/ StopCancels \/ StopCloses
      \/ EngineCancels \/ CallerHangsUp => UNCHANGED task
  BY DEF VadFallback, TimerTask, TimesOut, TimeoutHangsUp, ToolTask, ToolRuns,
         ToolAsksFarewell, StopBegins, StopCancels, StopCloses, EngineCancels, CallerHangsUp
<1>7. ASSUME NEW s \in Sockets, Takes(s) \/ ServerStep(s) PROVE UNCHANGED task
  BY <1>7 DEF Takes, ReadsCreated, ReadsAudio, ReadsCall, Ignores, ServerStep, Server, Speaks,
              CallsTool, EndsResponse, HearsSpeech, AnswersSpeech, Loses
<1> QED
  BY <1>1, <1>2, <1>3, <1>4, <1>5, <1>6, <1>7, Steps

LEMMA EventsIs ==
  ASSUME Wires, NEW s \in Sockets
  PROVE  /\ inbox[s] \in Seq(Events)
         /\ inbox[s] # <<>> => Head(inbox[s]) \in Events /\ Tail(inbox[s]) \in Seq(Events)
         /\ \A e \in Events : Append(inbox[s], e) \in Seq(Events)
         /\ [inbox EXCEPT ![s] = Tail(@)] \in [Sockets -> Seq(Events)] \/ inbox[s] = <<>>
<1>1. inbox \in [Sockets -> Seq(Events)] /\ inbox[s] \in Seq(Events)
  BY DEF Wires
<1>2. inbox[s] # <<>> => Head(inbox[s]) \in Events /\ Tail(inbox[s]) \in Seq(Events)
  BY <1>1, HeadTailProperties
<1>3. \A e \in Events : Append(inbox[s], e) \in Seq(Events)
  BY <1>1, AppendProperties
<1> QED
  BY <1>1, <1>2, <1>3

LEMMA CreatesIs ==
  ASSUME Wires, NEW s \in Sockets, Creates(s), sock' = sock
  PROVE  Wires'
<1> DEFINE r == count.responses + 1
<1>1. CASE active[s].id = NoId /\ count.responses < MaxResponses
  <2>1. r \in Responses /\ r \in 0..MaxResponses /\ r \in Ids
    BY <1>1, RealtimeAssumption DEF Wires, Responses, Ids
  <2>2. /\ active' = [active EXCEPT ![s] = [id |-> r, stage |-> "silent"]]
        /\ count' = [count EXCEPT !.responses = r]
        /\ inbox' = [inbox EXCEPT ![s] = Append(@, <<"created", r>>)]
    BY <1>1 DEF Creates
  <2>3. <<"created", r>> \in Events
    BY <2>1 DEF Events
  <2>4. inbox' \in [Sockets -> Seq(Events)]
    BY <2>2, <2>3, EventsIs DEF Wires
  <2> HIDE DEF r
  <2> QED
    BY <2>1, <2>2, <2>4 DEF Wires
<1>2. CASE ~(active[s].id = NoId /\ count.responses < MaxResponses)
  BY <1>2 DEF Creates, Wires
<1> QED
  BY <1>1, <1>2

LEMMA PushesIs ==
  ASSUME Wires, NEW s \in Sockets, NEW e \in Seq(Events), Pushes(s, e)
  PROVE  inbox' \in [Sockets -> Seq(Events)]
<1>1. inbox[s] \o e \in Seq(Events)
  BY EventsIs, ConcatProperties
<1> QED
  BY <1>1 DEF Wires, Pushes

LEMMA WiresStep ==
  ASSUME Wires, NEW s \in Sockets, ServerStep(s)
  PROVE  Wires'
<1>0. /\ active[s] \in [id : Ids, stage : {"silent", "speaking", "spoken"}]
      /\ active[s].id \in Ids /\ NoId \in Ids
  BY DEF Wires, Ids
<1>1. CASE Speaks(s)
  <2>1. PICK e \in {<<"silent", "speaking", "audio">>, <<"speaking", "spoken", "spoken">>} :
          /\ active' = [active EXCEPT ![s].stage = e[2]]
          /\ Pushes(s, << <<e[3], active[s].id>> >>)
    BY <1>1 DEF Speaks
  <2>2. e[2] \in {"silent", "speaking", "spoken"} /\ e[3] \in {"audio", "spoken"}
    OBVIOUS
  <2>3. << <<e[3], active[s].id>> >> \in Seq(Events)
    BY <1>0, <2>2 DEF Events
  <2>4. inbox' \in [Sockets -> Seq(Events)]
    BY <2>1, <2>3, PushesIs
  <2>5. active' \in [Sockets -> [id : Ids, stage : {"silent", "speaking", "spoken"}]]
    BY <1>0, <2>1, <2>2 DEF Wires
  <2>6. UNCHANGED <<sock, count>>
    BY <1>1 DEF Speaks, Server
  <2> QED
    BY <2>4, <2>5, <2>6 DEF Wires
<1>2. CASE CallsTool(s)
  <2>1. << <<"call", active[s].id>> >> \in Seq(Events)
    BY <1>0 DEF Events
  <2>2. inbox' \in [Sockets -> Seq(Events)]
    BY <1>2, <2>1, PushesIs DEF CallsTool
  <2>3. count' \in [responses : 0..MaxResponses, speech : 0..MaxInterruptions, barges : 0..MaxInterruptions,
                    calls : 0..1]
    <3>1. count' = [count EXCEPT !.calls = 1]
      BY <1>2 DEF CallsTool
    <3>2. count \in [responses : 0..MaxResponses, speech : 0..MaxInterruptions, barges : 0..MaxInterruptions,
                     calls : 0..1]
      BY DEF Wires
    <3> QED
      BY <3>1, <3>2
  <2>4. UNCHANGED <<sock, active>>
    BY <1>2 DEF CallsTool, Server
  <2> QED
    BY <2>2, <2>3, <2>4 DEF Wires
<1>3. CASE EndsResponse(s)
  <2>1. PICK end \in {"done", "stopped"}, n \in Terminals :
          Pushes(s, [i \in 1..n |-> <<end, active[s].id>>])
    BY <1>3 DEF EndsResponse
  <2>2. <<end, active[s].id>> \in Events /\ n \in Nat
    BY <1>0, RealtimeAssumption DEF Events
  <2>3. [i \in 1..n |-> <<end, active[s].id>>] \in Seq(Events)
    BY <2>2
  <2>4. inbox' \in [Sockets -> Seq(Events)]
    BY <2>1, <2>3, PushesIs
  <2> QED
    BY <1>0, <1>3, <2>4 DEF EndsResponse, Server, Wires, NoResponse
<1>4. CASE HearsSpeech(s)
  <2>1. << <<"speech", NoId>> >> \in Seq(Events)
    BY <1>0 DEF Events
  <2>2. inbox' \in [Sockets -> Seq(Events)]
    BY <1>4, <2>1, PushesIs DEF HearsSpeech
  <2>3. count.speech + 1 \in 0..MaxInterruptions
    BY <1>4, RealtimeAssumption DEF HearsSpeech, Wires
  <2> QED
    BY <1>4, <2>2, <2>3 DEF HearsSpeech, Server, Wires
<1>5. CASE AnswersSpeech(s)
  BY <1>5, CreatesIs DEF AnswersSpeech, Server
<1>6. CASE Loses(s)
  BY <1>6 DEF Loses, Wires
<1> QED
  BY <1>1, <1>2, <1>3, <1>4, <1>5, <1>6 DEF ServerStep

LEMMA CancelsIs ==
  ASSUME Wires, NEW s \in Sockets, NEW end \in {"done", "stopped"}, Cancels(s, end)
  PROVE  /\ inbox' \in [Sockets -> Seq(Events)]
         /\ active' \in [Sockets -> [id : Ids, stage : {"silent", "speaking", "spoken"}]]
<1>1. NoResponse \in [id : Ids, stage : {"silent", "speaking", "spoken"}]
  BY DEF NoResponse, Ids
<1>2. <<end, active[s].id>> \in Events
  BY DEF Wires, Events
<1>3. Append(inbox[s], <<end, active[s].id>>) \in Seq(Events)
  BY <1>2, EventsIs
<1>4. CASE active[s].id # NoId
  <2>1. /\ inbox' = [inbox EXCEPT ![s] = Append(@, <<end, active[s].id>>)]
        /\ active' = [active EXCEPT ![s] = NoResponse]
    BY <1>4 DEF Cancels
  <2> QED
    BY <1>1, <1>3, <2>1 DEF Wires
<1>5. CASE active[s].id = NoId
  BY <1>5 DEF Cancels, Wires
<1> QED
  BY <1>4, <1>5

(* A handler that takes one event leaves the rest. *)
LEMMA TakesIs ==
  ASSUME Wires, NEW s \in Sockets, inbox[s] # <<>>, inbox' = [inbox EXCEPT ![s] = Tail(@)],
         UNCHANGED <<sock, active, count>>
  PROVE  Wires'
BY EventsIs DEF Wires

LEMMA SpeechWires ==
  ASSUME TypeOK, NEW s \in Sockets, ReadsSpeech(s)
  PROVE  Wires'
<1>1. Wires /\ inbox[s] # <<>> /\ UNCHANGED <<sock, count>>
  BY TypeParts DEF ReadsSpeech, Reads
<1> DEFINE rest == [inbox EXCEPT ![s] = Tail(@)]
<1>2. rest \in [Sockets -> Seq(Events)]
  BY <1>1, EventsIs
<1>3. CASE inbox' = rest /\ UNCHANGED active
  BY <1>1, <1>3, TakesIs
<1>4. CASE \E end \in {"done", "stopped"} :
             /\ me.current # NoId /\ active[ws].id = me.current
             /\ IsOpen
             /\ inbox' = [rest EXCEPT ![ws] = Append(@, <<end, me.current>>)]
             /\ active' = [active EXCEPT ![ws] = NoResponse]
  <2>1. PICK end \in {"done", "stopped"} :
          /\ inbox' = [rest EXCEPT ![ws] = Append(@, <<end, me.current>>)]
          /\ active' = [active EXCEPT ![ws] = NoResponse]
    BY <1>4
  <2>2. ws \in Sockets /\ me.current \in Ids
    BY <1>4 DEF IsOpen, TypeOK
  <2>3. NoResponse \in [id : Ids, stage : {"silent", "speaking", "spoken"}]
    BY DEF NoResponse, Ids
  <2>4. <<end, me.current>> \in Events
    BY <2>2 DEF Events
  <2> HIDE DEF rest
  <2>5. Append(rest[ws], <<end, me.current>>) \in Seq(Events)
    BY <1>2, <2>2, <2>4, AppendProperties
  <2> QED
    BY <1>1, <1>2, <2>1, <2>2, <2>3, <2>5 DEF Wires
<1> QED
  BY <1>3, <1>4 DEF ReadsSpeech

(* What is forgotten of a websocket that is replaced. *)
LEMMA OpensForgets ==
  ASSUME Wires, vad \in [Sockets -> BOOLEAN], Opens
  PROVE  /\ inbox' \in [Sockets -> Seq(Events)] /\ vad' \in [Sockets -> BOOLEAN]
         /\ active' \in [Sockets -> [id : Ids, stage : {"silent", "speaking", "spoken"}]]
<1>1. /\ inbox' = [u \in Sockets |-> IF u = ws THEN <<>> ELSE inbox[u]]
      /\ vad' = [u \in Sockets |-> vad[u] \/ u = ws]
      /\ active' = [u \in Sockets |-> IF u = ws THEN NoResponse ELSE active[u]]
  BY DEF Opens
<1>2. NoResponse \in [id : Ids, stage : {"silent", "speaking", "spoken"}]
  BY DEF NoResponse, Ids
<1>3. <<>> \in Seq(Events)
  OBVIOUS
<1>4. ASSUME NEW u \in Sockets PROVE (vad[u] \/ u = ws) \in BOOLEAN
  OBVIOUS
<1>5. vad' \in [Sockets -> BOOLEAN]
  BY <1>1, <1>4
<1> QED
  BY <1>1, <1>2, <1>3, <1>5 DEF Wires

LEMMA WiresNext == TypeOK /\ Next => Wires'
<1> SUFFICES ASSUME TypeOK, Next PROVE Wires'
  OBVIOUS
<1>0. Wires /\ (IsOpen => ws \in Sockets)
  BY TypeParts DEF Control, IsOpen
<1>1. CASE UNCHANGED <<sock, inbox, active, count>>
  BY <1>0, <1>1 DEF Wires
<1>2. CASE Connects \/ Reconnects
  <2>1. sock' \in [Sockets -> {"new", "open", "lost", "closed"}]
    BY <1>0, <1>2 DEF Wires, Connects, Reconnects, Opens, Fresh
  <2>2. /\ inbox' \in [Sockets -> Seq(Events)] /\ UNCHANGED count
        /\ active' \in [Sockets -> [id : Ids, stage : {"silent", "speaking", "spoken"}]]
    BY <1>0, <1>2, TypeParts, OpensForgets DEF Connects, Reconnects
  <2> QED
    BY <1>0, <2>1, <2>2 DEF Wires
<1>3. CASE StopCloses
  BY <1>0, <1>3 DEF StopCloses, Wires, IsOpen
<1>4. CASE Acknowledged \/ Greets \/ ToolAsksFarewell
  <2>1. (Creates(ws) /\ IsOpen) \/ UNCHANGED <<active, count, inbox>>
    BY <1>4 DEF Acknowledged, Greets, ToolAsksFarewell
  <2>2. sock' = sock
    BY <1>4 DEF Acknowledged, Greets, ToolAsksFarewell
  <2> QED
    BY <1>0, <1>1, <2>1, <2>2, CreatesIs
<1>5. CASE EngineCancels
  <2>1. /\ inbox' \in [Sockets -> Seq(Events)]
        /\ active' \in [Sockets -> [id : Ids, stage : {"silent", "speaking", "spoken"}]]
    BY <1>0, <1>5, CancelsIs DEF EngineCancels
  <2>2. count.barges + 1 \in 0..MaxInterruptions
    BY <1>0, <1>5, RealtimeAssumption DEF EngineCancels, Wires
  <2>3. count' \in [responses : 0..MaxResponses, speech : 0..MaxInterruptions, barges : 0..MaxInterruptions,
                    calls : 0..1]
    BY <1>0, <1>5, <2>2 DEF EngineCancels, Wires
  <2> QED
    BY <1>0, <1>5, <2>1, <2>3 DEF EngineCancels, Wires
<1>6. ASSUME NEW t \in Tasks, Reporter(t) PROVE Wires'
  <2>1. CASE TtsHangsUp(t) \/ ByeHangsUp(t)
    BY <1>1, <2>1 DEF TtsHangsUp, ByeHangsUp
  <2>2. CASE t # Stop /\ ReaderTask(t)
    <3>1. t \in Sockets
      BY <2>2
    <3>2. CASE ReadsSpeech(t)
      BY <3>1, <3>2, SpeechWires
    <3>3. CASE ReadsLoss(t)
      BY <1>1, <3>3 DEF ReadsLoss
    <3>4. CASE ReadsCreated(t) \/ ReadsAudio(t) \/ ReadsAudioDone(t) \/ ReadsEnd(t) \/ ReadsCall(t)
      <4>1. /\ inbox[t] # <<>> /\ inbox' = [inbox EXCEPT ![t] = Tail(@)]
            /\ UNCHANGED <<sock, active, count>>
        BY <3>4 DEF ReadsCreated, ReadsAudio, ReadsAudioDone, ReadsEnd, ReadsCall, Reads
      <4> QED
        BY <1>0, <3>1, <4>1, TakesIs
    <3> QED
      BY <2>2, <3>2, <3>3, <3>4 DEF ReaderTask
  <2> QED
    BY <1>6, <2>1, <2>2 DEF Reporter
<1>7. ASSUME NEW s \in Sockets, ServerStep(s) PROVE Wires'
  BY <1>0, <1>7, WiresStep
<1>13. ASSUME NEW s \in Sockets, ReadFails(s) PROVE Wires'
  <2>1. inbox' = [inbox EXCEPT ![s] = <<>>] /\ UNCHANGED <<sock, active, count>>
    BY <1>13 DEF ReadFails
  <2>2. <<>> \in Seq(Events)
    OBVIOUS
  <2> QED
    BY <1>0, <2>1, <2>2 DEF Wires
<1>8. StartTask => Connects \/ Acknowledged \/ Greets \/ UNCHANGED <<sock, inbox, active, count>>
  BY DEF StartTask, Configures, StartsToRead, StartFails
<1>9. VadFallback \/ TimerTask \/ CallerHangsUp => UNCHANGED <<sock, inbox, active, count>>
  BY DEF VadFallback, TimerTask, TimesOut, TimeoutHangsUp, CallerHangsUp
<1>10. ToolTask => ToolAsksFarewell \/ UNCHANGED <<sock, inbox, active, count>>
  BY DEF ToolTask, ToolRuns
<1>11. RetryTask => Reconnects \/ UNCHANGED <<sock, inbox, active, count>>
  BY DEF RetryTask, ConnectFails, Restarts, UpdateFails, BacksOff
<1>14. CASE StopBegins
  <2>1. NoCount \in [responses : 0..MaxResponses, speech : 0..MaxInterruptions,
                    barges : 0..MaxInterruptions, calls : 0..1]
    BY RealtimeAssumption DEF NoCount
  <2> QED
    BY <1>0, <1>14, <2>1 DEF StopBegins, Wires, NoResponse, Ids
<1>12. StopTask => StopBegins \/ StopCloses \/ UNCHANGED <<sock, inbox, active, count>>
  BY DEF StopTask, StopCuts, StopCancels, StopEmits
<1> QED
  BY <1>1, <1>2, <1>3, <1>4, <1>5, <1>6, <1>7, <1>8, <1>9, <1>10, <1>11, <1>12,
     <1>13, <1>14 DEF Next

LEMMA SessionStep ==
  TypeOK /\ Order /\ Idle /\ Next => me' \in Session /\ vad' \in [Sockets -> BOOLEAN]
<1> SUFFICES ASSUME TypeOK, Order, Idle, Next
             PROVE  me' \in Session /\ vad' \in [Sockets -> BOOLEAN]
  OBVIOUS
<1>0. /\ me \in Session /\ vad \in [Sockets -> BOOLEAN] /\ ReEnabled \in [Sockets -> BOOLEAN]
      /\ mode \in [api : Interfaces, greeting : Greetings] /\ Wires
  BY TypeParts, ReEnabledIs DEF Control
<1>1. CASE UNCHANGED <<me, vad>>
  BY <1>0, <1>1
<1>2. CASE StartTask
  <2>1. CASE Acknowledged
    <3>1. UNCHANGED me \/ me' = [me EXCEPT !.pending = TRUE]
      BY <2>1 DEF Acknowledged
    <3>2. UNCHANGED vad \/ vad' = [vad EXCEPT ![ws] = @ /\ mode.api # "beta"]
      BY <2>1 DEF Acknowledged
    <3>3. me' \in Session
      BY <1>0, <3>1 DEF Session
    <3>4. vad' \in [Sockets -> BOOLEAN]
      BY <1>0, <3>2
    <3> QED
      BY <3>3, <3>4
  <2>2. CASE Greets
    BY <1>0, <2>2 DEF Greets, Session
  <2>3. CASE Connects
    BY <1>0, <2>3, OpensForgets DEF Connects
  <2>4. CASE Configures \/ StartsToRead \/ StartFails
    BY <1>1, <2>4 DEF Configures, StartsToRead, StartFails
  <2> QED
    BY <1>2, <2>1, <2>2, <2>3, <2>4 DEF StartTask
<1>3. CASE VadFallback
  BY <1>0, <1>3 DEF VadFallback, Session
<1>4. CASE ToolTask
  <2>1. me' = [me EXCEPT !.hangupAfter = TRUE] \/ me' = [me EXCEPT !.pending = @ \/ IsOpen]
    BY <1>4 DEF ToolTask, ToolRuns, ToolAsksFarewell
  <2>2. IsOpen \in BOOLEAN
    BY DEF IsOpen
  <2>3. me' \in Session
    BY <1>0, <2>1, <2>2 DEF Session
  <2> QED
    BY <1>0, <1>4, <2>3 DEF ToolTask, ToolRuns, ToolAsksFarewell
<1>5. CASE RetryTask
  <2>1. CASE Reconnects
    BY <1>0, <2>1, OpensForgets DEF Reconnects, Session
  <2> QED
    BY <1>1, <1>5, <2>1 DEF RetryTask, ConnectFails, Restarts, UpdateFails, BacksOff
<1>6. CASE EngineCancels
  BY <1>0, <1>6 DEF EngineCancels, Session
<1>7. CASE Reports
  BY <1>7 DEF Reports, Reporting, Fields
<1>8. ASSUME NEW s \in Sockets, Takes(s)
      PROVE  me' \in Session /\ vad' \in [Sockets -> BOOLEAN]
  <2>1. inbox[s] # <<>>
    BY <1>8 DEF Takes, ReadsCreated, ReadsAudio, ReadsCall, Reads, Ignores
  <2>2. Head(inbox[s])[2] \in Ids
    BY <1>0, <2>1, EventsIs DEF Events
  <2>3. CASE ReadsCreated(s)
    <3> DEFINE r == Head(inbox[s])[2]
               x == [me EXCEPT !.current = r, !.seen = @ \ {r}]
    <3>1. \/ me' = x
          \/ me' = [x EXCEPT !.greetingId = r]
          \/ me' = [x EXCEPT !.farewellId = r, !.waiting = TRUE]
      BY <2>3 DEF ReadsCreated
    <3>2. x \in Session /\ r \in Ids
      BY <1>0, <2>2 DEF Session
    <3>3. me' \in Session
      <4> HIDE DEF r, x
      <4> QED
        BY <3>1, <3>2 DEF Session
    <3> QED
      BY <1>0, <2>3, <3>3 DEF ReadsCreated
  <2>4. CASE ReadsAudio(s)
    <3>1. me.current # NoId => me.current \in Responses
      BY <1>0 DEF Session, Ids
    <3> QED
      BY <1>0, <2>4, <3>1 DEF ReadsAudio, Session
  <2>5. CASE ReadsCall(s) \/ Ignores(s)
    BY <1>1, <2>5 DEF ReadsCall, Ignores
  <2> QED
    BY <1>8, <2>3, <2>4, <2>5 DEF Takes
<1>9. ASSUME NEW s \in Sockets, ServerStep(s) PROVE UNCHANGED <<me, vad>>
  BY <1>9 DEF ServerStep, Server, Speaks, CallsTool, EndsResponse, HearsSpeech, AnswersSpeech,
              Loses
<1>10. TimerTask \/ StopBegins \/ StopCancels \/ StopCloses \/ CallerHangsUp => UNCHANGED <<me, vad>>
  BY DEF TimerTask, TimesOut, TimeoutHangsUp, StopBegins, StopCancels, StopCloses, CallerHangsUp
<1> QED
  BY <1>1, <1>2, <1>3, <1>4, <1>5, <1>6, <1>7, <1>8, <1>9, <1>10, Steps

LEMMA TypeStep == TypeOK /\ Order /\ Idle /\ [Next]_vars => TypeOK'
<1>1. CASE UNCHANGED vars
  BY <1>1 DEF vars, TypeOK, Ids, Events
<1>2. TypeOK /\ Order /\ Idle /\ Next => TypeOK'
  BY ControlStep, LoopsStep, WiresNext, SessionStep, TypeParts
     DEF TypeOK, Control, Loops, Wires, Session, Thens
<1> QED
  BY <1>1, <1>2
-----------------------------------------------------------------------------
(* The order of the phases *)

(* What a report does to the loops and to stop_session. *)
LEMMA OutcomeIs ==
  ASSUME TypeOK, Order, NEW t \in Tasks, NEW then \in Thens, Reporting(t, then)
  PROVE  /\ \A u \in Tasks \ {t} : task'[u] = task[u]
         /\ task'[t] \in [at : Busy, then : {then, "noaudio"}]
              \cup [at : {"reading", "over"}, then : {"read"}]
         /\ task'[t].then = "end" /\ task'[t].at \in Busy => then = "end"
         /\ task'[t].then = "noaudio" => then \in {"done", "noaudio"}
         /\ task'[t].at = "reading" => t # Stop
         /\ task'[t].at = "over" => then \in {"end", "stop"}
         /\ stop = "idle" => stop' = "idle" /\ t # Stop
         /\ stop \notin {"idle", "cut"} /\ t # Stop => stop' = stop
         /\ stop = "cut" => stop' = "reader"
         /\ t = Stop => stop' \in {"emit", "over"} /\ (task'[t].at \in Busy => stop' = "emit")
         /\ stop' # "over" => ws' = ws
         /\ rc' = rc \/ (then = "end" /\ Reconnectable /\ rc' = [at |-> "connect", tries |-> 1])
<1>0. Loops
  BY TypeParts
<1>1. CASE t = Stop
  <2>1. then = "stop" /\ stop \notin {"cut", "idle"} /\ After(t) = "emit"
    BY <1>1 DEF Reporting, After
  <2>2. CASE Waits(t, then)
    BY <1>0, <1>1, <2>1, <2>2 DEF Waits, Loops, Busy
  <2>3. CASE StopEnds(then)
    BY <1>0, <1>1, <2>1, <2>3 DEF StopEnds, Loops, Busy
  <2> QED
    BY <2>1, <2>2, <2>3 DEF Reporting, Outcome, GoesOn, LoopEnds
<1>2. CASE t # Stop
  <2>1. then # "stop" /\ After(t) = IF stop = "cut" THEN "reader" ELSE stop
    BY <1>2 DEF Reporting, After
  <2>2. CASE Waits(t, then)
    BY <1>0, <1>2, <2>1, <2>2 DEF Waits, Loops, Busy
  <2>3. CASE GoesOn(t, then)
    BY <1>0, <1>2, <2>1, <2>3 DEF GoesOn, Loops, Busy
  <2>4. CASE LoopEnds(t, then)
    BY <1>0, <1>2, <2>1, <2>4 DEF LoopEnds, Loops, Busy
  <2> QED
    BY <2>1, <2>2, <2>3, <2>4 DEF Reporting, Outcome, StopEnds
<1> QED
  BY <1>1, <1>2

LEMMA OrderStep == TypeOK /\ Order /\ Idle /\ [Next]_vars => Order'
<1> SUFFICES ASSUME TypeOK, Order, Idle, [Next]_vars PROVE Order'
  OBVIOUS
<1>0. Loops /\ Stop \in Tasks /\ ~(Stop \in Sockets) /\ ws \in Tasks
  BY TypeParts, RealtimeAssumption DEF Control, Sockets
<1>1. CASE UNCHANGED <<start, stop, task, awaited>>
  BY <1>1 DEF Order, ThenFits
<1>2. CASE UNCHANGED vars
  BY <1>1, <1>2 DEF vars
<1>3. CASE StartTask
  <2>1. UNCHANGED <<stop, awaited>> /\ stop = "idle"
    BY <1>3 DEF StartTask, Connects, Configures, StartsToRead, StartFails, Acknowledged, Greets,
                Order
  <2>2. CASE StartsToRead
    <3>1. ws \in Sockets
      BY <2>1, <2>2 DEF StartsToRead, Idle, Starting, TypeOK
    <3>2. task' = [task EXCEPT ![ws] = [at |-> "reading", then |-> "read"]]
      BY <2>2 DEF StartsToRead, TaskAt
    <3> QED
      BY <1>0, <2>1, <3>1, <3>2 DEF Order, ThenFits, Loops, Busy
  <2>3. CASE UNCHANGED task
    BY <2>1, <2>3 DEF Order, ThenFits
  <2> QED
    BY <1>3, <2>2, <2>3 DEF StartTask, Connects, Configures, StartFails, Acknowledged, Greets
<1>4. CASE RetryTask
  <2>1. UNCHANGED <<start, stop, awaited>>
    BY <1>4 DEF RetryTask, Reconnects, ConnectFails, Restarts, UpdateFails, BacksOff
  <2>2. CASE task' = [task EXCEPT ![ws] = [at |-> "reading", then |-> "read"]] /\ ws # 0
    BY <1>0, <2>1, <2>2 DEF Order, ThenFits, Loops, Busy
  <2>3. CASE UNCHANGED task
    BY <1>1, <2>1, <2>3
  <2> QED
    BY <1>4, <2>2, <2>3 DEF RetryTask, Reconnects, ConnectFails, Restarts, UpdateFails, BacksOff,
                           TaskAt
<1>5. CASE StopBegins
  <2>1. UNCHANGED task /\ stop = "idle" /\ stop' \in {"cut", "reader"}
    BY <1>5 DEF StopBegins
  <2>2. start' \in {"over", "failed", "cancelled"}
    BY <1>5 DEF StopBegins
  <2>3. stop' = "cut" => awaited' \in Sockets
    BY <1>5 DEF StopBegins
  <2> QED
    BY <2>1, <2>2, <2>3 DEF Order, ThenFits
<1>6. CASE StopCancels \/ StopCloses
  BY <1>6 DEF StopCancels, StopCloses, Order, ThenFits
<1>7. CASE Reports
  <2>1. PICK t \in Tasks, then \in Thens : Reporting(t, then)
    BY <1>7 DEF Reports
  <2>2. UNCHANGED <<start, awaited>>
    BY <2>1 DEF Reporting
  <2>3. stop' # "cut" /\ (stop' # "idle" => stop # "idle")
    BY <2>1, OutcomeIs DEF After, Reporting
  <2>4. \A s \in Sockets : task'[s].then # "stop"
    BY <1>0, <2>1, OutcomeIs DEF Order, ThenFits, Reporting
  <2>5. task'[Stop].at # "reading"
    BY <1>0, <2>1, OutcomeIs DEF Order, ThenFits
  <2>6. task'[Stop].at \in Busy => task'[Stop].then = "stop" /\ stop' = "emit"
    <3>1. CASE t = Stop
      BY <1>0, <2>1, <3>1, OutcomeIs DEF Reporting, Busy
    <3>2. CASE t # Stop
      BY <1>0, <2>1, <3>2, OutcomeIs DEF Order, ThenFits
    <3> QED
      BY <3>1, <3>2
  <2> QED
    BY <2>2, <2>3, <2>4, <2>5, <2>6 DEF Order, ThenFits
<1>8. ASSUME NEW s \in Sockets, Takes(s) \/ ServerStep(s)
      PROVE  UNCHANGED <<start, stop, task, awaited>>
  BY <1>8 DEF Takes, ReadsCreated, ReadsAudio, ReadsCall, Ignores, Reads, ServerStep, Server,
              Speaks, CallsTool, EndsResponse, HearsSpeech, AnswersSpeech, Loses
<1>9. VadFallback \/ TimerTask \/ ToolTask \/ EngineCancels \/ CallerHangsUp
      => UNCHANGED <<start, stop, task, awaited>>
  BY DEF VadFallback, TimerTask, TimesOut, TimeoutHangsUp, ToolTask, ToolRuns, ToolAsksFarewell,
         EngineCancels, CallerHangsUp
<1> QED
  BY <1>1, <1>2, <1>3, <1>4, <1>5, <1>6, <1>7, <1>8, <1>9, Steps
-----------------------------------------------------------------------------
(* Until the session is stopped *)

(* The steps that open no websocket, start no loop and end no report. *)
Leaves ==
  /\ UNCHANGED <<ws, task, rc, start, left>>
  /\ \A s \in Sockets : \/ sock'[s] = sock[s]
                        \/ sock[s] = "open" /\ sock'[s] # "open" /\ sock'[s] # "new"

LEMMA LeavesIs ==
  ASSUME Idle, stop = "idle", Leaves
  PROVE  Idle'
<1>1. \A s \in Sockets : /\ sock'[s] = "new" => sock[s] = "new"
                         /\ sock'[s] = "open" => sock[s] = "open"
  BY DEF Leaves
<1>2. UNCHANGED <<ws, task, rc, start, left>>
  BY DEF Leaves
<1>3. OneInUse' /\ FromNothing'
  BY <1>1, <1>2 DEF Idle, OneInUse, FromNothing, NoLoop, Live
<1>4. Starting' /\ NotDeaf'
  BY <1>2 DEF Idle, Starting, NotDeaf, Live
<1> QED
  BY <1>3, <1>4 DEF Idle

(* The first new websocket opens where no loop runs; one that is still open is left. *)
LEMMA OpensIs ==
  ASSUME TypeOK, OneInUse, NoLoop, Opens, UNCHANGED task
  PROVE  OneInUse' /\ NoLoop' /\ ws' # 0
<1>1. PICK s \in Fresh : /\ \A u \in Fresh : s <= u
                         /\ sock' = [sock EXCEPT ![s] = "open"] /\ ws' = s
  BY DEF Opens
<1>2. s \in Sockets /\ sock[s] = "new" /\ ws < s /\ s # 0 /\ s \in Int
  BY <1>1, RealtimeAssumption DEF Fresh, OneInUse, Sockets
<1>3. ws \in Int /\ Sockets \subseteq Int
  BY RealtimeAssumption DEF TypeOK, Sockets
<1>4. sock'[s] = "open" /\ \A u \in Sockets \ {s} : sock'[u] = sock[u]
  BY <1>1, <1>2 DEF TypeOK
<1>5. ASSUME NEW u \in Sockets
      PROVE  /\ sock'[u] = "new" => ws' < u
             /\ sock'[u] = "open" => u = ws' \/ u \in left'
             /\ task'[u].at # "none" => u <= ws'
             /\ Live(u)' => u = ws'
  <2>1. sock'[u] = "new" => ws' < u
    BY <1>1, <1>2, <1>3, <1>4 DEF Fresh
  <2>2. sock'[u] = "open" => u = ws' \/ u \in left'
    <3>1. left' = left \cup {v \in {ws} : IsOpen /\ ~Live(v)}
      BY DEF Opens
    <3>2. ~(0 \in Sockets)
      BY DEF Sockets
    <3> QED
      BY <1>1, <1>4, <3>1, <3>2 DEF OneInUse, NoLoop, IsOpen
  <2>3. task'[u].at # "none" => u <= ws'
    BY <1>1, <1>2, <1>3 DEF OneInUse
  <2>4. ~Live(u)'
    BY DEF NoLoop, Live
  <2> QED
    BY <2>1, <2>2, <2>3, <2>4
<1>6. OneInUse'
  BY <1>5 DEF OneInUse
<1>7. NoLoop'
  BY DEF NoLoop, Live
<1> QED
  BY <1>1, <1>2, <1>6, <1>7

(* A loop starts on the websocket in use. *)
LEMMA LoopStarts ==
  ASSUME TypeOK, OneInUse, NoLoop, ws # 0, UNCHANGED <<ws, sock, left>>,
         task' = [task EXCEPT ![ws] = TaskAt("reading")]
  PROVE  OneInUse' /\ Live(ws)'
<1>1. ws \in Sockets /\ ws \in Int /\ ws \in Tasks
  BY RealtimeAssumption DEF TypeOK, Sockets
<1>2. task'[ws] = [at |-> "reading", then |-> "read"] /\ \A u \in Sockets \ {ws} : task'[u] = task[u]
  BY <1>1 DEF TypeOK, TaskAt
<1>3. Live(ws)'
  BY <1>2 DEF Live
<1>4. ASSUME NEW u \in Sockets
      PROVE  /\ sock'[u] = "new" => ws' < u
             /\ sock'[u] = "open" => u = ws' \/ u \in left'
             /\ task'[u].at # "none" => u <= ws'
             /\ Live(u)' => u = ws'
  <2>1. CASE u = ws
    BY <1>1, <1>2, <2>1 DEF OneInUse
  <2>2. CASE u # ws
    BY <1>2, <2>2 DEF OneInUse, Live
  <2> QED
    BY <2>1, <2>2
<1> QED
  BY <1>3, <1>4 DEF OneInUse

LEMMA IdleStart ==
  ASSUME TypeOK, Order, Idle, StartTask, stop' = "idle"
  PROVE  Idle'
<1>0. stop = "idle" /\ OneInUse /\ FromNothing /\ Starting
  BY DEF StartTask, Connects, Configures, StartsToRead, StartFails, Acknowledged, Greets, Idle
<1>1. CASE Connects
  <2>1. NoLoop
    BY <1>0, <1>1 DEF Connects, Starting, NoLoop, Live
  <2>3. OneInUse' /\ NoLoop' /\ ws' # 0
    BY <1>0, <1>1, <2>1, OpensIs DEF Connects
  <2>4. rc' = rc /\ rc.at = "idle" /\ start' = "created" /\ task' = task
    BY <1>0, <1>1 DEF Connects, Starting
  <2>5. Starting'
    BY <1>0, <1>1, <2>3, <2>4 DEF Starting, Connects
  <2> QED
    BY <2>3, <2>4, <2>5 DEF Idle, FromNothing, NotDeaf
<1>2. CASE Configures \/ StartFails
  <2>1. /\ UNCHANGED <<ws, task, rc, sock, left>> /\ start \in {"connect", "created", "update"}
        /\ start' \in {"update", "failed"} /\ (start' = "update" => start = "created")
    BY <1>2 DEF Configures, StartFails
  <2>2. OneInUse' /\ FromNothing'
    BY <1>0, <2>1 DEF OneInUse, FromNothing, NoLoop, Live
  <2>3. rc'.at = "idle" /\ \A s \in Sockets : task'[s].at = "none"
    BY <1>0, <2>1 DEF Starting
  <2>4. start' = "update" => ws' # 0
    BY <1>0, <2>1 DEF Starting
  <2>5. Starting' /\ NotDeaf'
    BY <2>1, <2>3, <2>4 DEF Starting, NotDeaf
  <2> QED
    BY <2>2, <2>5 DEF Idle
<1>3. CASE StartsToRead
  <2>1. NoLoop /\ ws # 0 /\ rc.at = "idle" /\ UNCHANGED <<ws, sock, rc, left>> /\ start' = "ack"
    BY <1>0, <1>3 DEF StartsToRead, Starting, NoLoop, Live
  <2>2. OneInUse' /\ Live(ws)'
    BY <1>0, <1>3, <2>1, LoopStarts DEF StartsToRead
  <2> QED
    BY <2>1, <2>2 DEF Idle, FromNothing, Starting, NotDeaf, Live
<1>4. CASE Acknowledged \/ Greets
  <2>1. /\ UNCHANGED <<ws, task, rc, sock, left>> /\ start \in {"ack", "quiet"}
        /\ start' \in {"quiet", "over"}
    BY <1>4 DEF Acknowledged, Greets
  <2>2. OneInUse' /\ FromNothing'
    BY <1>0, <2>1 DEF OneInUse, FromNothing, NoLoop, Live
  <2>3. Starting' /\ NotDeaf'
    BY <1>0, <2>1 DEF Starting, Idle, NotDeaf, Live
  <2> QED
    BY <2>2, <2>3 DEF Idle
<1> QED
  BY <1>1, <1>2, <1>3, <1>4 DEF StartTask

LEMMA IdleRetry ==
  ASSUME TypeOK, Order, Idle, RetryTask, stop' = "idle"
  PROVE  Idle'
<1>0. /\ stop = "idle" /\ OneInUse /\ FromNothing /\ Starting /\ NotDeaf
      /\ UNCHANGED start
      /\ rc.at \in {"connect", "update", "sleep"} /\ NoLoop
      /\ start \notin {"connect", "created", "update", "failed"}
  <2>1. /\ stop = "idle" /\ UNCHANGED start /\ rc.at \in {"connect", "update", "sleep"}
    BY DEF RetryTask, Reconnects, ConnectFails, Restarts, UpdateFails, BacksOff
  <2> QED
    BY <2>1 DEF Idle, FromNothing, Starting
<1>1. CASE Reconnects
  <2>1. rc.at = "connect" /\ rc'.at = "update" /\ Opens /\ UNCHANGED <<task, start>>
    BY <1>1 DEF Reconnects, TypeOK
  <2>2. OneInUse' /\ NoLoop' /\ ws' # 0
    BY <1>0, <2>1, OpensIs DEF FromNothing
  <2> QED
    BY <1>0, <2>1, <2>2 DEF Idle, FromNothing, Starting, NotDeaf
<1>2. CASE ConnectFails \/ UpdateFails
  <2>1. UNCHANGED <<ws, task, sock, left>> /\ rc'.at = "sleep"
    BY <1>2 DEF ConnectFails, UpdateFails, TypeOK
  <2>3. OneInUse' /\ NoLoop'
    BY <1>0, <2>1 DEF OneInUse, NoLoop, Live
  <2> QED
    BY <1>0, <2>1, <2>3 DEF Idle, FromNothing, Starting, NotDeaf
<1>3. CASE Restarts
  <2>1. UNCHANGED <<ws, sock, left>> /\ rc'.at = "over"
    BY <1>3 DEF Restarts
  <2>2. CASE ws = 0
    <3>1. task' = task /\ OneInUse'
      BY <1>0, <1>3, <2>1, <2>2 DEF Restarts, OneInUse, Live
    <3>2. start \notin {"ack", "quiet", "over"}
      BY <1>0, <2>2 DEF Starting
    <3> QED
      BY <1>0, <2>1, <3>1, <3>2 DEF Idle, FromNothing, Starting, NotDeaf
  <2>3. CASE ws # 0
    <3>1. OneInUse' /\ Live(ws)'
      BY <1>0, <1>3, <2>1, <2>3, LoopStarts DEF Restarts
    <3> QED
      BY <1>0, <2>1, <2>3, <3>1 DEF Idle, FromNothing, Starting, NotDeaf, Live
  <2> QED
    BY <2>2, <2>3
<1>4. CASE BacksOff
  <2>1. UNCHANGED <<ws, task, sock, left>> /\ rc.at = "sleep" /\ rc'.at \in {"connect", "givenup"}
    BY <1>0, <1>4 DEF BacksOff, Retry, Closing, Closed
  <2>2. OneInUse' /\ NoLoop'
    BY <1>0, <2>1 DEF OneInUse, NoLoop, Live, FromNothing
  <2> QED
    BY <1>0, <2>1, <2>2 DEF Idle, FromNothing, Starting, NotDeaf
<1> QED
  BY <1>1, <1>2, <1>3, <1>4 DEF RetryTask

LEMMA IdleReport ==
  ASSUME TypeOK, Order, Idle, NEW t \in Tasks, NEW then \in Thens, Reporting(t, then),
         stop' = "idle"
  PROVE  Idle'
<1>0. stop = "idle" /\ OneInUse /\ FromNothing /\ Starting /\ NotDeaf
  BY OutcomeIs DEF Idle, After, Reporting
<1>1. /\ t \in Sockets /\ then # "stop" /\ Live(t) /\ UNCHANGED <<sock, start, ws, left>>
  BY <1>0, OutcomeIs DEF Reporting
<1>2. /\ t = ws /\ rc.at \notin {"connect", "update", "sleep"}
      /\ start \notin {"connect", "created", "update", "failed"}
      /\ \A u \in Sockets \ {t} : ~Live(u)
  BY <1>0, <1>1 DEF OneInUse, FromNothing, NoLoop, Starting, Live
<1>3. task'[t].at # "none" /\ \A u \in Sockets \ {t} : task'[u] = task[u]
  BY <1>1, OutcomeIs DEF Busy
<1>4. OneInUse'
  BY <1>0, <1>1, <1>2, <1>3 DEF OneInUse, Live
<1>5. rc' = rc \/ (NoLoop' /\ rc'.at = "connect")
  <2>1. ASSUME rc' # rc
        PROVE  then = "end" /\ rc'.at = "connect"
    BY <2>1, OutcomeIs
  <2>2. then = "end" /\ rc' # rc => task'[t].at = "over"
    BY DEF Reporting, Outcome, Waits, GoesOn, LoopEnds, StopEnds, TypeOK
  <2>3. rc' # rc => NoLoop'
    BY <1>2, <1>3, <2>1, <2>2 DEF NoLoop, Live
  <2> QED
    BY <2>1, <2>3
<1>6. Live(t)' \/ rc'.at \in {"connect", "givenup"}
  <2>1. CASE task'[t].at = "over"
    <3>1. LoopEnds(t, then)
      BY <1>1, <2>1 DEF Reporting, Outcome, Waits, GoesOn, LoopEnds, StopEnds, TypeOK, Busy
    <3>2. Reconnectable
      BY <1>0, <1>2 DEF Reconnectable, Closing, Closed, MayReconnect, TypeOK
    <3> QED
      BY <3>1, <3>2 DEF LoopEnds
  <2>2. CASE task'[t].at # "over"
    BY <1>3, <2>2 DEF Live
  <2> QED
    BY <2>1, <2>2
<1>7. FromNothing' /\ Starting'
  BY <1>0, <1>1, <1>2, <1>5 DEF FromNothing, Starting
<1>8. NotDeaf'
  BY <1>0, <1>1, <1>2, <1>6 DEF NotDeaf, Starting
<1> QED
  BY <1>4, <1>7, <1>8 DEF Idle

LEMMA IdleStep == TypeOK /\ Order /\ Idle /\ [Next]_vars => Idle'
<1> SUFFICES ASSUME TypeOK, Order, Idle, [Next]_vars, stop' = "idle" PROVE Idle'
  BY DEF Idle
<1>1. CASE StartTask
  BY <1>1, IdleStart
<1>2. CASE RetryTask
  BY <1>2, IdleRetry
<1>3. CASE Reports
  BY <1>3, IdleReport DEF Reports
<1>4. CASE StopBegins \/ StopCancels \/ StopCloses
  BY <1>4 DEF StopBegins, StopCancels, StopCloses
<1>5. CASE VadFallback \/ TimerTask \/ ToolTask \/ EngineCancels \/ CallerHangsUp
  <2>1. Leaves /\ stop = "idle"
    BY <1>5 DEF VadFallback, TimerTask, TimesOut, TimeoutHangsUp, ToolTask, ToolRuns,
                ToolAsksFarewell, EngineCancels, CallerHangsUp, Leaves
  <2> QED
    BY <2>1, LeavesIs
<1>6. ASSUME NEW s \in Sockets, Takes(s) \/ ServerStep(s) PROVE Idle'
  <2>1. UNCHANGED <<ws, task, rc, start, stop, left>>
    BY <1>6 DEF Takes, ReadsCreated, ReadsAudio, ReadsCall, Ignores, Reads, ServerStep, Server,
                Speaks, CallsTool, EndsResponse, HearsSpeech, AnswersSpeech, Loses
  <2>2. sock' = sock \/ (sock[s] = "open" /\ sock' = [sock EXCEPT ![s] = "lost"])
    BY <1>6 DEF Takes, ReadsCreated, ReadsAudio, ReadsCall, Ignores, Reads, ServerStep, Server,
                Speaks, CallsTool, EndsResponse, HearsSpeech, AnswersSpeech, Loses, InUse
  <2>3. Leaves
    BY <2>1, <2>2 DEF Leaves, TypeOK
  <2> QED
    BY <2>1, <2>3, LeavesIs
<1>7. CASE UNCHANGED vars
  <2>1. Leaves /\ stop = "idle"
    BY <1>7 DEF vars, Leaves
  <2> QED
    BY <2>1, LeavesIs
<1> QED
  BY <1>1, <1>2, <1>3, <1>4, <1>5, <1>6, <1>7, Steps
-----------------------------------------------------------------------------
(* While the session is being stopped *)

LEMMA StoppingReport ==
  ASSUME TypeOK, Order, Idle, Stopping, Reports, stop' # "idle", ~overlap'
  PROVE  Stopping'
<1>0. PICK t \in Tasks, then \in Thens : Reporting(t, then)
  BY DEF Reports
<1>1. UNCHANGED <<awaited, tool, vadTask, overlap, left, sock>> /\ timer' \in {timer, "off"}
  BY <1>0 DEF Reporting, Fields
<1>2. stop # "idle"
  BY <1>0, OutcomeIs
<1>3. rc' = rc
  BY <1>0, <1>2, OutcomeIs DEF Reconnectable, Closing, Closed, TypeOK
<1>4. /\ rc.at \notin {"connect", "update"}
      /\ \A s \in Sockets : sock[s] = "open" => s = ws \/ s \in left
  BY <1>1, <1>2 DEF Stopping
<1>5. CASE t = Stop
  <2>1. /\ stop \in {"tasks", "close", "emit"} /\ (stop = "tasks" => ~IsOpen)
        /\ stop' \in {"emit", "over"} /\ \A s \in Sockets : task'[s] = task[s]
    BY <1>0, <1>5, OutcomeIs, RealtimeAssumption DEF Reporting, Sockets
  <2>2. NoLoop /\ timer = "off" /\ ~vadTask /\ tool \in {"none", "over"}
    BY <1>1, <1>2, <2>1 DEF Stopping
  <2>3. NoneOpen
    <3>1. ~(0 \in Sockets)
      BY DEF Sockets
    <3> QED
      BY <1>1, <1>2, <1>4, <2>1, <3>1 DEF Stopping, NoneOpen, IsOpen
  <2>4. NoLoop' /\ NoneOpen'
    BY <1>1, <2>1, <2>2, <2>3 DEF NoLoop, NoneOpen, Live
  <2> QED
    BY <1>1, <1>3, <1>4, <2>1, <2>2, <2>4 DEF Stopping, NoneOpen
<1>6. CASE t # Stop
  <2>1. t \in Sockets /\ (Live(t) \/ (stop = "cut" /\ t = awaited))
    BY <1>0, <1>6 DEF Reporting
  <2>2. stop \in {"cut", "reader"}
    BY <1>1, <1>2, <2>1 DEF Stopping, NoLoop, TypeOK
  <2>3. stop' = "reader" /\ ws' = ws
    BY <1>0, <1>6, <2>2, OutcomeIs
  <2>4. t = awaited /\ \A s \in Sockets \ {t} : ~Live(s)
    BY <1>1, <1>2, <2>1, <2>2 DEF Stopping
  <2>5. \A s \in Sockets \ {t} : task'[s] = task[s]
    BY <1>0, OutcomeIs
  <2>6. \A s \in Sockets : Live(s)' => s = awaited'
    BY <1>1, <2>4, <2>5 DEF Live
  <2> QED
    BY <1>1, <1>3, <1>4, <2>3, <2>6 DEF Stopping
<1> QED
  BY <1>5, <1>6

LEMMA StoppingBegins ==
  ASSUME TypeOK, Idle, StopBegins, ~overlap'
  PROVE  Stopping'
<1>1. /\ stop = "idle" /\ stop' \in {"cut", "reader"} /\ UNCHANGED <<ws, rc, sock, task, left>>
      /\ rc.at \notin {"connect", "update"} /\ OneInUse
  BY DEF StopBegins, Idle
<1>2. ASSUME NEW s \in Sockets, Live(s)
      PROVE  s = awaited'
  <2>1. s = ws /\ task[s].at # "none"
    BY <1>1, <1>2 DEF OneInUse, Live
  <2>2. Reader(s)
    BY <1>1, <2>1 DEF Reader, OneInUse
  <2>3. PICK u \in Sockets : Reader(u) /\ Live(u) /\ awaited' = u
    BY <1>2, <2>2 DEF StopBegins
  <2>4. u = ws
    BY <1>1, <2>3 DEF OneInUse
  <2> QED
    BY <2>1, <2>3, <2>4
<1>3. \A s \in Sockets : Live(s)' => s = awaited'
  BY <1>1, <1>2 DEF Live
<1> QED
  BY <1>1, <1>3 DEF Stopping, OneInUse

LEMMA StoppingStep == TypeOK /\ Order /\ Idle /\ Stopping /\ [Next]_vars => Stopping'
<1> SUFFICES ASSUME TypeOK, Order, Idle, Stopping, [Next]_vars, stop' # "idle", ~overlap'
             PROVE  Stopping'
  BY DEF Stopping
<1>0. /\ ~(0 \in Sockets)
      /\ start \in {"over", "failed", "cancelled"} \/ stop = "idle"
  BY DEF Sockets, Order
<1>1. CASE /\ stop # "idle" /\ UNCHANGED <<stop, task, ws, rc, awaited, overlap, left>>
           /\ \A s \in Sockets : sock'[s] = "open" => sock[s] = "open"
           /\ stop \in {"tasks", "close", "emit", "over"} =>
                timer' = "off" /\ ~vadTask' /\ tool' \in {"none", "over"}
  <2>1. /\ rc.at \notin {"connect", "update"}
        /\ \A s \in Sockets : sock[s] = "open" => s = ws \/ s \in left
        /\ stop \in {"cut", "reader"} => \A s \in Sockets : Live(s) => s = awaited
        /\ stop \in {"tasks", "close", "emit", "over"} => NoLoop
        /\ stop \in {"close", "emit", "over"} => NoneOpen
    BY <1>1 DEF Stopping
  <2>2. /\ \A s \in Sockets : Live(s)' = Live(s)
        /\ NoLoop => NoLoop'
        /\ NoneOpen => NoneOpen'
    BY <1>1 DEF Live, NoLoop, NoneOpen
  <2> QED
    BY <1>1, <2>1, <2>2 DEF Stopping
<1>2. stop # "idle" /\ ~overlap /\ stop \in {"tasks", "close", "emit", "over"} =>
        NoLoop /\ timer = "off" /\ ~vadTask /\ tool \in {"none", "over"}
  BY DEF Stopping
<1>3. CASE Reports
  BY <1>3, StoppingReport
<1>4. CASE StopBegins
  BY <1>4, StoppingBegins
<1>5. CASE StartTask
  BY <1>0, <1>5 DEF StartTask, Connects, Configures, StartsToRead, StartFails, Acknowledged, Greets
<1>6. CASE VadFallback \/ TimerTask \/ ToolTask \/ EngineCancels \/ CallerHangsUp
  <2>1. UNCHANGED <<stop, task, ws, rc, awaited, overlap, left, sock>>
    BY <1>6 DEF VadFallback, TimerTask, TimesOut, TimeoutHangsUp, ToolTask, ToolRuns,
                ToolAsksFarewell, EngineCancels, CallerHangsUp
  <2>2. /\ timer = "off" => timer' = "off"
        /\ ~vadTask => ~vadTask'
        /\ tool \in {"none", "over"} => tool' \in {"none", "over"}
    BY <1>6 DEF VadFallback, TimerTask, TimesOut, TimeoutHangsUp, ToolTask, ToolRuns,
                ToolAsksFarewell, EngineCancels, CallerHangsUp
  <2>3. stop # "idle" /\ ~overlap
    BY <2>1
  <2>4. stop \in {"tasks", "close", "emit", "over"} =>
          timer' = "off" /\ ~vadTask' /\ tool' \in {"none", "over"}
    BY <1>2, <2>2, <2>3
  <2>5. \A s \in Sockets : sock'[s] = "open" => sock[s] = "open"
    BY <2>1
  <2>6. UNCHANGED <<stop, task, ws, rc, awaited, overlap, left>>
    BY <2>1
  <2> QED
    BY <1>1, <2>3, <2>4, <2>5, <2>6
<1>7. CASE RetryTask
  <2>1. UNCHANGED <<stop, awaited, timer, vadTask, tool>> /\ ~overlap
    <3>1. CASE Reconnects
      BY <3>1 DEF Reconnects, Opens
    <3>2. CASE ConnectFails \/ UpdateFails \/ BacksOff
      BY <3>2 DEF ConnectFails, UpdateFails, BacksOff
    <3>3. CASE Restarts
      BY <3>3 DEF Restarts
    <3> QED
      BY <1>7, <3>1, <3>2, <3>3 DEF RetryTask
  <2>2. stop # "idle" /\ rc.at \notin {"connect", "update"}
    BY <2>1 DEF Stopping
  <2>3. BacksOff
    BY <1>7, <2>2 DEF RetryTask, Reconnects, ConnectFails, Restarts, UpdateFails
  <2>4. rc'.at = "over" /\ UNCHANGED <<ws, task, sock, overlap, left>>
    BY <2>2, <2>3 DEF BacksOff, Retry, Closing, Closed, TypeOK
  <2> QED
    BY <2>1, <2>2, <2>4 DEF Stopping, NoLoop, NoneOpen, Live
<1>8. CASE StopCancels
  <2>1. /\ stop = "reader" /\ (awaited = 0 \/ ~Live(awaited)) /\ timer' = "off" /\ ~vadTask'
        /\ tool' \in {"none", "over"} /\ stop' = "tasks"
        /\ UNCHANGED <<ws, rc, sock, task, overlap, left>>
    BY <1>8 DEF StopCancels
  <2>2. NoLoop
    BY <1>0, <2>1 DEF Stopping, NoLoop
  <2> QED
    BY <2>1, <2>2 DEF Stopping, NoLoop, NoneOpen, Live
<1>9. CASE StopCloses
  <2>1. /\ stop = "tasks" /\ stop' = "close" /\ UNCHANGED <<ws, rc, task, overlap, left, timer, vadTask, tool>>
        /\ ws \in Sockets /\ sock' = [sock EXCEPT ![ws] = "closed"]
    BY <1>9 DEF StopCloses, IsOpen, TypeOK
  <2>2. NoneOpen'
    BY <2>1 DEF Stopping, NoneOpen, TypeOK
  <2> QED
    BY <2>1, <2>2 DEF Stopping, NoLoop, NoneOpen, Live
<1>10. ASSUME NEW s \in Sockets, Takes(s) PROVE Stopping'
  <2>1. /\ UNCHANGED <<stop, task, ws, rc, awaited, overlap, left, sock, vadTask>>
        /\ (UNCHANGED <<timer, tool>>) \/ Live(s)
    BY <1>10 DEF Takes, ReadsCreated, ReadsAudio, ReadsCall, Ignores, Reads, Live
  <2>2. stop \in {"tasks", "close", "emit", "over"} => UNCHANGED <<timer, tool>>
    BY <1>2, <2>1 DEF NoLoop
  <2> QED
    BY <1>1, <1>2, <2>1, <2>2
<1>11. ASSUME NEW s \in Sockets, ServerStep(s) PROVE Stopping'
  <2>1. UNCHANGED <<stop, task, ws, rc, awaited, overlap, left, vadTask, timer, tool>>
    BY <1>11 DEF ServerStep, Server, Speaks, CallsTool, EndsResponse, HearsSpeech, AnswersSpeech,
                 Loses
  <2>2. sock' = sock \/ sock' = [sock EXCEPT ![s] = "lost"]
    BY <1>11 DEF ServerStep, Server, Speaks, CallsTool, EndsResponse, HearsSpeech, AnswersSpeech,
                 Loses
  <2>3. \A u \in Sockets : sock'[u] = "open" => sock[u] = "open"
    BY <2>2 DEF TypeOK
  <2> QED
    BY <1>1, <1>2, <2>1, <2>3
<1>12. CASE UNCHANGED vars
  BY <1>12, <1>1, <1>2 DEF vars
<1> QED
  BY <1>3, <1>4, <1>5, <1>6, <1>7, <1>8, <1>9, <1>10, <1>11, <1>12, Steps
-----------------------------------------------------------------------------
(* Until the tool asks for it *)

LEMMA QuietStep == TypeOK /\ Order /\ Idle /\ Quiet /\ [Next]_vars => Quiet'
<1> SUFFICES ASSUME TypeOK, Order, Idle, Quiet, [Next]_vars, ~asked' PROVE Quiet'
  BY DEF Quiet
<1>0. asked = FALSE
  <2>1. asked' = asked \/ asked' = TRUE
    <3>1. CASE Reports
      BY <3>1 DEF Reports, Reporting
    <3>2. CASE UNCHANGED vars
      BY <3>2 DEF vars
    <3>3. ASSUME NEW s \in Sockets, Takes(s) \/ ServerStep(s) PROVE asked' = asked
      BY <3>3 DEF Takes, ReadsCreated, ReadsAudio, ReadsCall, Ignores, Reads, ServerStep, Server,
                  Speaks, CallsTool, EndsResponse, HearsSpeech, AnswersSpeech, Loses
    <3>4. CASE StartTask \/ VadFallback \/ TimerTask \/ ToolTask \/ RetryTask
      BY <3>4 DEF StartTask, Connects, Configures, StartsToRead, StartFails, Acknowledged, Greets,
                  VadFallback, TimerTask, TimesOut, TimeoutHangsUp, ToolTask, ToolRuns,
                  ToolAsksFarewell, RetryTask, Reconnects, ConnectFails, Restarts, UpdateFails,
                  BacksOff
    <3>5. CASE StopBegins \/ StopCancels \/ StopCloses \/ EngineCancels \/ CallerHangsUp
      BY <3>5 DEF StopBegins, StopCancels, StopCloses, EngineCancels, CallerHangsUp
    <3> QED
      BY <3>1, <3>2, <3>3, <3>4, <3>5, Steps
  <2> QED
    BY <2>1 DEF TypeOK
<1>1. /\ ~me.hangupAfter /\ me.farewellId = NoId /\ timer = "off"
      /\ \A t \in Tasks : task[t].at \notin Busy
      /\ endedBy # "engine"
  BY <1>0 DEF Quiet
<1>2. CASE /\ timer' = "off" /\ endedBy' # "engine"
           /\ me'.hangupAfter = me.hangupAfter /\ me'.farewellId = me.farewellId
           /\ \A t \in Tasks : task'[t].at \in Busy => task[t].at \in Busy
  BY <1>1, <1>2 DEF Quiet
<1>3. CASE Reports
  <2>1. PICK t \in Tasks, then \in Thens : Reporting(t, then)
    BY <1>3 DEF Reports
  <2>2. UNCHANGED endedBy
    BY <1>1, <2>1 DEF Reporting
  <2>3. /\ ~me'.hangupAfter /\ me'.farewellId = NoId /\ timer' = "off"
        /\ task'[t].at \notin Busy
    BY <1>0, <1>1, <2>1 DEF Reporting, Fields
  <2>4. \A u \in Tasks \ {t} : task'[u] = task[u]
    BY <2>1, OutcomeIs
  <2> QED
    BY <1>1, <2>2, <2>3, <2>4 DEF Quiet
<1>4. CASE StartTask \/ RetryTask
  <2>1. UNCHANGED <<timer, endedBy>>
    BY <1>4 DEF StartTask, Connects, Configures, StartsToRead, StartFails, Acknowledged, Greets,
                RetryTask, Reconnects, ConnectFails, Restarts, UpdateFails, BacksOff
  <2>2. me'.hangupAfter = me.hangupAfter /\ me'.farewellId = me.farewellId
    BY <1>4 DEF StartTask, Connects, Configures, StartsToRead, StartFails, Acknowledged, Greets,
                RetryTask, Reconnects, ConnectFails, Restarts, UpdateFails, BacksOff, TypeOK
  <2>3. task' = task \/ task' = [task EXCEPT ![ws] = [at |-> "reading", then |-> "read"]]
    BY <1>4 DEF StartTask, Connects, Configures, StartsToRead, StartFails, Acknowledged, Greets,
                RetryTask, Reconnects, ConnectFails, Restarts, UpdateFails, BacksOff, TaskAt
  <2>4. \A t \in Tasks : task'[t].at \in Busy => task[t].at \in Busy
    <3>1. Loops /\ ws \in Tasks
      BY TypeParts DEF Control
    <3> QED
      BY <2>3, <3>1 DEF Loops, Busy
  <2> QED
    BY <1>1, <1>2, <2>1, <2>2, <2>4
<1>5. CASE VadFallback \/ EngineCancels
  <2>1. UNCHANGED <<timer, endedBy, task>>
    BY <1>5 DEF VadFallback, EngineCancels
  <2>2. me'.hangupAfter = me.hangupAfter /\ me'.farewellId = me.farewellId
    BY <1>5 DEF VadFallback, EngineCancels, TypeOK
  <2> QED
    BY <1>1, <1>2, <2>1, <2>2
<1>6. CASE ToolTask
  <2>1. ToolAsksFarewell
    BY <1>6 DEF ToolTask, ToolRuns
  <2>2. UNCHANGED <<timer, endedBy, task>>
    BY <2>1 DEF ToolAsksFarewell
  <2>3. me'.hangupAfter = me.hangupAfter /\ me'.farewellId = me.farewellId
    BY <2>1 DEF ToolAsksFarewell, TypeOK
  <2> QED
    BY <1>1, <1>2, <2>2, <2>3
<1>7. CASE TimerTask
  BY <1>1, <1>7 DEF TimerTask, TimesOut, TimeoutHangsUp
<1>8. CASE StopBegins \/ StopCancels \/ StopCloses \/ CallerHangsUp
  BY <1>1, <1>2, <1>8 DEF StopBegins, StopCancels, StopCloses, CallerHangsUp
<1>9. ASSUME NEW s \in Sockets, Takes(s) PROVE Quiet'
  <2>1. UNCHANGED <<endedBy, task>>
    BY <1>9 DEF Takes, ReadsCreated, ReadsAudio, ReadsCall, Ignores, Reads
  <2>2. timer' = timer
    BY <1>1, <1>9 DEF Takes, ReadsCreated, ReadsAudio, ReadsCall, Ignores, Reads, TimerOf
  <2>3. me'.hangupAfter = me.hangupAfter /\ me'.farewellId = me.farewellId
    <3>1. CASE ReadsCreated(s)
      <4> DEFINE r == Head(inbox[s])[2]
                 x == [me EXCEPT !.current = r, !.seen = @ \ {r}]
      <4>1. me \in Session
        BY TypeParts
      <4>3. x.hangupAfter = me.hangupAfter /\ x.farewellId = me.farewellId
        BY <4>1 DEF Session
      <4>4. me' = x \/ me' = [x EXCEPT !.greetingId = r]
        BY <1>1, <3>1, <4>3 DEF ReadsCreated
      <4>5. [x EXCEPT !.greetingId = r].hangupAfter = x.hangupAfter
            /\ [x EXCEPT !.greetingId = r].farewellId = x.farewellId
        BY <4>1 DEF Session
      <4> QED
        BY <4>3, <4>4, <4>5
    <3>2. CASE ReadsAudio(s)
      BY <3>2 DEF ReadsAudio, TypeOK
    <3>3. CASE ReadsCall(s) \/ Ignores(s)
      BY <3>3 DEF ReadsCall, Ignores
    <3> QED
      BY <1>9, <3>1, <3>2, <3>3 DEF Takes
  <2> QED
    BY <1>1, <1>2, <2>1, <2>2, <2>3
<1>10. ASSUME NEW s \in Sockets, ServerStep(s) PROVE Quiet'
  <2>1. UNCHANGED <<timer, endedBy, me, task>>
    BY <1>10 DEF ServerStep, Server, Speaks, CallsTool, EndsResponse, HearsSpeech, AnswersSpeech,
                 Loses
  <2> QED
    BY <1>1, <1>2, <2>1
<1>11. CASE UNCHANGED vars
  BY <1>1, <1>2, <1>11 DEF vars
<1> QED
  BY <1>3, <1>4, <1>5, <1>6, <1>7, <1>8, <1>9, <1>10, <1>11, Steps
-----------------------------------------------------------------------------
LEMMA InitHolds == Init => IInv
<1> SUFFICES ASSUME Init PROVE IInv
  OBVIOUS
<1>1. 0 \in 0..MaxTries /\ 0 \in 0..MaxResponses /\ 0 \in 0..MaxInterruptions
  BY RealtimeAssumption
<1>2. TypeOK
  <2>1. Control
    BY <1>1 DEF Init, Control
  <2>2. Loops /\ \A t \in Tasks : task[t].at = "none" /\ task[t].then = "read"
    BY DEF Init, Loops, Thens, NoTask, TaskAt
  <2>3. Wires
    <3>1. inbox \in [Sockets -> Seq(Events)]
      BY DEF Init
    <3>2. active \in [Sockets -> [id : Ids, stage : {"silent", "speaking", "spoken"}]]
      BY DEF Init, NoResponse, Ids
    <3> QED
      BY <1>1, <3>1, <3>2 DEF Init, Wires, NoCount
  <2>4. me \in Session
    BY DEF Init, NoSession, Session, Ids
  <2>5. vad \in [Sockets -> BOOLEAN]
    BY DEF Init
  <2> QED
    BY <2>1, <2>2, <2>3, <2>4, <2>5, TypeParts
<1>3. \A t \in Tasks : task[t].at = "none" /\ task[t].then = "read"
  BY DEF Init, NoTask, TaskAt
<1>4. Order /\ Stopping
  BY <1>3 DEF Init, Order, ThenFits, Stopping, Busy
<1>5. Idle
  <2>1. OneInUse
    BY <1>3, RealtimeAssumption DEF Init, OneInUse, Sockets, Live, Busy
  <2>2. FromNothing /\ Starting /\ NotDeaf
    BY <1>3 DEF Init, FromNothing, Starting, NotDeaf
  <2> QED
    BY <2>1, <2>2 DEF Idle
<1>6. Quiet
  BY <1>3 DEF Init, Quiet, NoSession, Busy
<1> QED
  BY <1>2, <1>4, <1>5, <1>6 DEF IInv

LEMMA Invariance == Spec => []IInv
<1>1. IInv /\ [Next]_vars => IInv'
  BY TypeStep, OrderStep, IdleStep, StoppingStep, QuietStep DEF IInv
<1> QED
  BY InitHolds, <1>1, PTL DEF Spec

(* Every variable of the session keeps its type. *)
THEOREM TypeCorrect == Spec => []TypeOK
<1>1. IInv => TypeOK
  BY DEF IInv
<1> QED
  BY <1>1, Invariance, PTL

(* A session that has been started and is not being stopped always has a receive loop on its
   websocket, a reconnect under way, or no attempt left: _receive_loop, however it ends, and
   _reconnect_with_backoff hand over to each other. *)
THEOREM Hears == Spec => []NotDeaf
<1>1. IInv => NotDeaf
  BY DEF IInv, Idle, NotDeaf
<1> QED
  BY <1>1, Invariance, PTL

(* The engine hangs up on its own only after hangup_call ran, whatever responses, ends of
   responses, interruptions and losses of the connection come in which order. *)
THEOREM HangsUpAsked == Spec => []NoUnaskedHangup
<1>1. IInv => NoUnaskedHangup
  BY DEF IInv, Quiet, NoUnaskedHangup, TypeOK
<1> QED
  BY <1>1, Invariance, PTL

(* Once stop_session is over no timer, tool or report of the session is left, and no
   websocket but one a reconnect replaced while it was open, unless a reconnect was
   connecting when it began. *)
THEOREM Stops == Spec => []StopIsComplete
<1>1. IInv => StopIsComplete
  <2> SUFFICES ASSUME IInv, Closed, ~overlap
               PROVE  /\ timer = "off" /\ ~vadTask /\ tool \in {"none", "over"}
                      /\ \A t \in Tasks : task[t].at \notin {"tts", "bye"}
                      /\ \A s \in Sockets : sock[s] = "open" => s \in left
    BY DEF StopIsComplete
  <2>1. timer = "off" /\ ~vadTask /\ tool \in {"none", "over"} /\ NoLoop /\ NoneOpen
    BY DEF IInv, Stopping, Closed
  <2>2. task[Stop].at \notin Busy
    BY DEF IInv, Order, ThenFits, Closed
  <2> QED
    BY <2>1, <2>2 DEF NoLoop, NoneOpen, Live, Busy
<1> QED
  BY <1>1, Invariance, PTL
=============================================================================
