---------------------------- MODULE OpenAIRealtime ----------------------------
(***************************************************************************)
(* One call's session with OpenAI Realtime:                                *)
(*   src/providers/openai_realtime.py  connect, greet, receive, say goodbye, *)
(*                   reconnect, stop                                        *)
(*   src/tools/telephony/hangup.py, src/tools/adapters/openai.py            *)
(*                   the hangup_call tool                                   *)
(*   src/engine.py   AgentAudioDone and HangupReady, which hang up after a  *)
(*                   delay, and the stop of the session when the call ends  *)
(*                                                                         *)
(* A step is the code of one task between two awaits on the network, a      *)
(* timer or another task.  The provider runs in the tasks start_session,    *)
(* one receive loop per websocket, one reconnect, the greeting's VAD         *)
(* fallback, the farewell timeout, the tool and stop_session; the engine's   *)
(* handling of an event runs inside the task that reports it.  The server is *)
(* external: a response is created, may be heard, may call the tool, and    *)
(* ends.  Abstracted: audio, transcripts, metrics, the keepalive ping, the   *)
(* egress pacer (switched off by default), formats.                         *)
(***************************************************************************)
EXTENDS Integers, Sequences, FiniteSets

CONSTANTS
  Interfaces,   (* "ga", "beta": only the latter has turn detection to switch *)
  Greetings,    (* whether a greeting is configured                           *)
  MaxSockets,   (* bound: websockets opened                                   *)
  MaxTries,     (* reconnect attempts in a row (the code has 5)               *)
  MaxResponses, (* bound: responses of the server                             *)
  MaxInterruptions, (* bound: times the caller begins to speak or the engine  *)
                (* cancels a response, as it hears him over the agent       *)
  MaxInbox,     (* bound: events of a websocket nobody has read yet           *)
  Terminals     (* how many events may tell the end of one response           *)

ASSUME RealtimeAssumption ==
  /\ Interfaces \subseteq {"ga", "beta"} /\ Greetings \subseteq BOOLEAN
  /\ MaxSockets \in Nat /\ MaxTries \in Nat \ {0} /\ MaxResponses \in Nat
  /\ MaxInterruptions \in Nat /\ MaxInbox \in Nat
  /\ Terminals \subseteq {1, 2}

Sockets   == 1..MaxSockets
Responses == 1..MaxResponses
Stop      == 0             (* stop_session, among the tasks that report audio done *)
Tasks     == Sockets \cup {Stop}
NoId      == 0

VARIABLES
  mode,      (* the configuration of this session                             *)
  call,      (* "up"; "ended": the engine's cleanup is due                    *)
  asked,     (* cleanup_after_tts of the call's session                       *)
  (* --- provider --- *)
  start,     (* start_session: "connect", "created", "update", "ack",          *)
             (* "quiet", "over", "failed", "cancelled"                        *)
  ws,        (* self.websocket, 0 for None                                    *)
  me,        (* the provider's fields, see NoSession                          *)
  task,      (* a receive loop, by its websocket, or stop_session: where it is *)
             (* ("none", "reading", "over"; "tts" or "bye" while the engine    *)
             (* hangs up) and what it does after that                         *)
  rc,        (* _reconnect_with_backoff: at "idle", "connect", "update",       *)
             (* "sleep", then "over" or "givenup"; the attempt                *)
  tool,      (* the hangup_call task: "none", "run", "result", "over"         *)
  vadTask,   (* _greeting_vad_task is waiting                                 *)
  timer,     (* farewell timeout: "off", "set", "bye" (hanging up)            *)
  awaited,   (* the receive loop stop_session cancelled and awaits, or 0      *)
  stop,      (* stop_session: "idle", "cut" (the receive loop is cancelled),   *)
             (* "reader" (awaited), "tasks", "close", "emit", "over"          *)
  (* --- the network and the server, external --- *)
  sock,      (* a websocket: "new", "open", "lost", "closed"                  *)
  inbox,     (* its events the receive loop has not read                      *)
  vad,       (* the server takes turns by itself on it                        *)
  active,    (* its response in progress: [id, stage], the stage "silent",     *)
             (* "speaking" or "spoken"                                        *)
  count,     (* responses, speech starts, cancellations, tool calls so far     *)
  (* --- history --- *)
  endedBy,   (* who ended the call                                            *)
  overlap,   (* stop_session began while a reconnect was connecting           *)
  left       (* websockets a reconnect replaced while they were open, their    *)
             (* receive loop having ended                                     *)

provider == <<start, ws, me, task, rc, tool, vadTask, timer, awaited, stop>>
server   == <<sock, inbox, vad, active, count>>
history  == <<endedBy, overlap, left>>
vars == <<mode, call, asked, provider, server, history>>

(* _current_response_id, _greeting_response_id, _greeting_completed, _hangup_after_response,
   _farewell_response_id, _farewell_waiting_for_audio_done, _in_audio_burst,
   _audio_seen_response_ids, _pending_response *)
NoSession ==
  [current |-> NoId, greetingId |-> NoId, greeted |-> FALSE, hangupAfter |-> FALSE,
   farewellId |-> NoId, waiting |-> FALSE, burst |-> FALSE, seen |-> {}, pending |-> FALSE]
TaskAt(at) == [at |-> at, then |-> "read"]
NoTask     == TaskAt("none")
NoResponse == [id |-> NoId, stage |-> "silent"]
NoCount    == [responses |-> 0, speech |-> 0, barges |-> 0, calls |-> 0]
-----------------------------------------------------------------------------
Init ==
  /\ mode \in [api : Interfaces, greeting : Greetings]
  /\ call = "up" /\ asked = FALSE
  /\ start = "connect" /\ ws = 0 /\ me = NoSession
  /\ task = [t \in Tasks |-> NoTask]
  /\ rc = [at |-> "idle", tries |-> 0]
  /\ tool = "none" /\ vadTask = FALSE /\ timer = "off" /\ stop = "idle" /\ awaited = 0
  /\ sock = [s \in Sockets |-> "new"]
  /\ inbox = [s \in Sockets |-> <<>>]
  /\ vad = [s \in Sockets |-> TRUE]
  /\ active = [s \in Sockets |-> NoResponse]
  /\ count = NoCount
  /\ endedBy = "nobody" /\ overlap = FALSE /\ left = {}

Closing  == stop \in {"cut", "reader", "tasks", "close", "emit"}
Closed   == stop = "over"
IsOpen   == ws # 0 /\ sock[ws] = "open"
InUse(s) == s = ws /\ sock[s] = "open"
Live(t)  == task[t].at \notin {"none", "over"}
Fresh    == {s \in Sockets : sock[s] = "new"}
(* The receive loop the provider knows is the latest. *)
Reader(s) == /\ task[s].at # "none"
             /\ \A u \in Sockets : task[u].at # "none" => u <= s

(* A cancelled task does nothing of its own any more. *)
Runs(t) == ~(stop = "cut" /\ t = awaited)

(* The first new websocket opens and takes the place of the one before, which nobody
   closes, and whose events nobody reads any more. *)
Opens ==
  \E s \in Fresh :
    /\ \A u \in Fresh : s <= u
    /\ sock' = [sock EXCEPT ![s] = "open"]
    /\ ws' = s
    /\ left' = left \cup {u \in {ws} : IsOpen /\ ~Live(u)}
    /\ inbox' = [u \in Sockets |-> IF u = ws THEN <<>> ELSE inbox[u]]
    /\ vad' = [u \in Sockets |-> vad[u] \/ u = ws]
    /\ active' = [u \in Sockets |-> IF u = ws THEN NoResponse ELSE active[u]]

(* The server takes a response.create; it refuses it while a response is in progress. *)
Creates(s) ==
  IF active[s].id = NoId /\ count.responses < MaxResponses
  THEN LET r == count.responses + 1
       IN  /\ active' = [active EXCEPT ![s] = [id |-> r, stage |-> "silent"]]
           /\ count' = [count EXCEPT !.responses = r]
           /\ inbox' = [inbox EXCEPT ![s] = Append(@, <<"created", r>>)]
  ELSE UNCHANGED <<active, count, inbox>>

(* It takes a response.cancel.  Its last event may be response.done or response.cancelled. *)
Cancels(s, end) ==
  IF active[s].id # NoId
  THEN /\ inbox' = [inbox EXCEPT ![s] = Append(@, <<end, active[s].id>>)]
       /\ active' = [active EXCEPT ![s] = NoResponse]
  ELSE UNCHANGED <<inbox, active>>

(* The engine's request to hang up; one that fails is only logged there. *)
HangsUp == /\ call' = "ended"
           /\ endedBy' = IF call = "up" THEN "engine" ELSE endedBy
-----------------------------------------------------------------------------
(* start_session. *)
Connects ==
  /\ start = "connect" /\ Opens /\ start' = "created"
  /\ UNCHANGED <<mode, awaited, call, asked, me, task, rc, tool, vadTask, timer, stop,
                 count, endedBy, overlap>>

(* session.created came: configure the session. *)
Configures ==
  /\ start = "created" /\ IsOpen /\ start' = "update"
  /\ UNCHANGED <<mode, awaited, call, asked, ws, me, task, rc, tool, vadTask, timer, stop,
                 server, history>>

StartsToRead ==
  /\ start = "update"
  /\ task' = [task EXCEPT ![ws] = TaskAt("reading")]
  /\ start' = "ack"
  /\ UNCHANGED <<mode, awaited, call, asked, ws, me, rc, tool, vadTask, timer, stop,
                 server, history>>

(* No connection, no session.created within 5 s, or the websocket is lost. *)
StartFails ==
  /\ start \in {"connect", "created", "update"}
  /\ start = "update" => ~IsOpen
  /\ start' = "failed"
  /\ UNCHANGED <<mode, awaited, call, asked, ws, me, task, rc, tool, vadTask, timer, stop,
                 server, history>>

(* The acknowledgement came, or 2 s passed.  A greeting is protected: turn detection is
   switched off first.  Without one the model is asked to begin. *)
Acknowledged ==
  /\ start = "ack"
  /\ IF mode.greeting /\ IsOpen
     THEN /\ start' = "quiet"
          /\ vad' = [vad EXCEPT ![ws] = @ /\ mode.api # "beta"]
          /\ UNCHANGED <<me, inbox, active, count>>
     ELSE /\ start' = "over"
          /\ IF ~mode.greeting /\ IsOpen /\ ~me.pending
             THEN me' = [me EXCEPT !.pending = TRUE] /\ Creates(ws)
             ELSE UNCHANGED <<me, inbox, active, count>>
          /\ UNCHANGED vad
  /\ UNCHANGED <<mode, awaited, call, asked, ws, task, rc, tool, vadTask, timer, stop, sock,
                 history>>

\* variant: turn detection returns only when the greeting is known to be over
NoFallback == FALSE

(* What _send_explicit_greeting leaves behind it: the fallback of 5 s. *)
Fallback == TRUE

(* 0.1 s later; _send_json drops the request when the websocket is not open. *)
Greets ==
  /\ start = "quiet"
  /\ IF IsOpen THEN Creates(ws) ELSE UNCHANGED <<inbox, active, count>>
  /\ me' = [me EXCEPT !.pending = TRUE]
  /\ vadTask' = Fallback
  /\ start' = "over"
  /\ UNCHANGED <<mode, awaited, call, asked, ws, task, rc, tool, timer, stop, sock, vad,
                 history>>

(* _greeting_vad_fallback and _re_enable_vad. *)
ReEnabled == IF mode.api = "beta" /\ IsOpen THEN [vad EXCEPT ![ws] = TRUE] ELSE vad

VadFallback ==
  /\ vadTask
  /\ vadTask' = FALSE
  /\ IF me.greeted THEN UNCHANGED <<me, vad>>
     ELSE me' = [me EXCEPT !.greeted = TRUE] /\ vad' = ReEnabled
  /\ UNCHANGED <<mode, awaited, call, asked, start, ws, task, rc, tool, timer, stop, sock,
                 inbox, active, count, history>>
-----------------------------------------------------------------------------
(* What a task does after _emit_audio_done.  A cancelled receive loop runs its own end
   while stop_session awaits it. *)
After(t) == IF stop = "cut" THEN "reader" ELSE IF t = Stop THEN "emit" ELSE stop

\* variant: the farewell is recognised without a look whether there is one
IsAnyFarewell(x) == x.current = x.farewellId

(* The response that ends is the farewell. *)
IsFarewell(x) == x.farewellId # NoId /\ x.current = x.farewellId

(* The end of the handler of a response's last event. *)
Over(x) == [x EXCEPT !.seen = @ \ {x.current}, !.pending = FALSE, !.current = NoId]

Resumes(t, x) ==
  /\ task' = [task EXCEPT ![t] = TaskAt("reading")]
  /\ me' = x

(* response.completed or response.done.  A farewell that was not heard is hung up at once;
   AudioDone has cleared the farewell before, so this never happens. *)
Done(t, x) ==
  LET greets == x.current = x.greetingId /\ ~x.greeted
      y      == [x EXCEPT !.greeted = @ \/ greets]
      heard  == x.current \in x.seen
  IN  /\ vad' = IF greets THEN ReEnabled ELSE vad
      /\ IF IsFarewell(y)
         THEN /\ timer' = "off"
              /\ IF heard THEN Resumes(t, Over([y EXCEPT !.hangupAfter = FALSE]))
                 ELSE /\ task' = [task EXCEPT ![t] = [at |-> "bye", then |-> "noaudio"]]
                      /\ me' = y
         ELSE Resumes(t, Over(y)) /\ UNCHANGED timer
      /\ UNCHANGED <<ws, rc>> /\ stop' = After(t)

\* variant: a reconnect task that is over counts as one that runs
OnlyOnce == rc.at = "idle"

(* No reconnect is under way. *)
MayReconnect == rc.at \in {"idle", "over", "givenup"}

\* variant: whether the session is being stopped is not looked at
ReconnectsAlways == MayReconnect

(* What the end of a receive loop asks before it schedules a reconnect. *)
Reconnectable == ~Closing /\ ~Closed /\ MayReconnect

(* The receive loop ends: a session that is not being stopped reconnects. *)
Ends(t, x) ==
  /\ task' = [task EXCEPT ![t] = TaskAt("over")]
  /\ me' = [x EXCEPT !.pending = FALSE]
  /\ rc' = IF Reconnectable THEN [at |-> "connect", tries |-> 1] ELSE rc
  /\ UNCHANGED <<ws, timer, vad>> /\ stop' = After(t)

(* The end of stop_session. *)
Stopped(x) ==
  /\ task' = [task EXCEPT ![Stop] = TaskAt("over")]
  /\ me' = [x EXCEPT !.pending = FALSE, !.burst = FALSE]
  /\ ws' = 0
  /\ stop' = "over"
  /\ UNCHANGED <<rc, timer, vad>>

Continues(t, then, x) ==
  CASE then = "read"    -> Resumes(t, x) /\ UNCHANGED <<ws, rc, timer, vad>> /\ stop' = After(t)
    [] then = "done"    -> Done(t, x)
    [] then = "stopped" -> Resumes(t, Over(x)) /\ UNCHANGED <<ws, rc, timer, vad>> /\ stop' = After(t)
    [] then = "noaudio" -> /\ Resumes(t, Over([x EXCEPT !.waiting = FALSE, !.farewellId = NoId,
                                                       !.hangupAfter = FALSE]))
                           /\ UNCHANGED <<ws, rc, timer, vad>> /\ stop' = After(t)
    [] then = "end"     -> Ends(t, x)
    [] then = "stop"    -> Stopped(x)

(* _emit_audio_done, from the end of its report to the engine on: a farewell that was
   waited for is over, and the engine is told to hang up. *)
Reported(t, then, x) ==
  IF x.waiting /\ x.farewellId # NoId
  THEN /\ me' = [x EXCEPT !.burst = FALSE, !.waiting = FALSE, !.farewellId = NoId]
       /\ timer' = "off"
       /\ task' = [task EXCEPT ![t] = [at |-> "bye", then |-> then]]
       /\ UNCHANGED <<ws, rc, vad>> /\ stop' = After(t)
  ELSE Continues(t, then, [x EXCEPT !.burst = FALSE])

(* _emit_audio_done.  The engine, told that the agent stopped speaking, hangs up after a
   delay if hangup_call asked for it.  A stopped session has no call to report on. *)
AudioDone(t, then, x) ==
  IF Closed THEN Continues(t, then, x)
  ELSE IF x.burst /\ asked
       THEN /\ task' = [task EXCEPT ![t] = [at |-> "tts", then |-> then]]
            /\ me' = x
            /\ UNCHANGED <<ws, rc, timer, vad>> /\ stop' = After(t)
       ELSE Reported(t, then, x)

(* The engine's delay is over. *)
TtsHangsUp(t) ==
  /\ task[t].at = "tts" /\ Runs(t) /\ HangsUp
  /\ Reported(t, task[t].then, me)
  /\ UNCHANGED <<mode, awaited, asked, start, tool, vadTask, sock, inbox, active, count, overlap, left>>

ByeHangsUp(t) ==
  /\ task[t].at = "bye" /\ Runs(t) /\ HangsUp
  /\ Continues(t, task[t].then, me)
  /\ UNCHANGED <<mode, awaited, asked, start, tool, vadTask, sock, inbox, active, count, overlap, left>>
-----------------------------------------------------------------------------
(* The receive loop of websocket s. *)
Reads(s, type) ==
  /\ task[s].at = "reading" /\ Runs(s) /\ inbox[s] # <<>> /\ Head(inbox[s])[1] = type
  /\ UNCHANGED <<mode, awaited, call, asked, start, sock, count, history>>

\* variant: the timeout is started for a goodbye that can be heard only
NoTimeout(x, r) == "off"

(* Once hangup_call has run the first response that is created is the farewell, and the
   farewell timeout is started. *)
TimerOf(x, r) ==
  IF ~(~x.greeted /\ x.greetingId = NoId) /\ x.hangupAfter THEN "set" ELSE timer

ReadsCreated(s) ==
  LET r == Head(inbox[s])[2]
      x == [me EXCEPT !.current = r, !.seen = @ \ {r}]
  IN  /\ Reads(s, "created")
      /\ me' = IF ~x.greeted /\ x.greetingId = NoId THEN [x EXCEPT !.greetingId = r]
               ELSE IF x.hangupAfter THEN [x EXCEPT !.farewellId = r, !.waiting = TRUE]
               ELSE x
      /\ timer' = TimerOf(me, r)
      /\ inbox' = [inbox EXCEPT ![s] = Tail(@)]
      /\ UNCHANGED <<ws, task, rc, tool, vadTask, stop, vad, active>>

ReadsAudio(s) ==
  /\ Reads(s, "audio")
  /\ me' = [me EXCEPT !.burst = TRUE,
                      !.seen = IF me.current = NoId THEN @ ELSE @ \cup {me.current}]
  /\ inbox' = [inbox EXCEPT ![s] = Tail(@)]
  /\ UNCHANGED <<ws, task, rc, tool, vadTask, timer, stop, vad, active>>

(* response.audio.done of the beta interface clears the burst before the report, so that
   the engine does not hear of it; response.output_audio.done does not. *)
ReadsAudioDone(s) ==
  /\ Reads(s, "spoken")
  /\ AudioDone(s, "read", [me EXCEPT !.burst = @ /\ mode.api # "beta"])
  /\ inbox' = [inbox EXCEPT ![s] = Tail(@)]
  /\ UNCHANGED <<tool, vadTask, active>>

ReadsEnd(s) ==
  /\ \E end \in {"done", "stopped"} : Reads(s, end) /\ AudioDone(s, end, me)
  /\ inbox' = [inbox EXCEPT ![s] = Tail(@)]
  /\ UNCHANGED <<tool, vadTask, active>>

ReadsCall(s) ==
  /\ Reads(s, "call")
  /\ tool' = "run"
  /\ inbox' = [inbox EXCEPT ![s] = Tail(@)]
  /\ UNCHANGED <<ws, me, task, rc, vadTask, timer, stop, vad, active>>

(* The caller speaks: the greeting goes on, and so does, with the beta interface, whose
   response.audio.delta starts the clock, a response heard for less than 2.5 s. *)
Protected(young) ==
  \/ me.current # NoId /\ me.current = me.greetingId /\ ~me.greeted
  \/ me.current = NoId /\ me.greetingId # NoId /\ ~me.greeted
  \/ me.current # NoId /\ young

ReadsSpeech(s) ==
  /\ Reads(s, "speech")
  /\ \E young \in BOOLEAN, end \in {"done", "stopped"} :
       /\ young => mode.api = "beta" /\ me.current \in me.seen
       /\ LET rest == [inbox EXCEPT ![s] = Tail(@)] IN
          IF Protected(young) \/ (me.current # NoId /\ ~IsOpen)
          THEN inbox' = rest /\ UNCHANGED <<ws, me, task, rc, timer, stop, vad, active>>
          ELSE /\ AudioDone(s, "read", me)
               /\ IF me.current # NoId /\ active[ws].id = me.current
                  THEN /\ inbox' = [rest EXCEPT ![ws] = Append(@, <<end, me.current>>)]
                       /\ active' = [active EXCEPT ![ws] = NoResponse]
                  ELSE inbox' = rest /\ UNCHANGED active
  /\ UNCHANGED <<tool, vadTask>>

ReadsLoss(s) ==
  /\ task[s].at = "reading" /\ Runs(s) /\ inbox[s] = <<>> /\ sock[s] # "open"
  /\ AudioDone(s, "end", me)
  /\ UNCHANGED <<mode, awaited, call, asked, start, tool, vadTask, sock, inbox, active, count,
                 history>>

(* _handle_event raises, on an event whose shape it does not expect: the receive loop
   ends, the websocket stays open, and what came after that event is never read. *)
ReadFails(s) ==
  /\ task[s].at = "reading" /\ Runs(s)
  /\ AudioDone(s, "end", me)
  /\ inbox' = [inbox EXCEPT ![s] = <<>>]
  /\ UNCHANGED <<mode, awaited, call, asked, start, tool, vadTask, sock, active, count, history>>

(* _farewell_timeout_handler: 5 s after the farewell was created; then the engine's delay. *)
TimesOut ==
  /\ timer = "set" /\ timer' = "bye"
  /\ UNCHANGED <<mode, awaited, call, asked, start, ws, me, task, rc, tool, vadTask, stop,
                 server, history>>

TimeoutHangsUp ==
  /\ timer = "bye" /\ timer' = "off" /\ HangsUp
  /\ UNCHANGED <<mode, awaited, asked, start, ws, me, task, rc, tool, vadTask, stop, server, overlap, left>>
-----------------------------------------------------------------------------
(* _handle_function_call of hangup_call: the call is marked, ... *)
ToolRuns ==
  /\ tool = "run" /\ tool' = "result"
  /\ asked' = TRUE
  /\ me' = [me EXCEPT !.hangupAfter = TRUE]
  /\ UNCHANGED <<mode, awaited, call, start, ws, task, rc, vadTask, timer, stop, server, history>>

(* ... and, the result and "no tools" sent, a farewell is asked for. *)
ToolAsksFarewell ==
  /\ tool = "result" /\ tool' = "over"
  /\ IF IsOpen THEN Creates(ws) ELSE UNCHANGED <<inbox, active, count>>
  /\ me' = [me EXCEPT !.pending = @ \/ IsOpen]
  /\ UNCHANGED <<mode, awaited, call, asked, start, ws, task, rc, vadTask, timer, stop, sock, vad,
                 history>>

(* cancel_response, when the engine hears the caller over the agent. *)
EngineCancels ==
  /\ count.speech + count.barges < MaxInterruptions
  /\ call = "up" /\ IsOpen /\ me.pending /\ stop = "idle"
  /\ count' = [count EXCEPT !.barges = @ + 1]
  /\ me' = [me EXCEPT !.pending = FALSE]
  /\ \E end \in {"done", "stopped"} : Cancels(ws, end)
  /\ UNCHANGED <<mode, awaited, call, asked, start, ws, task, rc, tool, vadTask, timer, stop,
                 sock, vad, history>>
-----------------------------------------------------------------------------
(* _reconnect_with_backoff. *)
Retry == IF Closing \/ Closed THEN [at |-> "over", tries |-> 0]
         ELSE IF rc.tries < MaxTries THEN [at |-> "connect", tries |-> rc.tries + 1]
         ELSE [at |-> "givenup", tries |-> 0]

Reconnects ==
  /\ rc.at = "connect" /\ Opens
  /\ rc' = [rc EXCEPT !.at = "update"]
  /\ me' = [me EXCEPT !.pending = FALSE, !.burst = FALSE]
  /\ UNCHANGED <<mode, awaited, call, asked, start, task, tool, vadTask, timer, stop,
                 count, endedBy, overlap>>

ConnectFails ==
  /\ rc.at = "connect" /\ rc' = [rc EXCEPT !.at = "sleep"]
  /\ UNCHANGED <<mode, awaited, call, asked, start, ws, me, task, tool, vadTask, timer, stop,
                 server, history>>

(* session.update is sent and a new receive loop started.  stop_session may have taken the
   websocket away in the meantime: then the loop fails at once. *)
Restarts ==
  /\ rc.at = "update"
  /\ task' = IF ws = 0 THEN task ELSE [task EXCEPT ![ws] = TaskAt("reading")]
  /\ rc' = [at |-> "over", tries |-> 0]
  /\ UNCHANGED <<mode, awaited, call, asked, start, ws, me, tool, vadTask, timer, stop,
                 server, history>>

UpdateFails ==
  /\ rc.at = "update" /\ ~IsOpen /\ rc' = [rc EXCEPT !.at = "sleep"]
  /\ UNCHANGED <<mode, awaited, call, asked, start, ws, me, task, tool, vadTask, timer, stop,
                 server, history>>

BacksOff ==
  /\ rc.at = "sleep" /\ rc' = Retry
  /\ UNCHANGED <<mode, awaited, call, asked, start, ws, me, task, tool, vadTask, timer, stop,
                 server, history>>
-----------------------------------------------------------------------------
(* stop_session, when the call is cleaned up or the session could not be started.  The
   engine has cancelled start_session before.  What the server has sent and still does is
   read by nobody from here on, and forgotten. *)
StopBegins ==
  /\ stop = "idle" /\ (call = "ended" \/ start = "failed")
  /\ \/ \E s \in Sockets : Reader(s) /\ Live(s) /\ stop' = "cut" /\ awaited' = s
     \/ (\A s \in Sockets : Reader(s) => ~Live(s)) /\ stop' = "reader" /\ UNCHANGED awaited
  /\ overlap' = (rc.at \in {"connect", "update"})
  /\ start' = IF start \in {"over", "failed"} THEN start ELSE "cancelled"
  /\ inbox' = [s \in Sockets |-> <<>>] /\ active' = [s \in Sockets |-> NoResponse]
  /\ count' = NoCount
  /\ UNCHANGED <<mode, call, asked, ws, me, task, rc, tool, vadTask, timer, sock, vad, endedBy, left>>

(* CancelledError where the receive loop waits: it reports the audio done, once more if
   that is what it was doing, but not if it was about to end anyway. *)
StopCuts ==
  /\ stop = "cut"
  /\ LET at == task[awaited].at IN
     IF at # "reading" /\ task[awaited].then = "end"
     THEN /\ task' = [task EXCEPT ![awaited] = TaskAt("over")]
          /\ me' = [me EXCEPT !.burst = FALSE]
          /\ stop' = After(awaited)
          /\ UNCHANGED <<ws, rc, timer, vad>>
     ELSE IF at = "tts" THEN Reported(awaited, "end", me)
     ELSE AudioDone(awaited, "end", me)
  /\ UNCHANGED <<mode, awaited, call, asked, start, tool, vadTask, sock, inbox, active, count,
                 history>>

(* The receive loop is over: cancel the timeout, the fallback and the tool, then close. *)
StopCancels ==
  /\ stop = "reader" /\ (awaited = 0 \/ ~Live(awaited))
  /\ timer' = "off" /\ vadTask' = FALSE
  /\ tool' = IF tool = "none" THEN tool ELSE "over"
  /\ stop' = "tasks"
  /\ UNCHANGED <<mode, awaited, call, asked, start, ws, me, task, rc, server, history>>

StopCloses ==
  /\ stop = "tasks" /\ IsOpen
  /\ sock' = [sock EXCEPT ![ws] = "closed"]
  /\ stop' = "close"
  /\ UNCHANGED <<mode, awaited, call, asked, start, ws, me, task, rc, tool, vadTask, timer,
                 inbox, vad, active, count, history>>

StopEmits ==
  /\ stop = "close" \/ (stop = "tasks" /\ ~IsOpen)
  /\ AudioDone(Stop, "stop", me)
  /\ UNCHANGED <<mode, awaited, call, asked, start, tool, vadTask, sock, inbox, active, count,
                 history>>
-----------------------------------------------------------------------------
(* External: the server, the network and the caller.  What the server says when the session
   is being stopped or the receive loop is over, and nobody will read it, is left out. *)
Server(s) ==
  /\ sock[s] = "open" /\ stop = "idle" /\ task[s].at # "over" /\ Len(inbox[s]) < MaxInbox
  /\ UNCHANGED <<mode, call, asked, provider, sock, vad, history>>

Pushes(s, e) == inbox' = [inbox EXCEPT ![s] = @ \o e]

Speaks(s) ==
  /\ Server(s) /\ active[s].id # NoId
  /\ \E e \in {<<"silent", "speaking", "audio">>, <<"speaking", "spoken", "spoken">>} :
       /\ active[s].stage = e[1]
       /\ active' = [active EXCEPT ![s].stage = e[2]]
       /\ Pushes(s, << <<e[3], active[s].id>> >>)
  /\ UNCHANGED count

CallsTool(s) ==
  /\ Server(s) /\ active[s].id # NoId /\ count.calls = 0
  /\ count' = [count EXCEPT !.calls = 1]
  /\ Pushes(s, << <<"call", active[s].id>> >>)
  /\ UNCHANGED active

EndsResponse(s) ==
  /\ Server(s) /\ active[s].id # NoId
  /\ \E end \in {"done", "stopped"}, n \in Terminals :
       Pushes(s, [i \in 1..n |-> <<end, active[s].id>>])
  /\ active' = [active EXCEPT ![s] = NoResponse]
  /\ UNCHANGED count

(* The engine forwards the caller's audio once start_session has returned, to the
   websocket in use. *)
HearsSpeech(s) ==
  /\ Server(s) /\ s = ws /\ start = "over" /\ vad[s] /\ call = "up" 
  /\ count.speech + count.barges < MaxInterruptions
  /\ count' = [count EXCEPT !.speech = @ + 1]
  /\ Pushes(s, << <<"speech", NoId>> >>)
  /\ UNCHANGED active

AnswersSpeech(s) ==
  /\ Server(s) /\ vad[s] /\ count.speech > 0 /\ active[s].id = NoId
  /\ count.responses < MaxResponses
  /\ Creates(s)

Loses(s) ==
  /\ InUse(s) /\ sock' = [sock EXCEPT ![s] = "lost"]
  /\ UNCHANGED <<mode, call, asked, provider, inbox, vad, active, count, history>>

CallerHangsUp ==
  /\ call = "up" /\ call' = "ended" /\ endedBy' = "caller"
  /\ UNCHANGED <<mode, asked, provider, server, overlap, left>>
-----------------------------------------------------------------------------
StartTask  == Connects \/ Configures \/ StartsToRead \/ StartFails \/ Acknowledged \/ Greets
ReaderTask(s) == \/ ReadsCreated(s) \/ ReadsAudio(s) \/ ReadsAudioDone(s) \/ ReadsEnd(s)
                 \/ ReadsCall(s) \/ ReadsSpeech(s) \/ ReadsLoss(s)
Reporter(t) == \/ TtsHangsUp(t) \/ ByeHangsUp(t)
               \/ t # Stop /\ ReaderTask(t)
TimerTask  == TimesOut \/ TimeoutHangsUp
ToolTask   == ToolRuns \/ ToolAsksFarewell
RetryTask  == Reconnects \/ ConnectFails \/ Restarts \/ UpdateFails \/ BacksOff
StopTask   == StopBegins \/ StopCuts \/ StopCancels \/ StopCloses \/ StopEmits
ServerStep(s) == \/ Speaks(s) \/ CallsTool(s) \/ EndsResponse(s) \/ HearsSpeech(s)
                 \/ AnswersSpeech(s) \/ Loses(s)

Next ==
  \/ StartTask \/ VadFallback \/ TimerTask \/ ToolTask \/ RetryTask \/ StopTask
  \/ EngineCancels \/ CallerHangsUp
  \/ \E t \in Tasks : Reporter(t)
  \/ \E s \in Sockets : ServerStep(s) \/ ReadFails(s)

(* The event loop runs every task that can run; timers expire; an attempt to connect ends.
   Of the server, the network and the caller nothing is assumed, nor that an event is
   malformed. *)
Fairness ==
  /\ WF_vars(StartTask) /\ WF_vars(VadFallback) /\ WF_vars(TimerTask) /\ WF_vars(ToolTask)
  /\ WF_vars(RetryTask) /\ WF_vars(StopTask)
  /\ \A t \in Tasks : WF_vars(Reporter(t))

Spec == Init /\ [][Next]_vars
FairSpec == Spec /\ Fairness
-----------------------------------------------------------------------------
Ids == Responses \cup {NoId}
Events == {"created", "audio", "spoken", "call", "done", "stopped", "speech"} \X Ids

TypeOK ==
  /\ mode \in [api : Interfaces, greeting : Greetings] /\ call \in {"up", "ended"} /\ asked \in BOOLEAN
  /\ start \in {"connect", "created", "update", "ack", "quiet", "over", "failed", "cancelled"}
  /\ ws \in Sockets \cup {0}
  /\ me \in [current : Ids, greetingId : Ids, greeted : BOOLEAN, hangupAfter : BOOLEAN,
             farewellId : Ids, waiting : BOOLEAN, burst : BOOLEAN, seen : SUBSET Responses,
             pending : BOOLEAN]
  /\ task \in [Tasks -> [at : {"none", "reading", "tts", "bye", "over"},
                         then : {"read", "done", "stopped", "noaudio", "end", "stop"}]]
  /\ rc \in [at : {"idle", "connect", "update", "sleep", "over", "givenup"}, tries : 0..MaxTries]
  /\ tool \in {"none", "run", "result", "over"}
  /\ vadTask \in BOOLEAN /\ timer \in {"off", "set", "bye"}
  /\ stop \in {"idle", "cut", "reader", "tasks", "close", "emit", "over"}
  /\ sock \in [Sockets -> {"new", "open", "lost", "closed"}]
  /\ inbox \in [Sockets -> Seq(Events)]
  /\ vad \in [Sockets -> BOOLEAN]
  /\ active \in [Sockets -> [id : Ids, stage : {"silent", "speaking", "spoken"}]]
  /\ count \in [responses : 0..MaxResponses, speech : 0..MaxInterruptions,
                barges : 0..MaxInterruptions, calls : 0..1]
  /\ awaited \in Sockets \cup {0} /\ endedBy \in {"nobody", "caller", "engine"} /\ overlap \in BOOLEAN
  /\ left \subseteq Sockets

(* A session that has been started and is not being stopped is never deaf: the websocket
   in use has a receive loop, or a reconnect is under way, or all attempts were used up.
   (The finally of _receive_loop, and where _reconnect_with_backoff starts the next one.) *)
NotDeaf ==
  start \in {"ack", "quiet", "over"} /\ stop = "idle" =>
    (ws # 0 /\ Live(ws)) \/ rc.at \in {"connect", "update", "sleep", "givenup"}

(* The engine hangs up only a call whose hangup_call tool ran: no other response, no second
   end of one and no loss of the connection is taken for the end of a farewell. *)
NoUnaskedHangup == endedBy = "engine" => asked

(* After stop_session nothing of the session is left, unless a reconnect was connecting
   when it began: no timer, tool or report that hangs up, and no websocket but one that
   was replaced while it was open. *)
StopIsComplete ==
  Closed /\ ~overlap =>
    /\ timer = "off" /\ ~vadTask /\ tool \in {"none", "over"}
    /\ \A t \in Tasks : task[t].at \notin {"tts", "bye"}
    /\ \A s \in Sockets : sock[s] = "open" => s \in left

(* A farewell that was created ends the call, whatever the server does then: the engine
   asks for the hang-up (HangsUp takes its request as carried out). *)
GoodbyeEnds == me.farewellId # NoId ~> call = "ended" \/ Closed

VadOff == IsOpen /\ ~vad[ws]

(* Turn detection, switched off for the greeting, returns on the websocket in use even if
   the greeting is refused, cancelled or lost. *)
VadReturns == VadOff /\ stop = "idle" ~> ~VadOff \/ stop # "idle"

(* "Single WebSocket/API connection" (docs/contributing/architecture-quickstart.md, line
   76).  It does not hold: the reconnect after an event that could not be handled opens a
   second one beside the first. *)
OneConnection == \A s, u \in Sockets : sock[s] = "open" /\ sock[u] = "open" => s = u

(* "Closes the connection and cleans up resources for the call" (providers/base.py, line
   32), here of the connection the session has then.  It does not hold of one that a
   reconnect was opening when the stop began. *)
NothingLeftOpen == Closed => \A s \in Sockets : sock[s] = "open" => s \in left

(* "ensure hangup happens even if OpenAI doesn't generate audio" (_start_farewell_timeout).
   It does not hold, even on a connection that lasts and with no response under way: the
   timeout starts with the farewell, and a farewell the server refuses is never created. *)
HangupHappens ==
  asked /\ tool = "over" /\ (\A s \in Sockets : active[s].id = NoId)
    ~> \/ call = "ended" \/ stop # "idle"
           \/ \E s \in Sockets : sock[s] = "lost" \/ task[s].at = "over"
=============================================================================
