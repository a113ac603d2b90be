------------------------------ MODULE CallAudio ------------------------------
(***************************************************************************)
(* The audio of one pipeline call that is played as files, and the gate    *)
(* that keeps the recognizer from hearing it:                              *)
(*   src/core/session_store.py            set/clear_gating_token, the store *)
(*   src/core/conversation_coordinator.py on_tts_start, on_tts_end          *)
(*   src/core/playback_manager.py         play_audio, on_playback_finished, *)
(*                                        the gating fallback               *)
(*   src/engine.py                        barge-in, and what _cleanup_call  *)
(*                                        does to the above                 *)
(*                                                                         *)
(* The tasks are the pipeline's, which play, the handlers of Asterisk's     *)
(* events, the fallback timers, the barge-ins and the cleanup at the end of *)
(* the call.  A step is the code of one task between two suspensions (a     *)
(* request to ARI, a sleep).  The locks of the store and of the gate are    *)
(* never held across one, so what they protect is one step.  Abstracted:    *)
(* audio, ids, metrics, conversation_state.                                 *)
(***************************************************************************)
EXTENDS Integers, FiniteSets

CONSTANTS
  Playbacks,   (* playback ids; none is used twice                          *)
  Bargers,     (* tasks that may apply a barge-in                           *)
  Overridable  (* whether the set_barge_in tool may switch barge-in off     *)

ASSUME CallAudioAssumption ==
  /\ IsFiniteSet(Playbacks) /\ IsFiniteSet(Bargers) /\ Overridable \in BOOLEAN

VARIABLES
  gate,     (* of the session: [tokens, count, playing, capture], that is    *)
            (* tts_tokens, tts_active_count, tts_playing and                 *)
            (* audio_capture_enabled                                         *)
  override, (* barge_in_enabled of the session                               *)
  stored,   (* the session is in the store                                   *)
  cleanup,  (* _cleanup_call: "no", "begun", "cancelled" (the pipeline's     *)
            (* task), "done"                                                 *)
  refs,     (* _playbacks of the store                                       *)
  files,    (* audio files in the media directory                            *)
  player,   (* play_audio of a playback: "none", "ari" (its request is in    *)
            (* flight), "over"                                               *)
  asterisk, (* a playback in Asterisk: "none", "playing", "finished" (the    *)
            (* event is on its way), "over"                                  *)
  timers,   (* playbacks whose gating fallback is pending                    *)
  barge,    (* a barge-in: [at, todo, vad]; at "idle", "stream" (awaits the  *)
            (* stop of the stream), "stop" (stops the playbacks in todo)     *)
  ungated,  (* history: playbacks whose token went before they ended         *)
  leaked    (* history: playbacks whose play_audio failed or was cancelled   *)

sessionVars == <<gate, override, stored, cleanup>>
playVars    == <<refs, files, player, asterisk, timers>>
histVars    == <<ungated, leaked>>
vars == <<sessionVars, playVars, barge, histVars>>

NoBarge == [at |-> "idle", todo |-> {}, vad |-> FALSE]
-----------------------------------------------------------------------------
(* The gate.  Its flags change with the first token and with the last one; a
   token that is set or cleared in between leaves the call gated.            *)

Closed(ts) ==
  [tokens |-> ts, count |-> Cardinality(ts), playing |-> TRUE, capture |-> FALSE]
Opened == [tokens |-> {}, count |-> 0, playing |-> FALSE, capture |-> TRUE]

\* set_gating_token
GatesFirst(g, p) ==                           \* variant: only the first token gates
  IF g.count = 0 THEN Closed({p})
  ELSE [g EXCEPT !.tokens = @ \cup {p}, !.count = Cardinality(g.tokens \cup {p})]
SetToken(g, p) == Closed(g.tokens \cup {p})

\* clear_gating_token of every token of ts; what is not held has no effect.
OpensEarly(g, ts) ==                          \* variant: each end opens the gate
  [Opened EXCEPT !.tokens = g.tokens \ ts, !.count = Cardinality(g.tokens \ ts)]
ClearTokens(g, ts) ==
  LET left == g.tokens \ ts IN
  IF left # {} THEN Closed(left)
  ELSE IF g.count = 0 THEN [tokens |-> {}, count |-> 0, playing |-> g.playing,
                            capture |-> g.capture]
  ELSE Opened

\* A direct write of audio_capture_enabled.
Capturing(g, on) ==
  [tokens |-> g.tokens, count |-> g.count, playing |-> g.playing, capture |-> g.capture \/ on]

\* on_tts_end: nothing to clear once the session is gone.
End(ts) == gate' = IF stored THEN ClearTokens(gate, ts) ELSE gate

StillPlaying(ts) == {p \in ts : asterisk[p] = "playing" \/ player[p] = "ari"}
Init ==
  /\ gate = Opened
  /\ override = TRUE /\ stored = TRUE /\ cleanup = "no"
  /\ refs = {} /\ files = {} /\ timers = {}
  /\ player = [p \in Playbacks |-> "none"] /\ asterisk = [p \in Playbacks |-> "none"]
  /\ barge = [b \in Bargers |-> NoBarge]
  /\ ungated = {} /\ leaked = {}
-----------------------------------------------------------------------------
(* play_audio *)

\* A file, a token, a reference, then the request to play.
Play(p) ==
  /\ player[p] = "none" /\ stored /\ cleanup \in {"no", "begun"}
  /\ player' = [player EXCEPT ![p] = "ari"]
  /\ files' = files \cup {p} /\ refs' = refs \cup {p}
  /\ gate' = SetToken(gate, p)
  /\ UNCHANGED <<override, stored, cleanup, asterisk, timers, barge, histVars>>

\* Asterisk starts the playback; the answer to the request is on its way.
Starts(p) ==
  /\ player[p] = "ari" /\ asterisk[p] = "none" /\ cleanup # "done"
  /\ asterisk' = [asterisk EXCEPT ![p] = "playing"]
  /\ UNCHANGED <<sessionVars, refs, files, player, timers, barge, histVars>>

NoTimer(p) == {}                              \* variant: no fallback
TimerOf(p) == {p}

\* The answer: _schedule_gating_fallback.
PlayAnswered(p) ==
  /\ player[p] = "ari" /\ asterisk[p] # "none"
  /\ player' = [player EXCEPT ![p] = "over"]
  /\ timers' = timers \cup TimerOf(p)
  /\ UNCHANGED <<sessionVars, refs, files, asterisk, barge, histVars>>

\* The request fails: reference and token go, the file stays.  Asterisk has refused
\* it, or its answer was lost, which looks the same (send_command makes a status 500
\* of it), and the playback it has started goes on.
KeepsTokenOf(p) == {}                         \* variant: cancel_tts not called
RefusedToken(p) == {p}
PlayRefused(p) ==
  /\ player[p] = "ari"
  /\ player' = [player EXCEPT ![p] = "over"]
  /\ refs' = refs \ {p} /\ End(RefusedToken(p))
  /\ leaked' = leaked \cup {p}
  /\ ungated' = ungated \cup {q \in {p} : asterisk[q] = "playing"}
  /\ UNCHANGED <<override, stored, cleanup, files, asterisk, timers, barge>>
-----------------------------------------------------------------------------
(* The end of a playback *)

\* Asterisk has played it to its end, or the channel is gone.
Ends(p) ==
  /\ asterisk[p] = "playing"
  /\ asterisk' = [asterisk EXCEPT ![p] = "finished"]
  /\ UNCHANGED <<sessionVars, refs, files, player, timers, barge, histVars>>

KeepsFile(p) == files                         \* variant: the file is not removed
WithoutFile(p) == files \ {p}                 \* _cleanup_audio_file

\* PlaybackFinished: on_playback_finished
PlaybackFinished(p) ==
  /\ asterisk[p] = "finished"
  /\ asterisk' = [asterisk EXCEPT ![p] = "over"]
  /\ IF p \in refs THEN refs' = refs \ {p} /\ files' = WithoutFile(p) /\ End({p})
     ELSE UNCHANGED <<refs, files, gate>>
  /\ UNCHANGED <<override, stored, cleanup, player, timers, barge, histVars>>

\* The event is lost with the websocket.
EventLost(p) ==
  /\ asterisk[p] = "finished"
  /\ asterisk' = [asterisk EXCEPT ![p] = "over"]
  /\ UNCHANGED <<sessionVars, refs, files, player, timers, barge, histVars>>

\* _gating_fallback_task, after the length of the audio and a margin.
GatingFallback(p) ==
  /\ p \in timers
  /\ timers' = timers \ {p}
  /\ IF p \in refs
     THEN /\ refs' = refs \ {p} /\ files' = WithoutFile(p) /\ End({p})
          /\ ungated' = ungated \cup StillPlaying({p})
     ELSE UNCHANGED <<refs, files, gate, ungated>>
  /\ UNCHANGED <<override, stored, cleanup, player, asterisk, barge, leaked>>
-----------------------------------------------------------------------------
(* Barge-in: _apply_barge_in_action *)

SetBargeIn ==
  /\ Overridable /\ stored /\ cleanup = "no"
  /\ override' = ~override
  /\ UNCHANGED <<gate, stored, cleanup, playVars, barge, histVars>>

\* The caller speaks while the call is gated: local VAD or Asterisk's
\* TALK_DETECT.  A barge-in that is switched off does nothing, but the VAD path
\* enables capture all the same.
BargeIn(b, vad) ==
  /\ barge[b].at = "idle" /\ stored
  /\ ~gate.capture
  /\ IF override
     THEN /\ barge' = [barge EXCEPT ![b] = [at |-> "stream", todo |-> {}, vad |-> vad]]
          /\ UNCHANGED <<gate, ungated>>
     ELSE /\ gate' = Capturing(gate, vad)
          /\ ungated' = IF vad THEN ungated \cup gate.tokens ELSE ungated
          /\ UNCHANGED barge
  /\ UNCHANGED <<override, stored, cleanup, playVars, leaked>>

\* The stream has been stopped; list_playbacks_for_call.
BargeLists(b) ==
  /\ barge[b].at = "stream"
  /\ barge' = [barge EXCEPT ![b].at = "stop", ![b].todo = refs]
  /\ UNCHANGED <<sessionVars, playVars, histVars>>

\* stop_playback has been answered; Asterisk knows it only if it has started.
BargeStops(b, p) ==
  /\ barge[b].at = "stop" /\ p \in barge[b].todo
  /\ barge' = [barge EXCEPT ![b].todo = @ \ {p}]
  /\ \/ asterisk' = [asterisk EXCEPT ![p] = IF @ = "playing" THEN "finished" ELSE @]
     \/ UNCHANGED asterisk
  /\ UNCHANGED <<sessionVars, refs, files, player, timers, histVars>>

\* Every token is cleared and the session saved, as it was read at the start.
BargeEnds(b) ==
  /\ barge[b].at = "stop" /\ barge[b].todo = {}
  /\ barge' = [barge EXCEPT ![b] = NoBarge]
  /\ gate' = Capturing(IF stored THEN ClearTokens(gate, gate.tokens) ELSE gate, barge[b].vad)
  /\ ungated' = ungated \cup StillPlaying(gate.tokens)
  /\ stored' = TRUE
  /\ UNCHANGED <<override, cleanup, playVars, leaked>>
-----------------------------------------------------------------------------
(* The end of the call: _cleanup_call, of which what touches the above *)

CleanupBegins ==
  /\ cleanup = "no" /\ stored
  /\ cleanup' = "begun"
  /\ UNCHANGED <<gate, override, stored, playVars, barge, histVars>>

\* The channels have been hung up, and the task of the pipeline is cancelled: a
\* playback whose request is in flight keeps its token, reference and file.
CleanupCancels ==
  /\ cleanup = "begun" /\ cleanup' = "cancelled"
  /\ LET cut == {p \in Playbacks : player[p] = "ari"} IN
     /\ player' = [p \in Playbacks |-> IF p \in cut THEN "over" ELSE player[p]]
     /\ leaked' = leaked \cup cut
  /\ UNCHANGED <<gate, override, stored, refs, files, asterisk, timers, barge, ungated>>

\* remove_call
CleanupRemoves ==
  /\ cleanup = "cancelled" /\ cleanup' = "done"
  /\ stored' = FALSE
  /\ UNCHANGED <<gate, override, playVars, barge, histVars>>
-----------------------------------------------------------------------------
Playback(p) == PlayAnswered(p) \/ PlayRefused(p) \/ PlaybackFinished(p) \/ EventLost(p)
BargeStep(b) == BargeLists(b) \/ (\E p \in Playbacks : BargeStops(b, p)) \/ BargeEnds(b)
CleanupStep == CleanupCancels \/ CleanupRemoves

Next ==
  \/ \E p \in Playbacks : Play(p) \/ Starts(p) \/ Ends(p) \/ Playback(p) \/ GatingFallback(p)
  \/ \E b \in Bargers : (\E vad \in BOOLEAN : BargeIn(b, vad)) \/ BargeStep(b)
  \/ SetBargeIn \/ CleanupBegins \/ CleanupStep

\* ARI answers, timers run out, handlers and tasks run.
Fairness ==
  /\ \A p \in Playbacks : WF_vars(Starts(p) \/ Playback(p)) /\ WF_vars(GatingFallback(p))
  /\ \A b \in Bargers : WF_vars(BargeStep(b))
  /\ WF_vars(CleanupStep)

Spec == Init /\ [][Next]_vars /\ Fairness
-----------------------------------------------------------------------------
Gates == [tokens : SUBSET Playbacks, count : 0..Cardinality(Playbacks),
          playing : BOOLEAN, capture : BOOLEAN]

(* The types of the state. *)
TypeOK ==
  /\ gate \in Gates
  /\ override \in BOOLEAN /\ stored \in BOOLEAN
  /\ cleanup \in {"no", "begun", "cancelled", "done"}
  /\ refs \subseteq Playbacks /\ files \subseteq Playbacks /\ timers \subseteq Playbacks
  /\ player \in [Playbacks -> {"none", "ari", "over"}]
  /\ asterisk \in [Playbacks -> {"none", "playing", "finished", "over"}]
  /\ barge \in [Bargers -> [at : {"idle", "stream", "stop"}, todo : SUBSET Playbacks,
                            vad : BOOLEAN]]
  /\ ungated \subseteq Playbacks /\ leaked \subseteq Playbacks

(* set_gating_token, clear_gating_token: "active_count must match the token set
   size", though the end of a playback may be told three times, by the event,
   the fallback and a barge-in; and the call plays while a token is held.    *)
TokensAreCounted ==
  /\ gate.count = Cardinality(gate.tokens)
  /\ gate.playing <=> gate.tokens # {}

(* While tokens are held the recognizer gets no audio.  The one exception is the
   VAD path of a barge-in that is switched off: it enables capture with the
   tokens that are held then.                                                *)
GatedWhileHeld == gate.capture /\ cleanup # "done" => gate.tokens \subseteq ungated

(* Both at once: the gate is as shut as the tokens say. *)
GateMatchesTokens == TokensAreCounted /\ GatedWhileHeld

(* What the caller hears is not recognized, whatever else ends meanwhile: a
   playback that is audible in a live call is gated, unless it lost its own
   token early, to a barge-in that could not stop it, to its timer or to the
   loss of the answer to its request.                                        *)
PlayingIsGated == \A p \in Playbacks :
  asterisk[p] = "playing" /\ stored /\ cleanup = "no" => ~gate.capture \/ p \in ungated

(* A token of a live call is never orphaned: its request is in flight, or both its
   reference and its timer exist, so that it goes even if every event is lost.*)
TokenHasReleaser == \A p \in gate.tokens :
  stored /\ cleanup \in {"no", "begun"} => player[p] = "ari" \/ (p \in refs /\ p \in timers)

(* conversation_coordinator.py, line 94: "Disable audio capture for the duration of a
   TTS playback."  What is audible in a live call whose caller does not interrupt
   is gated, by whatever token.  It does not hold: a playback whose request was
   answered into a lost connection goes on without one.                      *)
GatedForTheDuration ==
  ~gate.capture \/ cleanup # "no" \/ \A p \in Playbacks : asterisk[p] # "playing"

(* An audio file is removed by whoever ends its playback; only a request that
   failed or was cancelled leaves its file behind.                           *)
FileHasOwner == \A p \in files : p \in leaked \/ player[p] = "ari" \/ (p \in refs /\ p \in timers)

(* The caller is heard again, lost events or not. *)
GateReopens == gate.tokens # {} ~> gate.tokens = {} \/ cleanup = "done"

(* remove_call, line 78: "Remove a call session and all its channel mappings", and
   list_active_calls, line 229: "Get list of active call IDs".  An ended call
   is not in the store.  It does not hold: a barge-in that ends after the cleanup
   saves the session again (README, Observations).                           *)
EndedIsGone == cleanup = "done" => ~stored
=============================================================================
