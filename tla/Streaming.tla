------------------------------ MODULE Streaming ------------------------------
(***************************************************************************)
(* Streaming playback of one call: src/core/streaming_playback_manager.py  *)
(* and the two places of src/engine.py that feed it, the AgentAudio events *)
(* of a realtime provider and the dialog worker of a pipeline.             *)
(*                                                                         *)
(* A stream is three tasks: the producer (_stream_audio_loop) moves chunks *)
(* from the engine's queue to the jitter buffer, the pacer (_pacer_loop)   *)
(* sends one frame per tick, the keepalive task watches the clock.  What   *)
(* they share is kept per call, not per stream: active_streams[call_id],   *)
(* jitter_buffers[call_id], frame_remainders[call_id].                     *)
(*                                                                         *)
(* A step is the code of one task between two suspensions (a queue, a      *)
(* sleep, a request to ARI).  Abstracted: the encoding of audio (a chunk   *)
(* is FramesPerChunk whole frames), filler frames, the watermark waits,    *)
(* the idle cutoff (it needs the sentinel, and then the pacer has finished *)
(* already), metrics; a deadline passes whenever what it waits for has not *)
(* happened.  The call itself lives on: its end is in CallAudio.           *)
(***************************************************************************)
EXTENDS Integers, Sequences, FiniteSets

CONSTANTS
  Providers,       (* subset of {"agent", "live", "pipeline"}               *)
  Continuous,      (* values of streaming.continuous_stream: SUBSET BOOLEAN *)
  Bargers,         (* tasks that may apply a barge-in                       *)
  FramesPerChunk,  (* frames in a chunk                                     *)
  MinStart,        (* min_start_chunks                                      *)
  QueueSize,       (* maxsize of the engine's queue (256)                   *)
  JitterSize,      (* jb_chunks                                             *)
  MaxChunks,       (* bound on the chunks of the provider                   *)
  MaxQueues,       (* bound on the queues the engine creates                *)
  MaxErrors,       (* bound on failures of the transport and of ARI         *)
  MaxStops         (* bound on barge-ins                                    *)

ASSUME StreamingAssumption ==
  /\ Providers \subseteq {"agent", "live", "pipeline"}
  /\ Continuous \subseteq BOOLEAN
  /\ "producer" \notin Bargers /\ "none" \notin Bargers   \* the others that clean up
  /\ {FramesPerChunk, MinStart, QueueSize, JitterSize, MaxQueues} \subseteq Nat \ {0}
  /\ {MaxChunks, MaxErrors, MaxStops} \subseteq Nat

Queues  == 1..MaxQueues
Streams == 1..MaxQueues      \* a stream is only started with a new queue
Chunks  == 1..MaxChunks
Frames  == 1..(MaxChunks * FramesPerChunk)
End     == 0                 \* None in a queue, _JITTER_SENTINEL in a buffer
Segment == 0                 \* the token tts_segment:<call_id>

VARIABLES
  provider,   (* "agent": deepgram, openai_realtime, elevenlabs_agent;      *)
              (* "live": google_live, local; "pipeline"                     *)
  continuous, (* continuous_stream                                          *)
  fed,        (* chunks the provider has produced                           *)
  open,       (* a response is being produced                               *)
  feedQ,      (* _provider_stream_queues[call_id], or the worker's stream_q *)
  q, nq,      (* the queues, and how many have been created                 *)
  segActive,  (* call_id in _segment_tts_active                             *)
  ns,         (* streams started                                            *)
  reader,     (* the queue a stream reads                                   *)
  prod,       (* where a producer is suspended: "get", "put", "end" (puts   *)
              (* the sentinel), "file", "drain", "clean", "stuck"; "done"   *)
  held,       (* the chunk a producer has got and not put                   *)
  pacer,      (* "tick", "mute", "unmute", "file"; "done"                   *)
  rec,        (* the stream whose record a pacer that awaits ARI has read   *)
  keep,       (* keepalive task: "on", "file", "off"                        *)
  keepTask,   (* keepalive_tasks[call_id]: its stream, or 0                 *)
  jit, jb,    (* the jitter buffers, and jitter_buffers[call_id], or 0      *)
  active,     (* active_streams[call_id]: the stream, or 0                  *)
  info,       (* its record, per stream                                     *)
  ready,      (* _startup_ready[call_id]                                    *)
  rem,        (* frame_remainders[call_id]                                  *)
  tokens,     (* gating tokens of the session that streams have set         *)
  muted,      (* the caller's channel is muted in Asterisk                  *)
  sent, filed,(* history: frames sent, frames handed to file playback       *)
  clean,      (* _cleanup_stream in progress: [s, by, at], or NoClean       *)
  barge,      (* a barge-in: "idle" or "stop" (awaits the stop)             *)
  flawed,     (* history: interruptions that left something behind          *)
  nErrors, nStops

feedVars  == <<fed, open, feedQ, nq, segActive>>
taskVars  == <<ns, reader, prod, held, pacer, rec, keep, keepTask>>
bufVars   == <<q, jit, jb, rem>>
callVars  == <<active, info, ready, tokens, muted>>
outVars   == <<sent, filed>>
stopVars  == <<clean, barge, flawed>>
vars == <<provider, continuous, feedVars, taskVars, bufVars, callVars, outVars,
          stopVars, nErrors, nStops>>

NoClean  == [s |-> 0, by |-> "none", at |-> "none"]
NewInfo  == [muted |-> FALSE, first |-> FALSE, seg |-> 0, barge |-> FALSE]

Init ==
  /\ provider \in Providers /\ continuous \in Continuous
  /\ fed = 0 /\ open = FALSE /\ feedQ = 0 /\ nq = 0 /\ segActive = FALSE
  /\ q = [k \in Queues |-> <<>>]
  /\ ns = 0 /\ reader = [s \in Streams |-> 0] /\ held = [s \in Streams |-> 0]
  /\ prod = [s \in Streams |-> "done"] /\ pacer = [s \in Streams |-> "done"]
  /\ rec = [s \in Streams |-> 0] /\ keep = [s \in Streams |-> "off"] /\ keepTask = 0
  /\ jit = [s \in Streams |-> <<>>] /\ jb = 0 /\ rem = <<>>
  /\ active = 0 /\ info = [s \in Streams |-> NewInfo] /\ ready = FALSE
  /\ tokens = {} /\ muted = FALSE
  /\ sent = <<>> /\ filed = <<>>
  /\ clean = NoClean /\ barge = [b \in Bargers |-> "idle"] /\ flawed = {}
  /\ nErrors = 0 /\ nStops = 0
-----------------------------------------------------------------------------
(* Shared pieces *)

\* The frames of the chunks in a queue or buffer, in order.
FramesOf(cs) ==
  LET F == FramesPerChunk
  IN [i \in 1..(Len(cs) * F) |-> (cs[1 + (i - 1) \div F] - 1) * F + 1 + ((i - 1) % F)]
UnpackAll(buf) == FramesOf(buf)               \* variant: the sentinel is played
\* The sentinel is skipped; nothing is ever put behind it (TypeOK).
Audio(buf) == IF buf # <<>> /\ buf[Len(buf)] = End THEN SubSeq(buf, 1, Len(buf) - 1) ELSE buf
Unpack(buf) == FramesOf(Audio(buf))

\* is_stream_active: the streaming task is not done
NeverActive == FALSE                          \* variant: no stream is reused
IsActive == active # 0 /\ prod[active] # "done"

Gated == provider # "agent"   \* FULL_AGENT_PROVIDERS are not gated at the start

\* start_streaming_playback with queue k.  A stream that is active is reused,
\* and nobody will read k.
StartStream(k, gate) ==
  IF IsActive
  THEN /\ tokens' = tokens \cup gate
       /\ UNCHANGED <<taskVars, jit, jb, active, info, ready>>
  ELSE LET s == ns + 1 IN
       /\ ns' = s
       /\ reader' = [reader EXCEPT ![s] = k]
       /\ prod' = [prod EXCEPT ![s] = "get"] /\ pacer' = [pacer EXCEPT ![s] = "tick"]
       /\ keep' = [keep EXCEPT ![s] = "on"] /\ keepTask' = s
       /\ jb' = s /\ active' = s
       /\ ready' \in BOOLEAN          \* depends on the provider's cached pattern
       /\ tokens' = tokens \cup gate \cup (IF Gated THEN {s} ELSE {})
       /\ UNCHANGED <<held, rec, jit, info>>

\* _fallback_to_file_playback: what is buffered for the call, whoever asks.
\* The sentinel goes with it.
Buffered == rem \o (IF jb = 0 THEN <<>> ELSE Unpack(jit[jb]))
TakeBuffered ==
  /\ filed' = filed \o Buffered
  /\ rem' = <<>>
  /\ jit' = IF jb = 0 THEN jit ELSE [jit EXCEPT ![jb] = <<>>]
-----------------------------------------------------------------------------
(* The engine's side: a realtime provider *)

\* "AgentAudio": segment gating (continuous mode), a queue and a stream if
\* there is no queue, the chunk dropped if the queue is full.
AgentAudio ==
  LET gate == IF ~continuous \/ segActive THEN {}
              ELSE IF active # 0 THEN {active}
              ELSE IF tokens = {} THEN {Segment} ELSE {}
      k    == IF feedQ = 0 THEN nq + 1 ELSE feedQ
  IN /\ provider # "pipeline" /\ fed < MaxChunks
     /\ feedQ = 0 => nq < MaxQueues
     /\ fed' = fed + 1 /\ open' = TRUE
     /\ segActive' = (segActive \/ continuous)
     /\ feedQ' = k
     /\ q' = IF Len(q[k]) < QueueSize THEN [q EXCEPT ![k] = Append(@, fed + 1)] ELSE q
     /\ IF feedQ = 0
        THEN nq' = k /\ StartStream(k, gate)
        ELSE /\ tokens' = tokens \cup gate
             /\ UNCHANGED <<nq, taskVars, jit, jb, active, info, ready>>
     /\ UNCHANGED <<provider, continuous, rem, muted, outVars, stopVars, nErrors, nStops>>

\* "AgentAudioDone".  Continuous: mark_segment_boundary, end_segment_gating,
\* the fallback token, and gating is armed again for "live" providers.
BoundaryKeepsToken == tokens \ {Segment}     \* variant: end_segment_gating not called
BoundaryTokens == tokens \ {active, Segment}

AgentAudioDone ==
  /\ provider # "pipeline" /\ open
  /\ open' = FALSE
  /\ IF continuous
     THEN /\ info' = IF active = 0 THEN info
                     ELSE [info EXCEPT ![active].seg = 1, ![active].first = FALSE]
          /\ tokens' = BoundaryTokens
          /\ segActive' = (segActive /\ provider # "live")
          /\ UNCHANGED <<q, feedQ>>
     ELSE /\ q' = IF feedQ = 0 THEN q ELSE [q EXCEPT ![feedQ] = Append(@, End)]
          /\ feedQ' = 0
          /\ UNCHANGED <<info, tokens, segActive>>
  /\ UNCHANGED <<provider, continuous, fed, nq, taskVars, jit, jb, rem, active,
                 ready, muted, outVars, stopVars, nErrors, nStops>>
-----------------------------------------------------------------------------
(* The engine's side: the dialog worker of a pipeline *)

\* Every response has a queue of its own.
Speak ==
  /\ provider = "pipeline" /\ ~open /\ nq < MaxQueues /\ fed < MaxChunks
  /\ open' = TRUE /\ nq' = nq + 1 /\ feedQ' = nq + 1
  /\ StartStream(nq + 1, {})
  /\ UNCHANGED <<provider, continuous, fed, segActive, q, rem, muted, outVars,
                 stopVars, nErrors, nStops>>

\* await stream_q.put(tts_chunk)
Synthesize ==
  /\ provider = "pipeline" /\ open /\ fed < MaxChunks
  /\ Len(q[feedQ]) < QueueSize
  /\ fed' = fed + 1
  /\ q' = [q EXCEPT ![feedQ] = Append(@, fed + 1)]
  /\ UNCHANGED <<provider, continuous, open, feedQ, nq, segActive, taskVars, jit, jb,
                 rem, callVars, outVars, stopVars, nErrors, nStops>>

\* put_nowait(None), or a task that puts it when there is room
Spoken ==
  /\ provider = "pipeline" /\ open
  /\ open' = FALSE /\ feedQ' = 0
  /\ q' = [q EXCEPT ![feedQ] = Append(@, End)]
  /\ UNCHANGED <<provider, continuous, fed, nq, segActive, taskVars, jit, jb, rem,
                 callVars, outVars, stopVars, nErrors, nStops>>
-----------------------------------------------------------------------------
(* The producer *)

Room(s) == Len(jit[s]) < JitterSize

\* An item of the queue goes to the jitter buffer, at once if there is room.
Get(s) ==
  /\ prod[s] = "get" /\ q[reader[s]] # <<>>
  /\ LET item == Head(q[reader[s]]) IN
     /\ q' = [q EXCEPT ![reader[s]] = Tail(@)]
     /\ IF Room(s)
        THEN /\ jit' = [jit EXCEPT ![s] = Append(@, item)]
             /\ prod' = [prod EXCEPT ![s] = IF item = End THEN "drain" ELSE "get"]
             /\ UNCHANGED held
        ELSE /\ prod' = [prod EXCEPT ![s] = IF item = End THEN "end" ELSE "put"]
             /\ held' = [held EXCEPT ![s] = item]
             /\ UNCHANGED jit
  /\ UNCHANGED <<provider, continuous, feedVars, ns, reader, rec, pacer, keep, keepTask,
                 jb, rem, callVars, outVars, stopVars, nErrors, nStops>>

Put(s) ==
  /\ prod[s] \in {"put", "end"} /\ Room(s)
  /\ jit' = [jit EXCEPT ![s] = Append(@, held[s])]
  /\ prod' = [prod EXCEPT ![s] = IF @ = "end" THEN "drain" ELSE "get"]
  /\ held' = [held EXCEPT ![s] = 0]
  /\ UNCHANGED <<provider, continuous, feedVars, ns, reader, rec, pacer, keep, keepTask,
                 q, jb, rem, callVars, outVars, stopVars, nErrors, nStops>>

\* fallback_timeout_ms without a chunk.  A continuous stream stays; another one
\* plays what is buffered as a file and ends.
ChunkTimeout(s) ==
  /\ prod[s] = "get" /\ q[reader[s]] = <<>> /\ ~continuous
  /\ TakeBuffered
  /\ prod' = [prod EXCEPT ![s] = IF Buffered = <<>> THEN "end" ELSE "file"]
  /\ held' = [held EXCEPT ![s] = End]
  /\ UNCHANGED <<provider, continuous, feedVars, ns, reader, rec, pacer, keep, keepTask,
                 q, jb, callVars, stopVars, nErrors, nStops, sent>>

\* play_audio of the file has returned.
ProducerFiled(s) ==
  /\ prod[s] = "file" /\ prod' = [prod EXCEPT ![s] = "end"]
  /\ UNCHANGED <<provider, continuous, feedVars, ns, reader, rec, held, pacer, keep, keepTask,
                 bufVars, callVars, outVars, stopVars, nErrors, nStops>>

\* The pacer does not get to the sentinel: it awaits ARI, the warm-up needs more
\* than there is, or the buffer has been taken with the sentinel.
Available == Len(Buffered)
WarmUpAlways == MinStart                      \* variant: for each segment
WarmUp    == IF continuous /\ info[active].seg > 0 THEN 0 ELSE MinStart
Warm      == ready \/ Available >= WarmUp
PacerHangs(s) == pacer[s] # "tick" \/ ~Warm \/ (rem = <<>> /\ jit[s] = <<>>)

\* A pacer that is cancelled during a request does not know what came of it.
CancelPacer(s) ==
  /\ pacer' = [pacer EXCEPT ![s] = "done"]
  /\ muted' \in (IF pacer[s] = "mute" THEN {muted, TRUE}
                 ELSE IF pacer[s] = "unmute" THEN {muted, FALSE} ELSE {muted})
  /\ flawed' = IF pacer[s] = "mute" THEN flawed \cup {"mute"} ELSE flawed

\* The end of _stream_audio_loop: it waits for the pacer as long as the buffer
\* takes to drain, then ends it; cancels the keepalive task; cleans up.
\* It is the pacer of the stream that active_streams holds now, if any.
Drained(s) ==
  /\ prod[s] = "drain"
  /\ active # 0 => PacerHangs(active)
  /\ IF active = 0 THEN UNCHANGED <<pacer, muted, flawed>> ELSE CancelPacer(active)
  /\ keep' = IF keepTask = 0 THEN keep ELSE [keep EXCEPT ![keepTask] = "off"]
  /\ keepTask' = 0
  /\ IF clean = NoClean
     THEN /\ clean' = [s |-> s, by |-> "producer", at |-> "grace"]
          /\ prod' = [prod EXCEPT ![s] = "clean"]
     ELSE prod' = [prod EXCEPT ![s] = "done"] /\ UNCHANGED clean
  /\ UNCHANGED <<provider, continuous, feedVars, ns, reader, rec, held, bufVars, active,
                 info, ready, tokens, outVars, barge, nErrors, nStops>>
-----------------------------------------------------------------------------
(* The pacer *)

\* What is played next of what is buffered for stream s, and what is left.
PendingNewest(s) ==                           \* variant: the newest chunk first
  LET cs == Audio(jit[s])
  IN IF rem # <<>> THEN rem ELSE FramesOf(SubSeq(cs, Len(cs), Len(cs)))
Pending(s) == IF rem # <<>> THEN rem ELSE Unpack(SubSeq(jit[s], 1, 1))
Taken(s)   == IF rem # <<>> THEN jit ELSE [jit EXCEPT ![s] = Tail(@)]
HasFrame(s) == rem # <<>> \/ (jit[s] # <<>> /\ Head(jit[s]) # End)
Ticking(s) == pacer[s] = "tick" /\ active # 0

\* _emit_frame, sent.  With the first real frame the channel is muted.
Emit(s) ==
  /\ Ticking(s) /\ Warm /\ HasFrame(s)
  /\ ready' = TRUE
  /\ sent' = Append(sent, Head(Pending(s)))
  /\ rem' = Tail(Pending(s)) /\ jit' = Taken(s)
  /\ IF info[active].muted \/ info[active].first THEN UNCHANGED <<pacer, rec>>
     ELSE /\ pacer' = [pacer EXCEPT ![s] = "mute"]
          /\ rec' = [rec EXCEPT ![s] = active]
  /\ UNCHANGED <<provider, continuous, feedVars, ns, reader, prod, held, keep, keepTask,
                 q, jb, active, info, tokens, muted, filed, stopVars, nErrors, nStops>>

\* _emit_frame, not sent: the frame goes behind what is left of its chunk, which
\* is newer.
PutBack(s) == Append(Tail(Pending(s)), Head(Pending(s)))
NoteOrder(s) == flawed' = IF Len(Pending(s)) > 1 THEN flawed \cup {"order"} ELSE flawed

\* The greeting is tried again each tick until the caller's RTP address is known.
EmitWaits(s) ==
  /\ Ticking(s) /\ Warm /\ HasFrame(s) /\ nErrors < MaxErrors
  /\ provider # "pipeline" /\ active = 1 /\ sent = <<>>
  /\ nErrors' = nErrors + 1 /\ ready' = TRUE
  /\ rem' = PutBack(s) /\ jit' = Taken(s)
  /\ NoteOrder(s)
  /\ UNCHANGED <<provider, continuous, feedVars, taskVars, q, jb, active, info, tokens,
                 muted, outVars, clean, barge, nStops>>

\* Anything else that is buffered is played as a file, and the pacer ends.
EmitFails(s) ==
  /\ Ticking(s) /\ Warm /\ HasFrame(s) /\ nErrors < MaxErrors
  /\ nErrors' = nErrors + 1
  /\ filed' = filed \o PutBack(s) \o (IF jb = 0 THEN <<>> ELSE Unpack(Taken(s)[jb]))
  /\ rem' = <<>>
  /\ jit' = IF jb = 0 THEN Taken(s) ELSE [Taken(s) EXCEPT ![jb] = <<>>]
  /\ ready' = TRUE
  /\ pacer' = [pacer EXCEPT ![s] = "file"]
  /\ NoteOrder(s)
  /\ UNCHANGED <<provider, continuous, feedVars, ns, reader, rec, prod, held, keep, keepTask,
                 q, jb, active, info, tokens, muted, sent, clean, barge, nStops>>

\* The pacer ends: its stream is gone, it has seen the sentinel, or the file it
\* fell back to has been started.
PacerDone(s) ==
  /\ \/ pacer[s] = "tick" /\ active = 0
     \/ Ticking(s) /\ rem = <<>> /\ jit[s] # <<>> /\ Head(jit[s]) = End /\ Warm
     \/ pacer[s] = "file"
  /\ pacer' = [pacer EXCEPT ![s] = "done"]
  /\ flawed' = IF pacer[s] = "file" /\ continuous THEN flawed \cup {"pacer"} ELSE flawed
  /\ UNCHANGED <<provider, continuous, feedVars, ns, reader, rec, prod, held, keep, keepTask,
                 bufVars, callVars, outVars, clean, barge, nErrors, nStops>>

\* mute_channel has been answered; only success is noted, and the record is put
\* back as the call's stream.
MuteAnswered(s) ==
  /\ pacer[s] = "mute"
  /\ pacer' = [pacer EXCEPT ![s] = "tick"]
  /\ \/ /\ muted' = TRUE
        /\ info' = [info EXCEPT ![rec[s]].muted = TRUE, ![rec[s]].first = TRUE]
        /\ active' = rec[s] /\ UNCHANGED nErrors
     \/ /\ nErrors < MaxErrors /\ nErrors' = nErrors + 1
        /\ UNCHANGED <<muted, info, active>>
  /\ UNCHANGED <<provider, continuous, feedVars, ns, reader, rec, prod, held, keep,
                 keepTask, bufVars, ready, tokens, outVars, stopVars, nStops>>

\* _update_idle_tracking: no real frame for 500 ms.
Idle(s) ==
  /\ Ticking(s) /\ info[active].muted
  /\ ~Warm \/ (rem = <<>> /\ jit[s] = <<>>)
  /\ pacer' = [pacer EXCEPT ![s] = "unmute"] /\ rec' = [rec EXCEPT ![s] = active]
  /\ UNCHANGED <<provider, continuous, feedVars, ns, reader, prod, held, keep, keepTask,
                 bufVars, callVars, outVars, stopVars, nErrors, nStops>>

UnmuteAnswered(s) ==
  /\ pacer[s] = "unmute"
  /\ pacer' = [pacer EXCEPT ![s] = "tick"]
  /\ \/ /\ muted' = FALSE
        /\ info' = [info EXCEPT ![rec[s]].muted = FALSE]
        /\ active' = rec[s] /\ UNCHANGED nErrors
     \/ /\ nErrors < MaxErrors /\ nErrors' = nErrors + 1
        /\ UNCHANGED <<muted, info, active>>
  /\ UNCHANGED <<provider, continuous, feedVars, ns, reader, rec, prod, held, keep,
                 keepTask, bufVars, ready, tokens, outVars, stopVars, nStops>>
-----------------------------------------------------------------------------
(* The keepalive task: last_chunk_time is the start of the stream, so a stream
   longer than connection_timeout_ms always times out.                       *)

KeepaliveTimeout(s) ==
  /\ keep[s] = "on" /\ active # 0 /\ ~continuous
  /\ TakeBuffered
  /\ keep' = [keep EXCEPT ![s] = IF Buffered = <<>> THEN "off" ELSE "file"]
  /\ UNCHANGED <<provider, continuous, feedVars, ns, reader, rec, prod, held, pacer, keepTask,
                 q, jb, callVars, sent, stopVars, nErrors, nStops>>

KeepaliveDone(s) ==
  /\ keep[s] = "file" \/ (keep[s] = "on" /\ active = 0)
  /\ keep' = [keep EXCEPT ![s] = "off"]
  /\ UNCHANGED <<provider, continuous, feedVars, ns, reader, rec, prod, held, pacer, keepTask,
                 bufVars, callVars, outVars, stopVars, nErrors, nStops>>
-----------------------------------------------------------------------------
(* _cleanup_stream, by a producer or by the task that stops the stream *)

\* What is left of a barge-in after the stop: the queue of the provider is
\* dropped, every gating token of the session is cleared.
BargedQueue == IF provider = "pipeline" THEN feedQ ELSE 0

FinishBarge(b) ==
  /\ feedQ' = BargedQueue
  /\ tokens' = {}
  /\ barge' = [barge EXCEPT ![b] = "idle"]

\* The end: whatever stream the call has now is removed.
RemoveStream ==
  /\ active' = 0 /\ jb' = 0 /\ rem' = <<>> /\ ready' = FALSE
  /\ clean' = NoClean
  /\ IF clean.by = "producer"
     THEN prod' = [prod EXCEPT ![clean.s] = "done"] /\ UNCHANGED <<feedQ, barge>>
     ELSE FinishBarge(clean.by) /\ UNCHANGED prod

KeepsToken == tokens                          \* variant: gating not cleared
CleanedTokens == tokens \ {clean.s}

\* The grace has passed: a remainder is flushed (one frame, unless the caller
\* barged in), the token is cleared, the channel unmuted if it is muted.
NoteOrphan == IF active \in {0, clean.s} THEN {} ELSE {"orphan"}

Cleanup ==
  /\ clean.at = "grace"
  /\ sent' = IF rem # <<>> /\ ~(active # 0 /\ info[active].barge)
             THEN Append(sent, Head(rem)) ELSE sent
  /\ flawed' = flawed \cup NoteOrphan
  /\ IF active # 0 /\ info[active].muted
     THEN /\ clean' = [clean EXCEPT !.at = "unmute"]
          /\ tokens' = CleanedTokens
          /\ UNCHANGED <<active, jb, rem, ready, prod, feedQ, barge>>
     ELSE /\ RemoveStream
          /\ clean.by = "producer" => tokens' = CleanedTokens
  /\ UNCHANGED <<provider, continuous, fed, open, nq, segActive, ns, reader, rec, held, pacer,
                 keep, keepTask, q, jit, info, muted, filed, nErrors, nStops>>

CleanupUnmuted ==
  /\ clean.at = "unmute"
  /\ \/ muted' = FALSE /\ UNCHANGED nErrors
     \/ nErrors < MaxErrors /\ nErrors' = nErrors + 1 /\ UNCHANGED muted
  /\ RemoveStream
  /\ clean.by = "producer" => UNCHANGED tokens
  /\ flawed' = flawed \cup NoteOrphan \cup (IF muted' THEN {"unmute"} ELSE {})
  /\ UNCHANGED <<provider, continuous, fed, open, nq, segActive, ns, reader, rec, held, pacer,
                 keep, keepTask, q, jit, info, outVars, nStops>>
-----------------------------------------------------------------------------
(* A barge-in: _apply_barge_in_action, of which stop_streaming_playback *)

\* A producer that is cancelled puts the sentinel first (it waits for ever if
\* the buffer is full: nobody drains it any more); one that is cleaning up
\* leaves the rest of the cleanup undone.
CancelProducer(s) ==
  LET wants == prod[s] \in {"get", "put", "end", "file"} IN
  /\ prod' = [prod EXCEPT ![s] = IF wants /\ ~Room(s) THEN "stuck" ELSE "done"]
  /\ jit' = IF wants /\ Room(s) THEN [jit EXCEPT ![s] = Append(@, End)] ELSE jit

Barge(b) ==
  LET s == active
      aborted == clean.by = "producer" /\ prod[s] = "clean"
  IN
  /\ barge[b] = "idle" /\ nStops < MaxStops /\ active # 0
  /\ nStops' = nStops + 1
  /\ info' = [info EXCEPT ![s].barge = TRUE]
  /\ CancelProducer(s)
  /\ pacer' = [pacer EXCEPT ![s] = "done"]
  /\ muted' \in (IF pacer[s] = "mute" THEN {muted, TRUE}
                 ELSE IF pacer[s] = "unmute" \/ (aborted /\ clean.at = "unmute")
                      THEN {muted, FALSE} ELSE {muted})
  /\ flawed' = flawed \cup (IF pacer[s] = "mute" THEN {"mute"} ELSE {})
                      \cup (IF aborted THEN {"cleanup"} ELSE {})
  /\ keep' = IF keepTask = 0 THEN keep ELSE [keep EXCEPT ![keepTask] = "off"]
  /\ keepTask' = 0
  /\ IF clean = NoClean
     THEN /\ clean' = [s |-> s, by |-> b, at |-> "grace"]
          /\ barge' = [barge EXCEPT ![b] = "stop"]
          /\ UNCHANGED <<feedQ, tokens>>
     ELSE /\ clean' = IF aborted THEN NoClean ELSE clean
          /\ FinishBarge(b)
  /\ UNCHANGED <<provider, continuous, fed, open, nq, segActive, ns, reader, rec, held, q,
                 jb, rem, active, ready, outVars, nErrors>>

\* Nothing is streamed, but the call plays or holds a token (what was handed to a
\* file may be playing): the queue and the tokens go.
BargeIdle(b) ==
  /\ barge[b] = "idle" /\ nStops < MaxStops /\ active = 0 /\ (tokens # {} \/ filed # <<>>)
  /\ nStops' = nStops + 1
  /\ FinishBarge(b)
  /\ UNCHANGED <<provider, continuous, fed, open, nq, segActive, taskVars, bufVars,
                 active, info, ready, muted, outVars, clean, flawed, nErrors>>
-----------------------------------------------------------------------------
Feed == AgentAudio \/ AgentAudioDone \/ Speak \/ Synthesize \/ Spoken
Producer(s) == Get(s) \/ Put(s) \/ ChunkTimeout(s) \/ ProducerFiled(s) \/ Drained(s)
Pacer(s) == Emit(s) \/ EmitWaits(s) \/ EmitFails(s) \/ PacerDone(s) \/ MuteAnswered(s) \/ Idle(s)
              \/ UnmuteAnswered(s)
Keepalive(s) == KeepaliveTimeout(s) \/ KeepaliveDone(s)

Next == \/ Feed
        \/ \E s \in Streams : Producer(s) \/ Pacer(s) \/ Keepalive(s)
        \/ Cleanup \/ CleanupUnmuted
        \/ \E b \in Bargers : Barge(b) \/ BargeIdle(b)

\* Tasks run, ARI answers, the provider finishes what it says.
Fairness ==
  /\ WF_vars(AgentAudioDone) /\ WF_vars(Spoken)
  /\ \A s \in Streams : WF_vars(Producer(s)) /\ WF_vars(Pacer(s)) /\ WF_vars(Keepalive(s))
  /\ WF_vars(Cleanup) /\ WF_vars(CleanupUnmuted)

Spec == Init /\ [][Next]_vars /\ Fairness
-----------------------------------------------------------------------------
\* A buffer of chunks, the sentinel being the last item if it is there.
Buffers == {b \in Seq(Chunks \cup {End}) : \A i \in 1..(Len(b) - 1) : b[i] # End}

(* The types of the state. *)
TypeOK ==
  /\ provider \in Providers /\ continuous \in Continuous
  /\ fed \in 0..MaxChunks /\ nq \in 0..MaxQueues /\ feedQ \in 0..nq
  /\ {open, segActive, ready, muted} \subseteq BOOLEAN
  /\ q \in [Queues -> Buffers]
  /\ ns \in 0..nq /\ {active, jb, keepTask} \subseteq Streams \cup {0}
  /\ reader \in [Streams -> Queues \cup {0}] /\ held \in [Streams -> Chunks \cup {End}]
  /\ prod \in [Streams -> {"get", "put", "end", "file", "drain", "clean", "stuck", "done"}]
  /\ pacer \in [Streams -> {"tick", "mute", "unmute", "file", "done"}]
  /\ rec \in [Streams -> Streams \cup {0}] /\ keep \in [Streams -> {"on", "file", "off"}]
  /\ jit \in [Streams -> Buffers] /\ \A s \in Streams : Len(jit[s]) <= JitterSize
  /\ info \in [Streams -> [muted : BOOLEAN, first : BOOLEAN, seg : {0, 1}, barge : BOOLEAN]]
  /\ {rem, sent, filed} \subseteq Seq(Frames)
  /\ tokens \subseteq Streams \cup {Segment}
  /\ clean \in [s : Streams \cup {0}, by : Bargers \cup {"none", "producer"},
                at : {"none", "grace", "unmute"}]
  /\ barge \in [Bargers -> {"idle", "stop"}]
  /\ flawed \subseteq {"order", "mute", "unmute", "cleanup", "pacer", "orphan"}

Elems(f) == {f[i] : i \in DOMAIN f}
Ascending(f) == \A i, j \in DOMAIN f : i < j => f[i] < f[j]
Barged == \E b \in Bargers : barge[b] = "stop"

(* What the caller hears live is in the order the provider produced it: through
   the engine's queue, the jitter buffer, the remainder, a segment boundary, a
   barge-in and the stream after it.  Two exceptions, both described in the
   README: a frame put back behind the rest of its chunk ("order"), and a stream
   removed by the cleanup of the one before ("orphan").                      *)
InOrder == flawed \cap {"order", "orphan"} = {} => Ascending(sent)

(* No audio is played twice, live or as a file: the fallback of the pacer, the
   timeout of the producer, the keepalive and the flush at the end all take from
   the same buffer.                                                          *)
PlayedOnce == "orphan" \notin flawed =>
  /\ Cardinality(Elems(sent)) = Len(sent) /\ Cardinality(Elems(filed)) = Len(filed)
  /\ Elems(sent) \cap Elems(filed) = {}

(* Both at once: every frame in its place and only there. *)
PlayedInOrder == InOrder /\ PlayedOnce

(* At most one pacer sends to the caller. *)
OnePacer == "orphan" \notin flawed =>
  \A s, t \in Streams : Ticking(s) /\ Ticking(t) => s = t

(* The token of a stream, which keeps the caller from being heard by the
   recognizer, has somebody who will clear it: its producer, the cleanup in
   progress, or a barge-in that awaits its stop.                             *)
TokenHasOwner == "orphan" \notin flawed =>
  \A s \in tokens \ {Segment} :
    prod[s] \notin {"done", "stuck"} \/ clean.s = s \/ Barged

(* A continuous stream of a provider: the queue its audio goes to is read, unless
   a barge-in is about to drop it.                                           *)
QueueIsRead == (continuous /\ provider # "pipeline" /\ feedQ # 0 /\ flawed = {}) =>
  (\E s \in Streams : reader[s] = feedQ /\ prod[s] \in {"get", "put"}) \/ Barged

(* Neither a token nor a queue is left to nobody. *)
NothingLeftBehind == TokenHasOwner /\ QueueIsRead

(* The caller is heard again: once the provider has finished, or the caller has
   barged in, every gating token goes.                                       *)
GateReopens == tokens # {} ~> tokens = {} \/ flawed # {}

(* A muted channel is unmuted, by the pacer after half a second without audio or
   by the cleanup, unless one of the interruptions in flawed came between.   *)
UnmutedAgain == muted ~> ~muted \/ flawed # {}

(* Both at once: whatever shut the caller out is undone. *)
CallerHeardAgain == GateReopens /\ UnmutedAgain

(* In a continuous stream audio comes out even if the answer is shorter than the
   warm-up: the segment boundary lifts the warm-up.                          *)
Said(c) == (c - 1) * FramesPerChunk + 1 \in Elems(sent) \cup Elems(filed)
AudioComesOut ==
  (continuous /\ feedQ # 0 /\ provider # "pipeline" /\ q[feedQ] # <<>> /\ Head(q[feedQ]) = 1)
    ~> (Said(1) \/ nStops > 0 \/ flawed # {})

(* _cleanup_stream: "Unmute channel before cleanup if still muted.  This ensures user
   can speak even if unmute didn't trigger during streaming".  It does not hold when
   the pacer is cancelled while its mute is in flight.                       *)
UserCanSpeak == muted ~> ~muted

(* _emit_frame, lines 1328-1330, of the frame that could not be sent: "Append frame
   to end (chronological order)".  It does not hold of a chunk of several frames. *)
Chronological == Ascending(sent) /\ Ascending(filed)

(* start_streaming_playback, line 419: audio_chunks is the "Queue of audio chunks to
   stream".  When nothing is streamed, no audio is left in a queue nobody has
   read.  It does not hold unless the stream is a provider's and continuous (README,
   Observations).                                                            *)
EveryQueueStreams ==
  ~IsActive => \A k \in 1..nq : Elems(q[k]) \ {End} # {} => \E s \in Streams : reader[s] = k
=============================================================================
