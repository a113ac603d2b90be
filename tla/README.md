# Verification of the Asterisk AI voice agent

TLA+ models of `ava_napaphon`, an AI voice agent for Asterisk with an outbound
campaign dialer, the TLC runs that check them on small instances, and TLAPS
proofs for the properties that matter most. Paths are relative to the
repository; `engine.py` is `src/engine.py`, `outbound_store.py` is
`src/core/outbound_store.py`, and so on.

## 1. The system

The engine (`engine.py`) is one asyncio process. It receives ARI events from
Asterisk over a websocket, **starts a task for each** (`ari_client.py:168-172`),
and answers with ARI HTTP requests. Tasks interleave wherever one awaits
something that is not ready: an HTTP request, a database call in a worker
thread, a timer, a subprocess. (Taking a free `asyncio.Lock` is no such point:
the methods of `SessionStore` never await inside their lock, so each runs as one
step with the code around it.) The Admin UI backend is a second process which
shares the database with the engine and nothing else.

| part | state it keeps | operations | interacts with | what makes it correct |
|---|---|---|---|---|
| outbound dialer (`engine.py:994-1855`) | metas of attempts by attempt and by channel, AMD results, channels awaiting AMD | scheduler tick, stale watchdog, originate, answered / AMD / consent / human handlers, ChannelDestroyed | store (DB), ARI, session store, call cleanup | pacing is kept, every attempt is closed once and for the right reason, capacity always comes back |
| outbound store (`outbound_store.py`) | campaigns, leads, attempts in SQLite or Postgres | lease, mark, set state, finish, cleanup, import, recycle, cancel, ignore, delete, stats | engine, Admin API | rows of the three tables agree with each other |
| outbound Admin API (`admin_ui/backend/api/outbound.py`) | none | start, pause, stop, archive, complete, lead operations | store | a request that checks and then acts does no harm in between |
| streaming playback (`streaming_playback_manager.py`, `engine.py:8308-8619, 9879-9933`) | per call: queue, jitter buffer, remainder of a chunk, record of the stream, tokens | start, buffer, pace, fall back to a file, segment boundary, mute, barge in, clean up | providers, ARI, gating | each frame is heard once and in order; whatever shuts the caller out is undone |
| TTS gating and file playback (`session_store.py`, `conversation_coordinator.py`, `playback_manager.py`) | gating tokens, playback references, audio files, capture flag | play, finish, fall back on a timer, barge in | ARI, engine, streaming playback | the caller is heard exactly when nothing is being played, and never muted for good |
| attended transfer (`tools/telephony/attended_transfer.py`, `cancel_transfer.py`, `engine.py:3451-4076`) | the agent's leg, its decision, the guard, the leg's mapping to the call | hold, dial, announce, DTMF, bridge, give up, cancel | ARI, call cleanup | one of caller, agent and AI always talks to somebody; no leg is left behind, none takes the call with it |
| OpenAI Realtime (`providers/openai_realtime.py`, `tools/telephony/hangup.py`) | the websocket, the response in progress, greeting, farewell, reconnect | connect, greet, receive, say goodbye, reconnect, stop | engine, the service | the session is never deaf, ends the call when and only when asked, leaves nothing open |
| call session and cleanup (`engine.py:2209-3300, 4146-4252, 4509-5077, 11729-12139`, `session_store.py`) | `CallSession`, bridges, media channels, provider instances and their starts, cleanup guards | bridge, save, start media, attach it, start the provider, clean up once, write history | everything above | a caller who stays is served by one provider; everything a call takes is given back exactly once |
| MCP client (`mcp/`) | the server process, pending requests, restart count | start, call, time out, exit, stop | tool calls of any call | an answer reaches its own request, processes are bounded and reaped |
| ARI client (`ari_client.py`) | websocket, HTTP session | connect, reconnect with backoff, dispatch, send | engine | events become tasks in order; a reconnect follows every drop |
| RTP server, AudioSocket server (`rtp_server.py`, `audio/audiosocket_server.py`) | port pool, sessions, SSRC map; connections | allocate, bind, send, disconnect | engine, ARI external media | audio of a call never reaches another |
| pipelines, the other providers | connections to STT/LLM/TTS services | stream audio, call tools | engine, external services | mostly the services' own behaviour |
| call history, tenants, configuration | rows, files, caches | save, list, load | engine, Admin UI | sequential |
| Admin UI jobs (`rebuild_jobs.py`, `system.py`, `updater/run.sh`) | job state files | start one job, follow, roll back | docker | one job at a time |
| Admin UI frontend, customer portal, local AI server, CLI, scripts, aviation and menu servers | presentation, model weights, static data | | | |

Hard behaviours: tasks of one call overtaking each other (the callee hangs up
while its StasisStart is still being handled); decisions on state read several
awaits ago; state kept per call where the tasks are per stream; a restart of the
engine while calls are up; lost ARI requests, responses and events; a lost
connection to the speech service; timeouts that race the thing they guard (stale
watchdog, leases, gating fallback, no-answer guard, farewell timeout); an operator
acting on rows the engine has in hand. `PROJECT.json` lists them under "hazards",
each at the line where it bites.

## 2. Plan

The modules, in the order they were written, the most consequential first:

1. **Outbound dialer**: `OutboundStore`, `OutboundDialer` extending it, the
   abstract `CallSlots` it implements, `OutboundDialerProofs`.
2. **MCP client**: `McpClient`, the abstract `Requests` it implements,
   `McpClientProofs`.
3. **Streaming playback**: `Streaming`, `StreamingProofs`.
4. **Gating and file playback**: `CallAudio`, `CallAudioProofs`.
5. **Attended transfer**: `AttendedTransfer`, `AttendedTransferProofs`.
6. **OpenAI Realtime**: `OpenAIRealtime`, `OpenAIRealtimeProofs`.
7. **The call itself**: `CallSetup`, `CallSetupProofs`.

The modules 3-7 each hold one call and see the others as an environment:
`Streaming` hands audio to "a file" and forgets it, `CallAudio` plays it;
`AttendedTransfer`, `CallAudio` and `CallSetup` each contain the part of
`_cleanup_call` that touches their state. They share no state in the code that both of a pair write,
except `audio_capture_enabled`, which each sets for its own reasons.

Open: abstract specifications of a stream and of a transfer, and that the modules
implement them; the reconnect of the ARI client; the single-job rule of
`rebuild_jobs.py`; Google Live's farewell and the local provider's
background reconnect; the pipeline runner, which takes a provider's place in a call.

## 3. The models

### The dialer

`OutboundStore` holds the tables of one campaign. Each action is one SQL
transaction: `LeasePendingLead`, `MarkLeadDialing`, `SetLeadState`,
`FinishAttempt`, `CleanupStale`, ... are the methods of the same names.
`OutboundDialer` EXTENDS it and conjoins these actions with its own state.

| model | code |
|---|---|
| `spc`, `slead`, `satt`, `sidle`, `todo` | where `_outbound_scheduler_loop` stands and its locals |
| `meta[a]` | `_outbound_attempt_meta_by_attempt_id`: `created`, `tracked` (channel known), or `zombie`: the empty dict a late write-back creates, without lead and campaign |
| `byChan[a]`, `amd`, `awaiting` | the other three maps of the dialer |
| `stored`, `sobj` | the call is in `SessionStore`; what the `CallSession` object knows of its campaign and attempt |
| `chan[a]` | the Asterisk channel of attempt `a` (an originated channel belongs to one attempt) |
| `h[a]`, `hm[a]` | the task of the channel's StasisStart, and the meta it found |
| `e[a]`, `d[a]`, `c[a]` | the tasks of StasisEnd and ChannelDestroyed, and the one `_cleanup_call` that passed its guard |
| `asked` | the Admin API request that has checked and not yet acted |
| `recycled`, `late`, `orphans` | history for the properties |

A step is one store transaction or ARI request and the code up to the next one.
The actions, in the order of the code: `StaleProbe`, `StaleFinish`, `StaleLead`
(the watchdog), `BeginTick`, `Lease`, `LeaseNothing`, `ReadStats`,
`MarkCompleted`, `Create`, `Mark`, `Unmark`, `Originate`, `OriginateFailed`,
`OriginateFailedLead`, `SetChannel` (the scheduler); `AnsweredBegin` to
`HandlerHangup` (StasisStart `outbound`); `AmdBegin` to `HumanLead`
(StasisStart `outbound_amd`); `Bridge` to `StartMedia` (the common caller path);
`CleanupHangup` to `RemoveSession` (`_cleanup_call`); `StasisEnd`,
`DestroyedBegin` to `DestroyedCleanup`; `Op...` (Admin API); `Crash`, `Start`,
`WsDrop`, `WsReconnect`, `LeaseTimeout`.
`Answer`, `AmdReturns` and `HangUp` are the world outside `src/`.

Abstractions, each on the safe side of what a property tells apart:

- One campaign. Leases and ages are not dates: a lease may expire at any time, a
  meta that need not be spared may be found stale at any time. How late a task
  may be while that happens is the constant `SlowDuring`.
- The calling window and the pacing interval only delay a tick: `BeginTick` may
  always end the tick instead.
- Store calls do not fail (the engine logs such a failure and goes on); ARI
  requests may be lost (`RequestLost`), the websocket may drop.
- `_save_session` is called several times while the session object is filled
  in; the intermediate saves are merged with the steps they stand between.
- Blind transfers are left out, so is the 900 s after which a
  finished cleanup is forgotten (`_cleanup_completed_at`).
- A graceful stop is the same as a crash: `stop()` cancels the tasks.
- The Admin API's requests that check and then act are two steps; at most one
  request stands between them.

### The MCP client

`McpClient` models `mcp/stdio_client.py`: one client, the server processes it
starts, and the tasks that call through it. A step is the code between two
points where a task is suspended: the backoff sleep, `create_subprocess_exec`,
a future.

| model | code |
|---|---|
| `closing`, `cur`, `restarts`, `nextId`, `pending` | `_closing`, `_proc`, `_restarts`, `_next_id`, `_pending` |
| `proc[p]` | process `p`, in the order of their starts; `broken`: dead, its `returncode` not set yet; `ending`: terminated by `stop` |
| `rx`, `watch`, `fresh`, `follows` | the tasks `_rx_loop` and `_exit_watch` of a start; `fresh`: created, and not run yet; the process they then find in `_proc` |
| `overtaken` | history: processes whose tasks had not run when the next one was there |
| `fut`, `mine`, `pc` | the futures, the one a caller awaits, where it is suspended |
| `idOf`, `to`, `from` | the id a request carries, the process that owes the answer, whose answer settled it |

`Restart` (up to the backoff), `BackoffOver` and `SpawnDone` / `SpawnFails` are
the pieces of `_ensure_started`; `Call` is the way on to the written request,
`Refuse`, `Return` and `Timeout` the ways out; `TasksRun`, `Answer`, `Garbage`,
`ExitWatch` are the client's own tasks; `Stop` is `stop`; `Crash` and the server's
answers are the world outside.

Left out: a write that blocks because the server does not read its input, the
tasks for stderr, notifications of the server, the contents of messages. A
server may leave a request unanswered; it never answers one twice.

### Streaming playback

`Streaming` models one call's live audio. A stream is three tasks, producer, pacer
and keepalive, and almost everything they share is kept per call; the module
numbers the streams so that tasks of an old stream can be seen at work on the
state of a new one.

| model | code |
|---|---|
| `feedQ`, `q`, `segActive`, `open` | `_provider_stream_queues[call_id]` (or the dialog worker's `stream_q`), the queues, `_segment_tts_active`, whether an answer is being produced |
| `prod`, `held`; `pacer`, `rec`; `keep`, `keepTask` | where the three tasks of a stream are suspended and what they hold there |
| `jit`, `jb`, `rem`, `ready`, `active`, `info` | `jitter_buffers`, `frame_remainders`, `_startup_ready`, `active_streams` and the record in it |
| `tokens`, `muted` | gating tokens set by streams; the channel in Asterisk |
| `clean`, `barge` | `_cleanup_stream` and `_apply_barge_in_action` between two awaits |
| `sent`, `filed`, `flawed` | history |

`AgentAudio`, `AgentAudioDone`, `Speak`, `Synthesize`, `Spoken` feed; `Get`, `Put`,
`ChunkTimeout`, `ProducerFiled`, `Drained` are the producer; `Emit`, `EmitFails`,
`EmitWaits`, `MuteAnswered`, `Idle`, `UnmuteAnswered`, `PacerDone` the pacer;
`Cleanup`, `CleanupUnmuted`, `Barge`, `FinishBarge` what ends a stream. The three
kinds of `provider` are the three ways the engine decides whether a stream takes a
token: full agents do not, Google Live and the local provider and pipelines do.

Left out: coalescing of small chunks (`engine.py:8337-8443`), `downstream_mode=file`,
the suppression of output after a barge-in, `on_playback_complete_callback`,
`cleanup_expired_streams`, diagnostics; filler frames and the pacing arithmetic: a
frame leaves whenever one may.

### Gating and file playback

| model | code |
|---|---|
| `gate` | `tts_tokens`, `tts_active_count`, `tts_playing`, `audio_capture_enabled` of the session |
| `stored`, `refs`, `files`, `timers` | the session and `_playbacks` in the store, files in the media directory, `_gating_fallback_task`s |
| `player[p]`, `asterisk[p]` | `play_audio` of a playback, and the playback in Asterisk |
| `barge[b]`, `override` | `_apply_barge_in_action` between two awaits; `barge_in_enabled` |
| `cleanup` | `_cleanup_call` as far as it touches the above |
| `ungated`, `leaked` | history: playbacks whose token went early (by the timer, a barge-in that could not stop them, or the loss of the answer to their request); whose request failed or was cancelled |

`Play`, `PlayAnswered`, `PlayRefused` are `play_audio`, which takes an answer that is lost
for a refusal (`ari_client.py:323-325`), so that `PlayRefused` may come while Asterisk
plays; `Starts`, `Ends`, `EventLost` are Asterisk; `PlaybackFinished` and `GatingFallback` end a playback; `BargeIn`,
`BargeLists`, `BargeStops`, `BargeEnds` are a barge-in.

### Attended transfer

| model | code |
|---|---|
| `action`, `capture`, `stored` | `current_action` and `audio_capture_enabled` of the session, which is in the store |
| `mapped`, `digit` | `_attended_transfer_agent_channel_to_call_id`, `_attended_transfer_dtmf_digits` |
| `leg`, `started`, `ended`, `bridged`, `bridge`, `hold`, `caller`, `ai` | Asterisk: the channels, their events on the way, the bridge, the music, the AI's media leg |
| `tool`, `handler`, `guard`, `cancel`, `cleanup`, `todo` | `AttendedTransferTool.execute`, `_handle_attended_transfer_answered`, `_attended_transfer_timeout_guard`, `CancelTransferTool.execute`, `_cleanup_call`, and what the last has found |
| `quiet`, `by`, `joined`, `engineEnds`, `flawed` | history, and an abort that says nothing to the caller |

Every handler is cut at its ARI requests, at the announcement and the prompt, and
at the wait for a digit. The session is one object that all tasks share, so what
one task writes is visible to the others before it is saved.

### OpenAI Realtime

| model | code |
|---|---|
| `start`, `ws`, `stop`, `awaited` | `start_session`, `self.websocket`, `stop_session` and the receive task it awaits |
| `me` | the flags and ids of the response in progress, the greeting and the farewell |
| `task[t]` | a `_receive_loop`, one per websocket, or `stop_session`, when one of them is inside the engine's handling of `AgentAudioDone` or `HangupReady` |
| `rc`, `tool`, `vadTask`, `timer` | `_reconnect_with_backoff`, the `hangup_call` task, the greeting's fallback, the farewell timeout |
| `sock`, `inbox`, `vad`, `active` | external: the connections, the events on their way, turn detection, the server's response |
| `call`, `asked`, `endedBy`, `overlap`, `left` | the call, `cleanup_after_tts`, history (`left`: websockets that a reconnect replaced while they were open) |

The server may create a response, send audio or none, call the tool, end the
response with one event or two, hear the caller, answer or not, and lose the
connection, at any moment. The receive loop ends when it finds its connection lost
(`ReadsLoss`) or when an event cannot be handled (`ReadFails`), which leaves the
connection open. `HangsUp` takes the engine's request to hang up as carried out: a
request that fails is only logged (`engine.py:8763, 8852`), and nobody repeats it.

### The call itself

`CallSetup` follows one call from the caller's StasisStart to the end of its
cleanup. Four tasks share its session: the caller's handler, the media channel's
handler with its retries, the start of the provider's session, and
`_cleanup_call`. Each holds on to the session object whether or not the store
still has it, and saving puts it back.

| model | code |
|---|---|
| `caller`, `bridge`, `media`, `joined`, `ends` | Asterisk: the channels, the bridge, whether the media channel is in it, the StasisEnd and ChannelDestroyed still to come |
| `sess` | the session: in the store, its media channel's id known or pending, `provider_session_active` |
| `port`, `mapped` | the RTP session (`rtp_server.sessions`) or the bound AudioSocket connection; `pending_audiosocket_channels` and `uuidext_to_channel` |
| `setup`, `handler` | where `_handle_caller_stasis_start_hybrid` and the media channel's handler are suspended, and their attempts |
| `tasks`, `starting` | the running `_start_provider_session`s with the handlers that await them, and `_provider_start_tasks` |
| `provider`, `inst` | `_call_providers`, and what became of each instance |
| `cleanup` | what `_cleanup_call` awaits |
| `bodies`, `settled`, `faulty` | history |

`CreateBridge` to `TalkDetect` are the caller's handler, `ExternalMediaStasis` to
`MediaNotJoined` the media channel's, `StartBegins` to `FailedStopped` the start,
`CleanupProvider` to `CleanupRemoves` the cleanup; `AudioKicksOff` is a frame of the
caller's audio (three places of the engine), `ProviderDies` the engine's
`ProviderDisconnected`; `CallerHangsUp`, `MediaMade`, `MediaEnters`, `MediaDies` and
the TCP connection are the world outside. `external` is the transport; it is chosen
once.

Abstractions: each call has one full-agent provider (no pipeline, no transfer, no
Local channel). The awaits between two saves of the session that change nothing
else are one. Asterisk carries out what the cleanup asks of it; requests of the
others may fail. The 900 s of the completed guard do not pass. Whether the caller
is in the bridge is left out. `Tries` stands for 25 attempts (ExternalMedia) or 5
(AudioSocket).

## 4. Runs

| run | instance | what it asks | distinct states |
|---|---|---|---|
| `dialer_calls` | one lead, two attempts, one slot, human calls, hang-ups while nothing is at work; start, pause, recycle (two of them), one mishap: a restart, a lost request or a dropped websocket | an open attempt is counted (`OpenIsCounted`); a live channel is counted (`LiveIsAccounted`); a conversation's outcome is final (`HumanOutcomeKept`); nobody is called twice without a recycle (`NoAutomaticRetry`); at most one call after a pause (`AtMostOneLateCall`); refinement of `CallSlots` (`SlotsRefined`) | 937,433 |
| `dialer_live` | one lead, one attempt, a second slot so that the scheduler goes on ticking during the call, every AMD verdict, hang-ups and delays at the steps before the conversation, all operator actions (two of them), no mishap; fair | `SlotsReturn`; `LeadsLeaveHand`; `Completes`; a campaign is completed only when idle (`CompletedIsIdle`) | 58,368 |
| `dialer_ghost` | hang-up just before the session is saved | `SlotsReturn` fails | |
| `dialer_walk` | two calls in two slots, both old | `ConversationIsFinal` fails | |
| `mcp_client` | two callers, three calls, one of the callers without a timeout, one restart, two deaths, one bad frame; fair | `StartsBounded`; nobody waits for what nobody will settle (`NobodyStranded`); every exit is noticed (`ExitIsNoticed`); refinement of `Requests` (`RequestsRefined`); every call returns (`CallsReturn`) | 528,606 |
| `streaming` | each kind of provider, both modes, two chunks, a queue of one, a jitter buffer and a warm-up of two, two streams, one barge-in, one failure; fair | typing; each frame once and in order (`PlayedInOrder`); one pacer (`OnePacer`); no token and no queue without an owner (`NothingLeftBehind`); `CallerHeardAgain`; `AudioComesOut` | 408,723 |
| `call_audio` | two playbacks, one barge-in, `set_barge_in`, lost events, refused requests, lost answers, the end of the call; fair | tokens, count and flags agree (`GateMatchesTokens`); no echo (`PlayingIsGated`); `TokenHasReleaser`; `FileHasOwner`; `GateReopens` | 156,508 |
| `transfer` | one transfer, every interleaving; fair | the engine's own hang-up does no harm (`OwnHangupIsHarmless`); a connected agent is supervised (`ConnectedIsSupervised`); `LegIsServed`; `HoldEnds` | 46,403 |
| `transfer_kept` | the same | `CallerKept` fails | |
| `realtime` | both interfaces, two websockets, one reconnect attempt in a row, a greeting, two responses, one interruption, events that cannot be handled; fair | the session is never deaf (`NotDeaf`); the engine hangs up only when asked (`NoUnaskedHangup`); `StopIsComplete`; a farewell ends the call (`GoodbyeEnds`); turn detection comes back (`VadReturns`) | 509,272 |
| `setup` | both transports, two starts at a time, two provider instances, two attempts, hang-ups, refusals and failures at every step; fair | a provider that runs is the registered one (`OneProvider`); `CleanupOnce`; a settled call leaves nothing (`SettledIsReleased`); `NoStrayAudioSocket`; a caller who stays is served (`EventuallyServed`) | 320,228 |
| `setup_unreachable` | a provider that cannot start | `ProviderFailureEndsCall` fails | |

The type invariant of `Streaming` is checked by its run; those of the other modules are
theorems, which the runs need not repeat.

Bounds of the dialer. One attempt is enough for the handlers of one call, whose
tasks share no state with those of another but through the watchdog; two attempts and
one slot are what it takes for competition, and a lead that is called twice needs no
second lead. Two operator actions are a start and one more. `MaxMishaps` bounds the
restarts, lost requests and websocket drops together: one meets every step of a call,
and what two of them may do is left to the theorems, which hold for any number.
`Unused` bounds the attempts of a behaviour: no lead is leased once every id is used.

For the MCP client two callers are what a race takes, and three calls let one of
them come back after the others; a third process is a second restart, which the
limit of one forbids unless the callers race.

For a stream the bounds are the smallest at which every limit is met: a queue and
a buffer that fill up, a warm-up that a short answer does not reach, a stream that
follows another one. A chunk is one frame in this run, so that a refused frame has nothing
to be put behind (`order`). With chunks of two frames the remainder of a chunk comes
into play; with the liveness properties that takes longer than the run may, and
`StreamingProofs` shows the safety properties for any number. That instance
without the liveness properties (about 1.7 million states), one with three streams
(about 8.7 million) and one with three chunks (about 2.5 million) were checked by
hand and pass. So were two barge-ins in `CallAudio` (1.86 million), and two
agents in `AttendedTransfer` with one transfer after the other (5.8 million). Transfers
that overlap (`Impatient`) were searched to 14 million states without a violation and
not to the end.

For a session of OpenAI Realtime two websockets are what a reconnect takes, two
responses a greeting and the farewell, and one interruption is the caller's or the
engine's. Once a websocket is replaced or the session is being stopped nobody reads what
the server sends, and the model forgets it, which keeps the instance small.

For a call, two tasks and two instances are what a start beside another takes (no
more than one task ever runs, as `CallSetupProofs` shows for any number; a broken
single flight shows with two), and two attempts tell the first from the last.

Deadlock is not checked in any run: every behaviour ends, the call over or a bound
used up, and a drained campaign rests.

Fairness. In all fair runs every task that has something to do gets on: asyncio
runs every ready task, ARI requests have a timeout, sleeps end. Beyond that:

- `dialer_live`: the calling window reopens and a meta that stays grows stale
  (strong fairness of the step into `lease` and of `StaleProbe`, which other steps
  disable again and again), every call ends (weak fairness of `Env`). No operator
  action, crash or fault is fair.
- `mcp_client`: a live server answers what is asked without a timeout (the
  handshake and tools/list). Tool calls need not be answered, servers may die.
- `streaming`: an answer that has begun is finished (`AgentAudioDone`, `Spoken`);
  the provider need not begin one.
- `call_audio`: Asterisk starts a playback and ends it, or the timer fires; the
  event may be lost. Barge-ins and the end of the call are not fair.
- `transfer`: a leg stops ringing; an agent need not press anything, nobody need
  hang up.
- `realtime`: nothing of the server, the network or the caller is fair.
- `setup`: Asterisk makes the channel it was asked for and delivers its events, the
  TCP connection comes, the caller's audio keeps coming; hang-ups, failures of the
  media channel and of the provider are not fair.

What the properties except. They hold as stated in the modules, whose exceptions
are defects of the code which a history variable records; each exception is as
narrow as the defect. The names in brackets are the runs, or the configurations beside
them, that show the defect.

- `HumanOutcomeKept` excepts the attempt that the watchdog's walk has come to with a
  meta copied when it began and dropped since (`StaleCopy`; `dialer_walk`). An
  attempt whose record was not saved has no recorded outcome to keep (`dialer_unsaved`).
- `dialer_live` says at which steps a hang-up is excepted: while
  `_handle_outbound_amd_result` records a human verdict (`amdHuman`, `human`), where the
  lead is left `in_progress` (`dialer_stuck`), and while the caller path sets the session
  up (`save`, `vars`, `ids`, `media`), where a session is saved for a call that has been
  cleaned up (`dialer_ghost`). The same restriction keeps the watchdog from overtaking a
  task that is handing a human over. It is a run without mishaps: `dialer_restart` shows
  what a restart does to `LeadsLeaveHand`.
- `CompletedIsIdle` is of the engine's own work; that a campaign is `completed` only when
  it was running and had nothing left is what `dialer_completed` refutes.
- `CallsReturn` excepts a bad frame, which ends the reader of a live process, and, like
  `ExitIsNoticed`, the callers of a process that was overtaken: another one was there
  before its tasks ran (`mcp_overtaken`).
- `Streaming.flawed`: a refused frame goes back behind the rest of its chunk
  (`order`; `streaming_order`); the pacer is cancelled while a mute is in flight (`mute`;
  `streaming_muted`), the cleanup's unmute fails (`unmute`) or is cancelled (`cleanup`),
  and the caller's channel stays muted; a continuous stream has no pacer any more after a
  failed frame (`pacer`), so that its producer may wait for room for ever; a cleanup that
  awaits its unmute removes the stream that began meanwhile (`orphan`).
- `CallAudio.ungated`: a playback whose token was cleared while it went on, by its
  timer, by a barge-in whose stop request failed, or because the answer to its request was
  lost (`call_audio_lost`). `leaked`: files of requests that failed or were cancelled.
- `AttendedTransfer.flawed`: `remapped`, an agent who answers while cancel or guard
  is at work is mapped to the call again, and his hang-up then ends it; `unseen`,
  he answers after the cleanup has listed the channels to hang up (`transfer_orphan`);
  `unjoined`, Asterisk refuses to add him to the bridge, which `add_channel_to_bridge`
  (`ari_client.py:649-688`) reports as a return value nobody reads, so the abort
  written for this case is never run; `overlap`, a second transfer overwrites
  `current_action`.
- `StopIsComplete` excepts the stops that found a reconnect connecting (`overlap`;
  `realtime_overlap`) and the websockets a reconnect has replaced while they were open
  (`left`; `realtime_second`). `GoodbyeEnds` is of a farewell that was created
  (`realtime_farewell`).
- `SettledIsReleased` is about calls whose setup was over when the cleanup began; what
  happens to the others is `setup_orphan`. `EventuallyServed` excepts calls
  in which something failed (`setup_unreachable`), and those whose AudioSocket channel
  came more than a quarter of a second before the answer to its originate: its handler
  gives up and hangs it up (`engine.py:3178-3204`), and the caller stays on the line in
  silence.

### Findings

1. `dialer_ghost`, a defect. A hang-up that is handled between bridging and
   saving finds no session to clean up, the handler then saves one
   (`engine.py:2706`), and the watchdog that should "keep capacity flowing"
   (`engine.py:1441`) spares an attempt that has a session. The attempt stays
   open and its slot taken until the engine restarts.
2. `dialer_walk`, a defect. `_outbound_cleanup_stale_attempts` walks a copy of the
   metas (`engine.py:1450`) and awaits ARI and the database for each attempt it
   finishes. A conversation that ends during that time is recorded and its session
   removed; the walk then comes to its copy of the attempt, finds no session, and
   writes `no_answer` over the outcome and `failed` over the lead
   (`engine.py:1496, 1504`), although "normal cleanup will finish the attempt"
   (`engine.py:1463`). The run needs two calls that are both old, and no fault.
3. `transfer_kept`, documentation against code. The guide
   (`docs/TOOL_CALLING_GUIDE.md:176`) says that on decline or timeout the AI resumes
   with the caller. It does if the guard or the DTMF wait runs out; but the end of
   the agent's own leg before that (busy, rejected, or Asterisk's dial timeout) is a
   ChannelDestroyed of a channel that is mapped to the call, and `_cleanup_call`
   (`engine.py:4517-4523`) hangs the caller up.
4. `setup_unreachable`, documentation against code. "Provider Unreachable: the call
   receives an error response and the channel is cleaned up"
   (`docs/resilience.md:19`). A start that fails is logged (`engine.py:12128-12139`),
   the call stays up and silent, and every frame of audio starts it again.

### Observations

More statements of the repository that do not hold. Each has a property and a
configuration of its own, in which TLC finds it violated within seconds; they are kept
beside the runs and are not among them (`tlc -config <name>.cfg <module>`; the module of
the dialer's is `MCOutboundDialer`).

| configuration | statement | property | what happens |
|---|---|---|---|
| `dialer_completed` | "Mark a running campaign as completed when there is no remaining runnable work" (`engine.py:1001, 1005`) | `CompletedWhenDone` | the tick judges by a campaign and by statistics read before and writes without looking again (`engine.py:1045`): a pause in between is lost, an imported lead overlooked |
| `dialer_stuck` | a campaign completes "when the queue is empty and no in-flight/active calls remain" (milestone 22, line 31) | `Completes` | a callee who hangs up as his human verdict is on the way is closed by ChannelDestroyed, then `_handle_outbound_amd_result` takes the lead in hand again (`engine.py:1772`), for good |
| `dialer_restart` | stale `dialing` leads "are re-queued after TTL" (milestone 22, line 378) | `DialingLeadsReturn` | the cleanup that would do so runs once, when the engine starts, and passes over young attempts (`engine.py:829`) |
| `dialer_lost` | "at most 2 calls" with two slots (milestone 22, lines 372-373) | `CallsAreCapped` | a lost answer to the originate is taken for a refusal (`engine.py:1330`), and the slot of the ringing call goes to another |
| `dialer_unsaved` | "normal cleanup will finish the attempt" (`engine.py:1463`) | `CleanupFinishes` | it does if the history record could be saved (`engine.py:5015-5016`); else the watchdog records a conversation as not answered |
| `mcp_overtaken` | "Pending requests [...] also fail them now" (`stdio_client.py:245`) | `ExitFails` | two callers find the server down and start one each. If both starts end in one turn of the event loop, which equal backoffs make likely, the tasks of the first find the second process in `_proc` (`stdio_client.py:205, 238`): the first is never read nor watched, and its caller waits for the handshake for ever. A script that runs two `call_tool` at once on a fresh client shows it every time |
| `mcp_stop` | "Stop gracefully on engine shutdown" (`docs/MCP_INTEGRATION.md:266`) | `StopEndsAll` | a process whose start was under way is started after the stop, and nobody ends it |
| `streaming_order` | "chronological order" (`streaming_playback_manager.py:1329`) | `Chronological` | a refused frame is put back behind the later frames of its chunk |
| `streaming_muted` | "This ensures user can speak" (`streaming_playback_manager.py:3753`) | `UserCanSpeak` | the cleanup goes by a flag that a pacer cancelled in the middle of its mute request has not set |
| `call_audio_lost` | "Disable audio capture for the duration of a TTS playback" (`conversation_coordinator.py:94`) | `GatedForTheDuration` | the answer to the play request is lost, the token is cleared (`playback_manager.py:167-176`), and the playback goes on and is recognized |
| `transfer_orphan` | "Clean hangup (no orphan channels / stuck Stasis sessions)" (`docs/RELEASE_CHECKLIST.md:20`) | `NoOrphanLeg` | an agent who answers after `_cleanup_call` has read `current_action` (`engine.py:4647-4655`) is hung up by nobody |
| `realtime_second` | "Single WebSocket/API connection" (`docs/contributing/architecture-quickstart.md:76`) | `OneConnection` | an event that cannot be handled (`docs/resilience.md:117` reports such errors) ends the receive loop of an open connection (`openai_realtime.py:1478`), the reconnect overwrites `self.websocket` (2304), and nobody closes the first |
| `realtime_overlap` | "Closes the connection and cleans up resources for the call" (`providers/base.py:32`) | `NothingLeftOpen` | `_reconnect_with_backoff` looks for a stop before its connect only: a connection that opens after the stop stays, with a receive loop of its own |
| `realtime_farewell` | "ensure hangup happens" (`openai_realtime.py:1170`) | `HangupHappens` | the timeout starts when the farewell is created: one that the server refuses, because the response that asked for it is not over, ends nothing |
| `setup_orphan` | the release checklist again | `NoOrphan` | a caller who hangs up during the setup is cleaned up and the handler goes on: it creates the ExternalMedia channel (`engine.py:3037`) when the cleanup has passed its hang-ups, cannot attach it, and leaves it; answered later still, it also saves the session again (`engine.py:3042`). The completed guard keeps a second cleanup away for 900 seconds |

Three more can be reproduced with the property and the constants named:

- The voicemail drop cannot be switched off, against milestone 22, line 370:
  `... or 1` turns a stored 0 into 1 (`engine.py:1697`, likewise 1244, 1572)
  (`DropSwitchedOff`, the constants of `dialer_live` with `VoicemailDrop = 0`).
- The audio of an answer that comes while the stream of the one before still drains
  goes to a queue nobody reads, for a pipeline and, in non-continuous mode, for a
  provider (`EveryQueueStreams`; queue, buffer, chunks and queues of two,
  `FramesPerChunk` and `MinStart` 1, no error, no barge-in).
- A barge-in that ends after `_cleanup_call` saves the session again, and the call
  is listed as active (`EndedIsGone`; one playback, one barge-in, `Overridable = FALSE`). The comment at
  `engine.py:4530` knows of it.

Read in passing, without a property: a failed originate leaves
`audio_capture_enabled` off (`_cleanup_failed_originate`); `last_chunk_time` is never
updated, so the keepalive times a long answer out; `hangup_after_response` is never
reset; with the beta interface `response.audio.done` clears the burst flag first,
so that the engine is not told `AgentAudioDone`; the reconnect that the OpenAI
provider asks for when a send fails (`openai_realtime.py:566`) is never reached, as both
sends swallow the failure; after a farewell timeout the
cancelled receive loop reports the farewell a second time; a bridge whose call ends
before its session is saved is destroyed by nobody (`engine.py:2657`); a port of the
RTP server stays reserved when `bind` raises (`rtp_server.py:171`); a channel that
disappears on its AMD hop while the websocket is down stays in
`_outbound_awaiting_amd_channel_ids` (`engine.py:1603`), and the watchdog spares the
attempt of a channel it finds there, so that its slot stays taken; `dialer_live` runs
without mishaps for that reason.

## 5. Proofs

Nothing is assumed but what the modules state of their constants
(`StoreAssumption`, `DialerAssumption`, `ClientAssumption`, `CallAudioAssumption`,
`TransferAssumption`, `RealtimeAssumption`, `CallSetupAssumption`).

`OutboundDialerProofs` proves, for any finite set of attempts, any set of leads,
any `MaxConcurrent` in 1..5 and any bounds on operator actions and mishaps, every
safety and action property of the dialer's runs.

None of them is inductive alone. The first invariant is
`IInv == TypeOK /\ Accounted /\ Room`. `Accounted` says of each attempt by
itself (`Sound(b)`): an unused id is in no map and at no step; an open attempt
is an orphan of a restart or counted in flight; an open attempt is not at a step
that is about to drop its meta (`Closing`); the scheduler is between counting
"idle" and writing "completed" only while nothing is counted. `Room` says that
a slot is free while the scheduler is on its way to create an attempt. The
lemma `Orderly` says no step but `Create` takes a slot or uses an id, so `Room`
needs only the cardinality argument for that one step. `SlotsRefined` follows
from the same lemma: each step maps to `Acquire`, to `Release` of one slot or,
at a crash, of all, or to a stutter. `AtMostOneLateCall` has an invariant of its
own (`LateBound`): after leaving "running" at most one tick is under way.

The second (`CallsSound`) is the life of one call,
`CallSound(b) == Life(b) /\ Lossless(b) /\ Talked(b) /\ Placed(b)`, which no step for
another attempt disturbs. `Life` holds whatever is lost: which steps of the handler and
of the cleanup go with which state of the channel, and that a session belongs to a
handler that was past the bridge. `Lossless` holds while no request was lost: what the
tick takes for a call that was never placed, and the cleanup for a channel that was hung
up, is that. `Placed` is `LiveIsAccounted` for one attempt. `Talked` is why a
conversation's outcome stays: once it is recorded, the channel is gone, its cleanup is
past the finish and its metas are dropped or about to be, so that of all the steps that
finish an attempt only the watchdog's walk with an old copy is left, which the property
excepts (finding 2). `NoAutomaticRetry` rests on a count, `Chances(l)`: the calls of a
lead, the one being placed and the one that may still come use up the first and one for
every recycle; each step that takes one of them moves the lead to where the next one
counts it.

`McpClientProofs` proves, for any finite set of callers, any restart
configuration and any number of calls, deaths and bad frames: `TypeCorrect`,
`StartsAreBounded`, `NobodyIsStranded`, `ImplementsRequests` and `ExitsAreNoticed`. The invariant adds to the properties that every
id is paid for by a start or a call (`IdsSuffice`), that ids and the futures awaited
are distinct and recorded under their own number (`IdsDistinct`, `OwnRequest`), and
that only an enabled restart backs off. The two bounds rest on one lemma about
cardinalities (`CountOne`), as each step moves at most one caller. For
`ExitsAreNoticed` a second invariant (`Watched`) says that the tasks of a start which
have not run find its own process, that those which have follow it, unless another one
was there before, and that a request waits for a process that is watched or overtaken.
Starts may fall together in any way.

`CallAudioProofs` proves the five invariants of `call_audio` for any finite sets of
playbacks and barge-ins. The invariant is
`IInv == Shape /\ Releases /\ GatedWhileHeld /\ AudibleIsHeld`. `AudibleIsHeld`
is the heart of it: a playback that Asterisk plays or is being asked for holds its
token, unless it is one of those known to have lost it early; among them is the playback
whose answer was lost. `Releases` says that a
token or a file comes with a reference in `_playbacks`, so that a finish event, a
timer or the cleanup can find it. `Shape` adds the order of the steps (a timer is set
only once the request has been answered; the session leaves the store only with the
cleanup). Lemmas say what the operators of the gate (`SetToken`, `ClearTokens`,
`Capturing`) do to tokens, count and flags; they rest on the cardinality of a finite
set, and every action then needs only the lemma of the operator it uses.

`AttendedTransferProofs` proves typing and `OwnHangupIsHarmless` for any number of
transfers of one call, overlapping or not. The invariant is
`IInv == TypeOK /\ Order /\ Mapping /\ OwnHangupIsHarmless`. That the engine's own
hangup of a transfer leg never tears the call down depends on what the engine still
knows of the leg when its `StasisEnd` comes, so `Mapping` says that a leg the engine
hung up had been given up, and that a leg given up is unmapped while no cleanup runs;
`Order` says that a leg is answered at most once and that the guard and the
cancellation know a leg only from a tool that is over.

`ConnectedIsSupervised` needs three invariants more, of which the last two are about the
time before the cleanup, and while neither of the two flaws it names has happened.
`LegKnown` says that a bridged leg is up and its handler done. `OneAtATime` says that at
most one agent is engaged by a tool, a leg or an event of it, and that the session's
action and a cancellation are about him. `Supervised` adds to the property what leads up
to it: an agent is mapped, named and answered from the announcement on, nobody is about
to hang him up, the music stops before the AI leaves, and the AI before he is joined.

`OpenAIRealtimeProofs` proves typing and the three invariants of `realtime` for either
interface, with or without a greeting, and any number of
websockets, reconnect attempts, responses, interruptions and unread events. The
invariant is `IInv == TypeOK /\ Order /\ Idle /\ Stopping /\ Quiet`. `Idle` is about
the session that is not being stopped: only the websocket in use has a receive loop
and, but for those that were left, is open (`OneInUse`), a reconnect or a start begins
without a receive loop, and somebody always listens (`NotDeaf`). `Stopping` says that what `stop_session` has taken down stays down, and
`Quiet` that until the tool has run nothing hangs up or is about to. The proof rests
on one lemma, `OutcomeIs`: eight actions end in `_emit_audio_done`, and whatever path
that takes the task that called it waits for the engine, reads on or ends, and only a
loop that ends, outside `stop_session`, starts a reconnect. Each part of the invariant
then needs one step for all eight.

`CallSetupProofs` proves `TypeOK`, `OneProvider`, `CleanupOnce`,
`SettledIsReleased` and `NoStrayAudioSocket` for any number of tasks, instances and attempts and either
transport. The invariant is
`IInv == TypeOK /\ TriesLeft /\ OnceInv /\ HandlerInv /\ WaitInv /\ StartInv /\ ReleaseInv`.
`StartInv` is why there are never two providers: a task that is past its beginning is
the registered one, and an instance that runs is registered in `_call_providers`; one
that is starting has its task, one that lives has marked the session, so that nobody
starts another. `WaitInv` says that whoever is among a start's waiters does await it;
`HandlerInv` that a channel's handler runs once the channel is in Stasis; `OnceInv` that
the cleanup's guard tells how often it ran; `TriesLeft` bounds the attempts. `ReleaseInv` carries what a settled call
has given back from each step of the cleanup to the next, which needs that nobody is
left to take it again. Effects of the operators that several actions share (`Ensure`,
`EndTask`, `CancelStart`, `Cleanup`) are lemmas. `NoStrayAudioSocket` has an invariant
beside it (`ServedInv`): already while the handler awaits the start of the provider, its
channel is in the bridge or gone.

`StreamingProofs` proves the four invariants of `streaming` for any number of chunks,
frames in a chunk, queues, streams, barge-ins and errors, and any sizes of the buffers.
There are three layers, each resting on the one before.

- `Typed == TypeOK /\ Layout`. A buffer holds chunks and at most one sentinel, as its
  last item; that the steps keep it so needs that whoever puts something finds the
  buffer without one (`Produced`, `Queued`). `Layout` also says that streams and queues
  not yet begun are empty. What a chunk unpacks to is a lemma about arithmetic
  (`FrameProperties`): frame `i` of a buffer lies within chunk `1 + (i - 1) \div F`.
- `Tasks`, unless a cleanup has removed the stream of another (`orphan`). `OneStream`
  says that only the call's stream has a producer at work or a pacer, and that a pacer
  has a producer, which is `OnePacer`. `Cleaning` says whose a cleanup is, `Tokens` that
  each token has somebody to clear it, `Lasting` and `Reading` that a continuous stream
  of a provider ends with a barge-in only and its queue has a reader.
- `Playing`, under the same condition. `Flow` is the order of what is still to come:
  what was played or is about to be (`Heard`) comes before every chunk in the buffer,
  these before the one the producer holds, and this before the ones in the queue it
  reads; every one of them is bounded by what was fed. `Once` says that what was sent,
  what was filed and the remainder share no frame, `Order` that the sent frames ascend
  and come before the remainder. `Muting` is the least obvious part: a cleanup that
  unmutes the channel sends the remainder first and keeps it, and would send it
  twice if it were not empty then; it is empty because a channel is only muted after
  the warm-up, so that the producer ends a muted stream only when the pacer has used the
  remainder up.

One lemma (`FlowMoves`) serves all steps that move chunks from the buffer towards the
caller, and one (`TakePlaying`) the two that hand the buffer to a file.

Only model-checked: everything under fairness, which is out of the prover's reach
(`SlotsReturn`, `LeadsLeaveHand`, `Completes`, `CallsReturn`, `CallerHeardAgain`,
`AudioComesOut`, `GateReopens`, `LegIsServed`, `HoldEnds`, `GoodbyeEnds`, `VadReturns`,
`EventuallyServed`). Every invariant and every action property of the runs is a theorem.

## 6. Not modelled

See "components" in `PROJECT.json` for each part and the reason. In short:

- signal processing (resampling, VAD, level metering), the arithmetic of pacing,
  formats, metrics and logs: numeric or without an effect on control;
- of the RTP and AudioSocket servers: packets, frames and codecs;
- the pipeline runner, the Local channel of older dialplans, the blind transfers;
- network clients of speech and language services other than OpenAI Realtime;
- configuration, presentation, operator tooling and the local AI server's models:
  sequential or outside the process;
- the Admin UI's jobs and the ARI client's reconnect, which would be worth a module
  each;
- of the dialer: several campaigns at once (they share only the tick), the creation,
  copying and deletion of campaigns, and the configuration in which the call history
  is switched off and the dialer is not (`outbound_store.py:253` and
  `call_history.py:172` read the same variable differently).

The repository is large and most of it is of these kinds: the modules cover the
parts where tasks, processes and machines meet.
