------------------------------ MODULE CallSetup ------------------------------
(***************************************************************************)
(* A call from the caller's StasisStart to the end of its cleanup:         *)
(*   src/engine.py          the caller's handler, the media channel's      *)
(*                          handler and its retries, the start of the      *)
(*                          provider's session, _cleanup_call              *)
(*   src/core/session_store.py    upsert_call, remove_call, the lookups    *)
(*   src/rtp_server.py            the call's RTP session                   *)
(*                                                                         *)
(* Four tasks run at once: the caller's handler (setup), the media         *)
(* channel's handler, the task that starts the provider and the cleanup.   *)
(* Each saves the same session object whether or not the store still has   *)
(* it.  A step is what one of them does between two suspensions.  A call   *)
(* has one full-agent provider; pipelines, transfers and Local channels    *)
(* are left out.  Requests of the cleanup are assumed to be carried out.   *)
(***************************************************************************)
EXTENDS Integers

CONSTANTS
  Instances,     (* provider instances; a stopped one may be used again      *)
  Tasks,         (* tasks that start the provider                            *)
  Tries,         (* attempts to attach a media channel (25; 5 look-ups)      *)
  None

ASSUME CallSetupAssumption ==
  /\ Tries \in Nat \ {0}
  /\ Tasks # {} /\ None \notin Instances \cup Tasks

VARIABLES
  \* Asterisk's side
  caller,   (* the caller's channel: "up", "gone"                            *)
  bridge,   (* "none", "up", "gone"                                          *)
  media,    (* the ExternalMedia or AudioSocket channel: "none", "made",     *)
            (* "stasis", "gone"                                              *)
  joined,   (* the media channel has been added to the bridge                *)
  ends,     (* per channel, StasisEnd and ChannelDestroyed still to come     *)
  \* the engine's side
  external, (* the configured audio_transport: externalmedia, else           *)
            (* audiosocket; it never changes                                 *)
  sess,     (* the session: [stored, known, pending, active]: in the store,  *)
            (* external_media_id or audiosocket_channel_id set,              *)
            (* pending_external_media_id set, provider_session_active        *)
  port,     (* the call's RTP session, or its bound AudioSocket connection   *)
  mapped,   (* AudioSocket: [pending, uuid], the two maps of the originate   *)
  setup,    (* the caller's handler: [at, tries]                             *)
  handler,  (* the media channel's handler: [at, tries]                      *)
  tasks,    (* per task [at, inst, waits]: waits are the handlers awaiting   *)
  starting, (* _provider_start_tasks of the call                             *)
  provider, (* _call_providers of the call                                   *)
  inst,     (* per instance "none", "starting", "live", "dead", "stopping",  *)
            (* "stopped", "cut" (its stop was cancelled)                     *)
  cleanup,  (* _cleanup_call: "no", what it awaits, "done"                   *)
  \* history
  bodies,   (* how many times the body of _cleanup_call was entered          *)
  settled,  (* it was entered with the setup over and the provider active    *)
  faulty    (* a request, a start, a provider or a media channel failed      *)

ariVars  == <<caller, bridge, media, joined, ends>>
provVars == <<tasks, starting, provider, inst>>
histVars == <<bodies, settled, faulty>>
vars == <<external, ariVars, sess, port, mapped, setup, handler, provVars, cleanup, histVars>>

Channels == {"caller", "media"}
MediaUp  == media \in {"made", "stasis"}
Alive    == {"starting", "live"}
NoTask   == [at |-> "none", inst |-> None, waits |-> {}]

Sessions == [stored : BOOLEAN, known : BOOLEAN, pending : BOOLEAN, active : BOOLEAN]
Setups   == [at : {"vars", "join", "joined", "enrich", "resolve", "create", "attach",
                   "await", "talk", "over"}, tries : 0..Tries]
Handlers == [at : {"none", "event", "retry", "adding", "readding", "await", "over"},
             tries : 0..Tries]
Waits    == SUBSET {"setup", "handler"}
Starts   == [at : {"none", "begin", "tools", "starting", "failing"},
             inst : Instances \cup {None}, waits : Waits]

TypeOK ==
  /\ external \in BOOLEAN /\ caller \in {"up", "gone"} /\ bridge \in {"none", "up", "gone"}
  /\ media \in {"none", "made", "stasis", "gone"} /\ joined \in BOOLEAN
  /\ ends \in [Channels -> 0..2]
  /\ sess \in Sessions /\ port \in BOOLEAN
  /\ mapped \in [pending : BOOLEAN, uuid : BOOLEAN]
  /\ setup \in Setups /\ handler \in Handlers
  /\ tasks \in [Tasks -> Starts]
  /\ starting \in Tasks \cup {None} /\ provider \in Instances \cup {None}
  /\ inst \in [Instances -> {"none", "starting", "live", "dead", "stopping", "stopped", "cut"}]
  /\ cleanup \in {"no", "stream", "provider", "bridge", "media", "caller", "late", "done"}
  /\ bodies \in 0..2 /\ settled \in BOOLEAN /\ faulty \in BOOLEAN

Init ==
  /\ external \in BOOLEAN /\ caller = "up" /\ bridge = "none" /\ media = "none" /\ joined = FALSE
  /\ ends = [c \in Channels |-> 0]
  /\ sess = [stored |-> FALSE, known |-> FALSE, pending |-> FALSE, active |-> FALSE]
  /\ port = FALSE /\ mapped = [pending |-> FALSE, uuid |-> FALSE]
  /\ setup = [at |-> "vars", tries |-> 0] /\ handler = [at |-> "none", tries |-> 0]
  /\ tasks = [t \in Tasks |-> NoTask] /\ starting = None /\ provider = None
  /\ inst = [i \in Instances |-> "none"]
  /\ cleanup = "no" /\ bodies = 0 /\ settled = FALSE /\ faulty = FALSE
-----------------------------------------------------------------------------
(* The store and the guards of _cleanup_call *)

Saved == [sess EXCEPT !.stored = TRUE]
Goes(c) == [ends EXCEPT ![c] = 2]

\* The session of a channel: by call id, then by channel id.
Finds(c) == sess.stored /\ (c = "caller" \/ sess.known)
\* The completed guard is set as the body begins and outlives the call.
GuardsRunning(c) == cleanup \in {"no", "done"}     \* variant: only the running one
Guarded(c) == cleanup = "no"
Settled ==
  /\ setup.at = "over" /\ handler.at = "over" /\ starting = None
  /\ sess.active /\ sess.known

\* _cleanup_call up to its first suspension.
Cleanup(c) ==
  IF Finds(c) /\ Guarded(c)
  THEN cleanup' = "stream" /\ bodies' = bodies + 1 /\ settled' = Settled
  ELSE UNCHANGED <<cleanup, bodies, settled>>

CallerHangsUp ==
  /\ caller = "up"
  /\ caller' = "gone" /\ ends' = Goes("caller")
  /\ UNCHANGED <<external, bridge, media, joined, sess, port, mapped, setup, handler,
                 provVars, cleanup, histVars>>

\* StasisEnd or ChannelDestroyed of a channel.
EndEvent(c) ==
  /\ ends[c] > 0
  /\ ends' = [ends EXCEPT ![c] = @ - 1]
  /\ Cleanup(c)
  /\ UNCHANGED <<external, caller, bridge, media, joined, sess, port, mapped, setup,
                 handler, provVars, faulty>>
-----------------------------------------------------------------------------
(* The start of the provider's session *)

\* The last step of a task: the waiting handlers go on.  Only the task's own
\* entry is removed.
Resumed(h, name, ws) == IF name \in ws THEN [h EXCEPT !.at = "over"] ELSE h
Talks(ws) == IF "setup" \in ws THEN [setup EXCEPT !.at = "talk"] ELSE setup
EndTask(t) ==
  /\ tasks' = [tasks EXCEPT ![t] = NoTask]
  /\ starting' = IF starting = t THEN None ELSE starting
  /\ setup' = Talks(tasks[t].waits)
  /\ handler' = Resumed(handler, "handler", tasks[t].waits)

\* _ensure_provider_session_started: waits for the task there is, else makes one.
NewTaskEach(ws) ==                             \* variant: not single-flight
  LET t == CHOOSE u \in Tasks : tasks[u].at = "none"
  IN /\ tasks' = [tasks EXCEPT ![t] = [at |-> "begin", inst |-> None, waits |-> ws]]
     /\ starting' = t
Ensure(ws) ==
  IF starting # None
  THEN tasks' = [tasks EXCEPT ![starting].waits = @ \cup ws] /\ UNCHANGED starting
  ELSE LET t == CHOOSE u \in Tasks : tasks[u].at = "none"
       IN /\ tasks' = [tasks EXCEPT ![t] = [at |-> "begin", inst |-> None, waits |-> ws]]
          /\ starting' = t

\* A frame of the caller's audio for a call without a provider.
AudioKicksOff ==
  /\ port /\ joined /\ sess.stored
  /\ provider = None /\ starting = None /\ ~sess.active
  /\ Ensure({})
  /\ UNCHANGED <<external, ariVars, sess, port, mapped, setup, handler, provider, inst,
                 cleanup, histVars>>

\* _start_provider_session up to the pre-call tools.
AlreadyStarted == sess.active /\ provider # None
StartBegins(t) ==
  /\ tasks[t].at = "begin"
  /\ IF ~sess.stored \/ AlreadyStarted
     THEN EndTask(t)
     ELSE /\ tasks' = [tasks EXCEPT ![t].at = "tools"]
          /\ UNCHANGED <<starting, setup, handler>>
  /\ UNCHANGED <<external, ariVars, sess, port, mapped, provider, inst, cleanup,
                 histVars>>

\* The instance is registered before start_session is awaited.  Tools that
\* returned results make it read the session again.
CreateProvider(t, i) ==
  /\ tasks[t].at = "tools" /\ inst[i] \in {"none", "stopped", "dead", "cut"}
  /\ provider' = i /\ inst' = [inst EXCEPT ![i] = "starting"]
  /\ tasks' = [tasks EXCEPT ![t].at = "starting", ![t].inst = i]
  /\ UNCHANGED <<external, ariVars, sess, port, mapped, setup, handler, starting,
                 cleanup, histVars>>

SessionVanished(t) ==
  /\ tasks[t].at = "tools" /\ ~sess.stored
  /\ EndTask(t) /\ provider' = None
  /\ UNCHANGED <<external, ariVars, sess, port, mapped, inst, cleanup, histVars>>

StartSucceeds(t) ==
  /\ tasks[t].at = "starting"
  /\ inst' = [inst EXCEPT ![tasks[t].inst] = "live"]
  /\ sess' = [Saved EXCEPT !.active = TRUE]
  /\ EndTask(t)
  /\ UNCHANGED <<external, ariVars, port, mapped, provider, cleanup, histVars>>

\* The except clause: the instance is forgotten and stopped.
StartFails(t) ==
  /\ tasks[t].at = "starting"
  /\ provider' = None /\ inst' = [inst EXCEPT ![tasks[t].inst] = "stopping"]
  /\ tasks' = [tasks EXCEPT ![t].at = "failing"] /\ faulty' = TRUE
  /\ UNCHANGED <<external, ariVars, sess, port, mapped, setup, handler, starting,
                 cleanup, bodies, settled>>

FailedStopped(t) ==
  /\ tasks[t].at = "failing"
  /\ inst' = [inst EXCEPT ![tasks[t].inst] = "stopped"]
  /\ EndTask(t)
  /\ UNCHANGED <<external, ariVars, sess, port, mapped, provider, cleanup, histVars>>

\* ProviderDisconnected: the session is marked and the caller is hung up.
ProviderDies(i) ==
  /\ inst[i] = "live"
  /\ inst' = [inst EXCEPT ![i] = "dead"] /\ faulty' = TRUE /\ settled' = FALSE
  /\ IF sess.stored
     THEN /\ sess' = [sess EXCEPT !.active = FALSE]
          /\ caller' = "gone" /\ ends' = IF caller = "up" THEN Goes("caller") ELSE ends
     ELSE UNCHANGED <<sess, caller, ends>>
  /\ UNCHANGED <<external, bridge, media, joined, port, mapped, setup, handler, tasks,
                 starting, provider, cleanup, bodies>>
-----------------------------------------------------------------------------
(* The caller's handler, _handle_caller_stasis_start_hybrid *)

At(next) == setup' = [setup EXCEPT !.at = next]

\* The channel variables are read, the caller is answered, a bridge is made.
CreateBridge ==
  /\ setup.at = "vars"
  /\ bridge' = "up" /\ At("join")
  /\ UNCHANGED <<external, caller, media, joined, ends, sess, port, mapped, handler,
                 provVars, cleanup, histVars>>

\* Asterisk adds the caller, then the handler hears of it and saves the session.
CallerJoins ==
  /\ setup.at = "join" /\ caller = "up" /\ At("joined")
  /\ UNCHANGED <<external, ariVars, sess, port, mapped, handler, provVars, cleanup,
                 histVars>>
SessionSaved ==
  /\ setup.at = "joined"
  /\ sess' = Saved /\ At("enrich")
  /\ UNCHANGED <<external, ariVars, port, mapped, handler, provVars, cleanup, histVars>>

\* No bridge, or the caller could not be added: RuntimeError.
SetupFails ==
  /\ setup.at \in {"vars", "join"}
  /\ At("over") /\ Cleanup("caller") /\ faulty' = TRUE
  /\ UNCHANGED <<external, ariVars, sess, port, mapped, handler, provVars>>

\* The called number, outbound variables, transport and audio profile.
Enrich ==
  /\ setup.at = "enrich"
  /\ sess' = Saved /\ At("resolve")
  /\ UNCHANGED <<external, ariVars, port, mapped, handler, provVars, cleanup, histVars>>

\* AI_PROVIDER, which saves when it overrides the provider; then the RTP
\* session and the request for the media channel.
Resolve ==
  /\ setup.at = "resolve"
  /\ \E overrides \in BOOLEAN : sess' = IF overrides THEN Saved ELSE sess
  /\ port' = external /\ At("create")
  /\ UNCHANGED <<external, ariVars, mapped, handler, provVars, cleanup, histVars>>
NoPort ==
  /\ setup.at = "resolve" /\ external
  /\ At("over") /\ faulty' = TRUE
  /\ UNCHANGED <<external, ariVars, sess, port, mapped, handler, provVars, cleanup,
                 bodies, settled>>

\* Asterisk makes the channel, which then enters Stasis.
MediaMade ==
  /\ setup.at = "create" /\ media = "none"
  /\ media' = "made"
  /\ UNCHANGED <<external, caller, bridge, joined, ends, sess, port, mapped, setup,
                 handler, provVars, cleanup, histVars>>
MediaEnters ==
  /\ media = "made"
  /\ media' = "stasis" /\ handler' = [handler EXCEPT !.at = "event"]
  /\ UNCHANGED <<external, caller, bridge, joined, ends, sess, port, mapped, setup,
                 provVars, cleanup, histVars>>

\* The answer with the channel's id.
ExternalMediaAnswered ==
  /\ setup.at = "create" /\ media # "none" /\ external
  /\ sess' = [Saved EXCEPT !.known = TRUE, !.pending = sess.stored \/ @]
  /\ At("attach")
  /\ UNCHANGED <<external, ariVars, port, mapped, handler, provVars, cleanup, histVars>>
AudioSocketAnswered ==
  /\ setup.at = "create" /\ media # "none" /\ ~external
  /\ mapped' = [pending |-> TRUE, uuid |-> TRUE] /\ At("over")
  /\ UNCHANGED <<external, ariVars, sess, port, handler, provVars, cleanup, histVars>>

\* Refused, or the answer is lost.  The RTP session is given back; the
\* AudioSocket's failure is raised and ends the call.
ExternalMediaRefused ==
  /\ setup.at = "create" /\ external
  /\ port' = FALSE /\ At("over") /\ faulty' = TRUE
  /\ UNCHANGED <<external, ariVars, sess, mapped, handler, provVars, cleanup, bodies,
                 settled>>
AudioSocketRefused ==
  /\ setup.at = "create" /\ ~external
  /\ At("over") /\ faulty' = TRUE /\ Cleanup("caller")
  /\ UNCHANGED <<external, ariVars, sess, port, mapped, handler, provVars>>

\* The direct attach.
CanJoin == media = "stasis" /\ bridge = "up"
NoDirectAttach == FALSE                        \* variant: left to the StasisStart
DirectAttach == CanJoin
AttachSucceeds ==
  /\ setup.at = "attach" /\ DirectAttach
  /\ joined' = TRUE /\ sess' = [Saved EXCEPT !.pending = FALSE]
  /\ IF sess.active
     THEN At("talk") /\ UNCHANGED <<tasks, starting>>
     ELSE At("await") /\ Ensure({"setup"})
  /\ UNCHANGED <<external, caller, bridge, media, ends, port, mapped, handler, provider,
                 inst, cleanup, histVars>>
AttachFails ==
  /\ setup.at = "attach"
  /\ setup' = IF setup.tries + 1 < Tries THEN [setup EXCEPT !.tries = @ + 1]
              ELSE [setup EXCEPT !.at = "over", !.tries = @ + 1]
  /\ faulty' = (faulty \/ DirectAttach)
  /\ UNCHANGED <<external, ariVars, sess, port, mapped, handler, provVars, cleanup,
                 bodies, settled>>

\* TALK_DETECT, if it is on, after which the session is saved once more.
TalkDetect ==
  /\ setup.at = "talk"
  /\ sess' \in {sess, Saved} /\ At("over")
  /\ UNCHANGED <<external, ariVars, port, mapped, handler, provVars, cleanup, histVars>>
-----------------------------------------------------------------------------
(* The media channel's handler *)

Handles(next) == handler' = [handler EXCEPT !.at = next]
HangsUpMedia == media' = "gone" /\ ends' = Goes("media")

\* ExternalMedia: a session that names the channel, or the retries.
NamesMedia == sess.stored /\ (sess.known \/ sess.pending)
ExternalMediaStasis ==
  /\ handler.at = "event" /\ external
  /\ Handles(IF NamesMedia THEN "adding" ELSE "retry")
  /\ UNCHANGED <<external, ariVars, sess, port, mapped, setup, provVars, cleanup,
                 histVars>>

Tried == IF handler.tries + 1 < Tries THEN [at |-> "retry", tries |-> handler.tries + 1]
         ELSE [at |-> "over", tries |-> handler.tries + 1]

\* _retry_attach_external_media_channel; when it is exhausted that is all.
RetryLooksUp ==
  /\ handler.at = "retry" /\ external
  /\ handler' = IF NamesMedia THEN [handler EXCEPT !.at = "readding"] ELSE Tried
  /\ UNCHANGED <<external, ariVars, sess, port, mapped, setup, provVars, cleanup,
                 histVars>>

\* AudioSocket: the originate's maps, looked up again for a while.
KeepsStray == UNCHANGED <<media, ends>>        \* variant: returns without a hangup
HangsUpStray == HangsUpMedia
AudioSocketStasis ==
  /\ handler.at \in {"event", "retry"} /\ ~external
  /\ IF mapped.pending /\ sess.stored
     THEN Handles("adding") /\ UNCHANGED <<media, ends>>
     ELSE IF ~mapped.pending /\ handler.tries < Tries
     THEN handler' = [at |-> "retry", tries |-> handler.tries + 1] /\ UNCHANGED <<media, ends>>
     ELSE Handles("over") /\ HangsUpStray
  /\ UNCHANGED <<external, caller, bridge, joined, sess, port, mapped, setup, provVars,
                 cleanup, histVars>>

\* The channel is in the bridge: it is recorded and the provider started.
MediaJoins ==
  /\ handler.at \in {"adding", "readding"} /\ CanJoin
  /\ joined' = TRUE /\ sess' = [Saved EXCEPT !.known = TRUE, !.pending = FALSE]
  /\ IF sess.active
     THEN Handles("over") /\ UNCHANGED <<tasks, starting>>
     ELSE Handles("await") /\ Ensure({"handler"})
  /\ UNCHANGED <<external, caller, bridge, media, ends, port, mapped, setup, provider,
                 inst, cleanup, histVars>>

\* It could not be added.
MediaNotJoined ==
  /\ handler.at \in {"adding", "readding"}
  /\ handler' = IF handler.at = "readding" THEN Tried ELSE [handler EXCEPT !.at = "over"]
  /\ IF external \/ media = "gone" THEN UNCHANGED <<media, ends>> ELSE HangsUpStray
  /\ faulty' = (faulty \/ CanJoin)
  /\ UNCHANGED <<external, caller, bridge, joined, sess, port, mapped, setup, provVars,
                 cleanup, bodies, settled>>

\* The media channel ends by itself.
MediaDies ==
  /\ MediaUp
  /\ HangsUpMedia /\ faulty' = TRUE
  /\ UNCHANGED <<external, caller, bridge, joined, sess, port, mapped, setup, handler,
                 provVars, cleanup, bodies, settled>>

\* The channel's TCP connection is bound to the call, or refused.
ConnectionBinds ==
  /\ ~external /\ MediaUp /\ ~port /\ mapped.uuid
  /\ port' = TRUE
  /\ UNCHANGED <<external, ariVars, sess, mapped, setup, handler, provVars, cleanup,
                 histVars>>
ConnectionRefused ==
  /\ ~external /\ MediaUp /\ ~port /\ ~mapped.uuid
  /\ HangsUpMedia /\ faulty' = TRUE
  /\ UNCHANGED <<external, caller, bridge, joined, sess, port, mapped, setup, handler,
                 provVars, cleanup, bodies, settled>>
ConnectionDrops ==
  /\ ~external /\ port /\ media = "gone"
  /\ port' = FALSE
  /\ UNCHANGED <<external, ariVars, sess, mapped, setup, handler, provVars, cleanup,
                 histVars>>
-----------------------------------------------------------------------------
(* _cleanup_call, after its stop of the streaming playback *)

\* The start is cancelled, the provider popped and stopped.  Handlers that
\* await the start are cancelled with it; a stop that the start had begun
\* is cut short.
Cancelled(h, name) ==
  IF starting # None /\ name \in tasks[starting].waits THEN [h EXCEPT !.at = "over"] ELSE h
CancelStart ==
  /\ tasks' = IF starting = None THEN tasks ELSE [tasks EXCEPT ![starting] = NoTask]
  /\ starting' = None
  /\ setup' = Cancelled(setup, "setup") /\ handler' = Cancelled(handler, "handler")
CleanupProvider ==
  /\ cleanup = "stream"
  /\ CancelStart
  /\ provider' = None
  /\ inst' = [i \in Instances |->
                IF i = provider /\ inst[i] # "dead" THEN "stopping"
                ELSE IF starting # None /\ tasks[starting].at = "failing"
                        /\ i = tasks[starting].inst THEN "cut"
                ELSE inst[i]]
  /\ cleanup' = "provider"
  /\ UNCHANGED <<external, ariVars, sess, port, mapped, histVars>>

BeingFailed == {tasks[t].inst : t \in Tasks}
CleanupBridge ==
  /\ cleanup = "provider"
  /\ inst' = [i \in Instances |-> IF inst[i] = "stopping" /\ i \notin BeingFailed
                                  THEN "stopped" ELSE inst[i]]
  /\ bridge' = "gone" /\ cleanup' = "bridge"
  /\ UNCHANGED <<external, caller, media, joined, ends, sess, port, mapped, setup,
                 handler, tasks, starting, provider, histVars>>

\* Only the channel the session names.
PendingMedia == sess.pending                   \* variant: the pending one
HungUpMedia == sess.known
CleanupMedia ==
  /\ cleanup = "bridge"
  /\ IF HungUpMedia /\ MediaUp THEN HangsUpMedia ELSE UNCHANGED <<media, ends>>
  /\ cleanup' = "media"
  /\ UNCHANGED <<external, caller, bridge, joined, sess, port, mapped, setup, handler,
                 provVars, histVars>>

CleanupCaller ==
  /\ cleanup = "media"
  /\ caller' = "gone" /\ ends' = IF caller = "up" THEN Goes("caller") ELSE ends
  /\ cleanup' = "caller"
  /\ UNCHANGED <<external, bridge, media, joined, sess, port, mapped, setup, handler,
                 provVars, histVars>>

\* The RTP session is closed, or the AudioSocket connection, which ends its channel.
CleanupTransport ==
  /\ cleanup = "caller"
  /\ port' = FALSE /\ mapped' = [mapped EXCEPT !.uuid = FALSE]
  /\ IF ~external /\ port /\ MediaUp THEN HangsUpMedia ELSE UNCHANGED <<media, ends>>
  /\ cleanup' = "late"
  /\ UNCHANGED <<external, caller, bridge, joined, sess, setup, handler, provVars,
                 histVars>>

\* After the post-call tools and the history: remove_call.
CleanupRemoves ==
  /\ cleanup = "late"
  /\ sess' = [sess EXCEPT !.stored = FALSE] /\ cleanup' = "done"
  /\ UNCHANGED <<external, ariVars, port, mapped, setup, handler, provVars, histVars>>

CleanupStep ==
  \/ CleanupProvider \/ CleanupBridge \/ CleanupMedia \/ CleanupCaller
  \/ CleanupTransport \/ CleanupRemoves
-----------------------------------------------------------------------------
SetupStep ==
  \/ CreateBridge \/ CallerJoins \/ SessionSaved \/ SetupFails \/ Enrich \/ Resolve
  \/ NoPort \/ ExternalMediaAnswered \/ AudioSocketAnswered \/ ExternalMediaRefused
  \/ AudioSocketRefused \/ AttachSucceeds \/ AttachFails \/ TalkDetect
HandlerStep ==
  \/ ExternalMediaStasis \/ RetryLooksUp \/ AudioSocketStasis \/ MediaJoins \/ MediaNotJoined
StartStep(t) ==
  \/ StartBegins(t) \/ (\E i \in Instances : CreateProvider(t, i)) \/ SessionVanished(t)
  \/ StartSucceeds(t) \/ StartFails(t) \/ FailedStopped(t)
Connection == ConnectionBinds \/ ConnectionRefused \/ ConnectionDrops

Next ==
  \/ SetupStep \/ HandlerStep \/ CleanupStep \/ MediaMade \/ MediaEnters \/ Connection
  \/ \E t \in Tasks : StartStep(t)
  \/ AudioKicksOff \/ \E c \in Channels : EndEvent(c)
  \/ CallerHangsUp \/ MediaDies \/ \E i \in Instances : ProviderDies(i)

Spec == Init /\ [][Next]_vars

\* Tasks and events are served, Asterisk does as it is asked, audio keeps
\* coming; nobody has to hang up and nothing has to fail.
Fairness ==
  /\ WF_vars(SetupStep) /\ WF_vars(HandlerStep) /\ WF_vars(CleanupStep)
  /\ WF_vars(MediaMade) /\ WF_vars(MediaEnters) /\ WF_vars(Connection)
  /\ \A t \in Tasks : WF_vars(StartStep(t))
  /\ WF_vars(AudioKicksOff) /\ \A c \in Channels : WF_vars(EndEvent(c))
FairSpec == Spec /\ Fairness
-----------------------------------------------------------------------------
(* Properties *)

\* However a start is asked for, by the caller's handler, the channel's
\* handler, its retries or a frame of audio, and however it is cancelled, a
\* provider instance that runs is the registered one: never two for a call,
\* never one that the cleanup cannot find.
OneProvider == \A i \in Instances : inst[i] \in Alive => provider = i

\* The body of _cleanup_call, with its e-mails and webhooks, runs once per call
\* although both channels send two events each and the tasks that survive it
\* put the session back into the store.
CleanupOnce == bodies <= 1

\* A call that was cleaned up when its setup was over leaves nothing behind, for good.
SettledIsReleased ==
  cleanup = "done" /\ settled =>
    /\ caller = "gone" /\ bridge = "gone" /\ ~MediaUp
    /\ ~sess.stored /\ (external => ~port)
    /\ \A i \in Instances : inst[i] \notin Alive

\* The StasisStart handler of an AudioSocket channel puts it into the bridge
\* or hangs it up, whatever it finds of the call.
NoStrayAudioSocket == ~external /\ handler.at = "over" => joined \/ ~MediaUp

\* Whatever the order of the answer to the originate, the channel's StasisStart
\* and the attempts of both sides, a caller who waits gets a provider; except
\* that an AudioSocket channel whose originate is answered late is hung up,
\* and he is left in silence.
EventuallyServed == <>(caller = "gone" \/ faulty \/ media = "gone" \/ sess.active)

\* "Clean hangup (no orphan channels / stuck Stasis sessions)": when nothing
\* failed and every task is over, a cleaned call left neither.
NoOrphan ==
  /\ cleanup = "done" /\ ~faulty /\ media # "made"
  /\ setup.at = "over" /\ handler.at \in {"none", "over"} /\ starting = None
  => ~MediaUp /\ ~sess.stored

\* "Provider Unreachable: The call receives an error response and the channel
\* is cleaned up", unless a later start succeeds.
ProviderFailureEndsCall ==
  \A t \in Tasks : tasks[t].at = "failing" ~> caller = "gone" \/ sess.active
=============================================================================
