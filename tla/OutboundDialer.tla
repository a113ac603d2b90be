--------------------------- MODULE OutboundDialer --------------------------
(***************************************************************************)
(* The outbound campaign dialer of src/engine.py working on OutboundStore: *)
(* the scheduler task, the ARI event handlers of every outbound channel,   *)
(* the cleanup of the calls that reach an AI session, the operator's       *)
(* actions through the Admin API, and restarts of the engine.              *)
(*                                                                         *)
(* The engine is one asyncio loop, but every ARI event gets a task of its  *)
(* own (ari_client.py) and tasks interleave wherever one awaits.  A step   *)
(* here is one awaited store transaction or ARI request together with the  *)
(* code up to the next one.  An originated channel belongs to exactly one  *)
(* attempt, so channels are named by attempts.                             *)
(***************************************************************************)
EXTENDS OutboundStore, Integers

CONSTANTS
  MaxConcurrent,   (* campaign.max_concurrent after its clamp to 1..5       *)
  VoicemailDrop,   (* campaign.voicemail_drop_enabled: 0 or 1               *)
  Verdicts,        (* what AMD and the consent gate may answer              *)
  HangupDuring,    (* handler steps during which the callee may hang up     *)
  SlowDuring,      (* handler steps that may outlast the stale limit (90 s) *)
  Ops,             (* operator actions the configuration exercises          *)
  MaxOps,          (* bound on the number of operator actions               *)
  MaxMishaps       (* bound on engine restarts, drops of the ARI websocket  *)
                   (* and lost HTTP responses, taken together               *)

ASSUME DialerAssumption ==
  /\ MaxConcurrent \in 1..5
  /\ VoicemailDrop \in {0, 1}
  /\ Verdicts \subseteq {"amdMachine", "amdConsent", "amdHuman"}
  /\ MaxOps \in Nat /\ MaxMishaps \in Nat

VARIABLES
  (* the scheduler task *)
  spc,       (* where _outbound_scheduler_loop stands                       *)
  todo,      (* metas _outbound_cleanup_stale_attempts still has to look at *)
  slead,     (* the lead leased in this tick                                *)
  satt,      (* the attempt created, or being found stale, in this tick     *)
  sidle,     (* "nothing in flight" as counted when this tick began         *)
  (* the engine's memory *)
  meta,      (* _outbound_attempt_meta_by_attempt_id: "none", "created",    *)
             (* "tracked" (channel known), "zombie" (no lead, no campaign)  *)
  byChan,    (* _outbound_attempt_meta_by_channel_id                        *)
  amd,       (* keys of _outbound_attempt_amd                               *)
  awaiting,  (* _outbound_awaiting_amd_channel_ids                          *)
  stored,    (* calls present in SessionStore                               *)
  sobj,      (* the CallSession object: "none", "bare", "campaign"          *)
             (* (outbound_campaign_id filled in) or "full" (attempt id too) *)
  cleaned,   (* _cleanup_completed_at                                       *)
  (* channels and the tasks of their events *)
  chan,      (* "none", "ringing", "stasis", "dialplan" (AMD hop), "gone"   *)
  h,         (* task of the channel's latest StasisStart                    *)
  hm,        (* the meta that task found                                    *)
  e,         (* task of StasisEnd: "idle", "event"                          *)
  d,         (* task of ChannelDestroyed                                    *)
  c,         (* the one _cleanup_call of the call that does the work        *)
  (* surroundings *)
  up,        (* the engine process runs                                     *)
  ws,        (* the ARI websocket is connected                              *)
  asked,     (* the request an Admin API handler has checked, not yet done  *)
  nOps, nCrashes, nFaults,
  (* history *)
  recycled,  (* how often the operator recycled each lead                   *)
  late,      (* calls placed since the campaign left "running"              *)
  orphans    (* attempts that were open at a crash                          *)

schedVars == <<spc, todo, slead, satt, sidle>>
mapVars   == <<meta, byChan, amd>>
sessVars  == <<stored, sobj, cleaned>>
evVars    == <<e, d>>
envVars   == <<up, ws, asked, nOps, nCrashes, nFaults, recycled, orphans>>
vars == <<storeVars, schedVars, mapVars, awaiting, sessVars, chan, h, hm,
          evVars, c, envVars, late>>

Live(a)  == chan[a] \in {"ringing", "stasis", "dialplan"}
Real     == {"created", "tracked"}
InFlight == {a \in Attempts : meta[a] \in Real}
Counted  == {a \in stored : sobj[a] \in {"campaign", "full"}}
            \* count_active_outbound_calls of the campaign

AllH == {"idle", "answered", "ansLead", "ansCont", "contFail", "contFailLead",
         "hang", "hop", "amdMachine", "amdConsent", "amdHuman", "vm", "vmLead",
         "consent", "consentLead", "human", "bridge", "save", "vars", "ids",
         "media"}

Init ==
  /\ StoreInit
  /\ spc = "sleep" /\ todo = {} /\ slead = NoLead /\ satt = {} /\ sidle = FALSE
  /\ meta     = [a \in Attempts |-> "none"]
  /\ byChan   = [a \in Attempts |-> "none"]
  /\ amd = {} /\ awaiting = {} /\ stored = {} /\ cleaned = {}
  /\ sobj     = [a \in Attempts |-> "none"]
  /\ chan     = [a \in Attempts |-> "none"]
  /\ h        = [a \in Attempts |-> "idle"]
  /\ hm       = [a \in Attempts |-> "none"]
  /\ e        = [a \in Attempts |-> "idle"]
  /\ d        = [a \in Attempts |-> "idle"]
  /\ c        = [a \in Attempts |-> "idle"]
  /\ up = TRUE /\ ws = TRUE /\ asked = "none"
  /\ nOps = 0 /\ nCrashes = 0 /\ nFaults = 0
  /\ recycled = [l \in Leads |-> 0]
  /\ late = 0 /\ orphans = {}
-----------------------------------------------------------------------------
(* Shared pieces *)

\* "or": Python's x or default, for which 0 is no value.
OrDefault(x, default) == IF x = 0 THEN default ELSE x
VmEnabled == OrDefault(VoicemailDrop, 1) # 0

\* A meta is written back from what its key holds now ("get(...) or {}"): once
\* it has been popped, only an empty one comes back.
RebuiltWhole(a) == "tracked"   \* variant: from the scheduler's own copy
Rebuilt(a) == IF meta[a] \in Real THEN "tracked" ELSE "zombie"

DropMaps(a) ==
  /\ meta'   = [meta EXCEPT ![a] = "none"]
  /\ byChan' = [byChan EXCEPT ![a] = "none"]
  /\ amd'    = amd \ {a}

\* The channel goes away; Asterisk sends StasisEnd (if it was in Stasis) and
\* ChannelDestroyed, which reach the engine only over a connected websocket.
ChannelGone(a) ==
  /\ chan' = [chan EXCEPT ![a] = "gone"]
  /\ e' = [e EXCEPT ![a] = IF up /\ ws /\ chan[a] = "stasis" THEN "event" ELSE @]
  /\ d' = [d EXCEPT ![a] = IF up /\ ws THEN "event" ELSE @]

\* hangup_channel: DELETE /channels/{id}; a 404 is tolerated.
HangupChannelInStasis(a) ==   \* variant: a channel that rings is left alone
  IF chan[a] = "stasis" THEN ChannelGone(a) ELSE UNCHANGED <<chan, evVars>>
HangupChannel(a) == IF Live(a) THEN ChannelGone(a) ELSE UNCHANGED <<chan, evVars>>

\* Bound: one more restart, drop or loss.
Mishap == nCrashes + nFaults < MaxMishaps

\* The request is lost: send_command turns a ClientError into a status and
\* hangup_channel looks at no status but 404.
RequestLost == Mishap /\ nFaults' = nFaults + 1

Goto(a, step) == h' = [h EXCEPT ![a] = step]
Return(a) == Goto(a, "idle") /\ hm' = [hm EXCEPT ![a] = "none"]
Faultless == UNCHANGED envVars
FaultOnly == UNCHANGED <<up, ws, asked, nOps, nCrashes, recycled, orphans>>
-----------------------------------------------------------------------------
(* The scheduler task *)

SchedOnly == UNCHANGED <<awaiting, sessVars, h, hm, c>>

\* The locals of a tick are forgotten when it ends.
EndTick == spc' = "sleep" /\ slead' = NoLead /\ satt' = {} /\ sidle' = FALSE
NextAt(step) == spc' = step /\ UNCHANGED <<slead, satt, sidle>>

(* _outbound_cleanup_stale_attempts opens every tick: it copies the metas and *)
(* walks the copy.  Ages are not modelled: a meta it does not have to spare   *)
(* may be found stale or young, as far as SlowDuring lets the handler of its  *)
(* call still be busy by then.  The first one found stale fixes the copy.     *)
Spared(a, kind) == kind = "tracked" /\ (a \in awaiting \/ a \in stored)

\* Probe the channel and hang it up if it still exists.  A probe that fails
\* with a ClientError counts as "exists", and the hangup may be lost with it.
StaleProbe(a, kind) ==
  /\ up
  /\ \/ /\ spc = "sleep" /\ a \in InFlight /\ kind = meta[a]
        /\ todo' = {<<b, meta[b]>> : b \in InFlight}
     \/ /\ spc = "stale" /\ <<a, kind>> \in todo
        /\ UNCHANGED todo
  /\ ~Spared(a, kind) /\ h[a] \in SlowDuring
  /\ spc' = "staleFinish" /\ satt' = {a}
  /\ \/ /\ IF kind = "tracked" THEN HangupChannel(a) ELSE UNCHANGED <<chan, evVars>>
        /\ Faultless
     \/ /\ kind = "tracked" /\ Live(a)
        /\ RequestLost /\ FaultOnly /\ UNCHANGED <<chan, evVars>>
  /\ UNCHANGED <<slead, sidle, storeVars, mapVars, late>>
  /\ SchedOnly

StaleFinish(a) ==
  /\ up /\ spc = "staleFinish" /\ satt = {a}
  /\ FinishAttempt(a, "no_answer")
  /\ spc' = "staleLead"
  /\ UNCHANGED <<todo, slead, satt, sidle, status, leadVars, mapVars, chan, evVars, late>>
  /\ SchedOnly /\ Faultless

\* by_channel_id loses its entry only if the copied meta knew the channel.
StaleLead(a, kind) ==
  /\ up /\ spc = "staleLead" /\ satt = {a} /\ <<a, kind>> \in todo
  /\ SetLeadState(leadOf[a], "failed")
  /\ meta'   = [meta EXCEPT ![a] = "none"]
  /\ byChan' = [byChan EXCEPT ![a] = IF kind = "tracked" THEN "none" ELSE @]
  /\ amd'    = amd \ {a}
  /\ todo' = todo \ {<<a, kind>>}
  /\ spc' = "stale" /\ satt' = {}
  /\ UNCHANGED <<slead, sidle, status, rowVars, chan, evVars, late>>
  /\ SchedOnly /\ Faultless

Capacity == MaxConcurrent - Cardinality(InFlight) - Cardinality(Counted)

MayDialPaused == status \in {"running", "paused"} /\ Capacity > 0   \* variant
MayDial == status = "running" /\ Capacity > 0

QuietSessions == Counted = {}   \* variant: metas forgotten
Quiet == InFlight = {} /\ Counted = {}

\* list_running_campaigns, then window, capacity and pacing.  A tick that goes
\* no further (nothing running, outside the window, no capacity, interval not
\* over) leaves no trace but the end of the stale walk.
BeginTick ==
  /\ up /\ spc \in {"sleep", "stale"}
  /\ todo' = {}
  /\ \/ /\ MayDial
        /\ spc' = "lease" /\ sidle' = Quiet
        /\ UNCHANGED <<slead, satt>>
     \/ spc = "stale" /\ EndTick
  /\ UNCHANGED <<storeVars, mapVars, chan, evVars, late>>
  /\ SchedOnly /\ Faultless

\* Bound: no lead is leased once every attempt id is used.
Lease(l) ==
  /\ up /\ spc = "lease"
  /\ Unused # {}
  /\ LeasePendingLead(l)
  /\ spc' = "create" /\ slead' = l /\ sidle' = FALSE
  /\ UNCHANGED <<todo, satt, status, rowVars, mapVars, chan, evVars, late>>
  /\ SchedOnly /\ Faultless

\* Nothing to lease: _outbound_maybe_mark_campaign_completed, unless calls
\* were in flight when the tick began.
LeaseNothing ==
  /\ up /\ spc = "lease"
  /\ Leasable = {} \/ Unused = {}
  /\ IF Leasable = {} /\ sidle THEN NextAt("stats") ELSE EndTick
  /\ UNCHANGED <<todo, storeVars, mapVars, chan, evVars, late>>
  /\ SchedOnly /\ Faultless

DrainedButCanceled ==   \* variant: canceled leads are not counted as done
  Present # {} /\ \A l \in Present : leadState[l] \in {"completed", "failed"}
Drained == Present # {} /\ \A l \in Present : leadState[l] \in Closed

ReadStats ==
  /\ up /\ spc = "stats"
  /\ IF Drained THEN NextAt("complete") ELSE EndTick
  /\ UNCHANGED <<todo, storeVars, mapVars, chan, evVars, late>>
  /\ SchedOnly /\ Faultless

MarkCompleted ==
  /\ up /\ spc = "complete"
  /\ SetCampaignStatus("completed", FALSE)
  /\ EndTick
  /\ UNCHANGED <<todo, mapVars, chan, evVars, late>>
  /\ SchedOnly /\ Faultless

Create(a) ==
  /\ up /\ spc = "create"
  /\ CreateAttempt(a, slead)
  /\ meta' = [meta EXCEPT ![a] = "created"]
  /\ spc' = "mark" /\ satt' = {a}
  /\ UNCHANGED <<todo, slead, sidle, status, leadVars, byChan, amd, chan, evVars, late>>
  /\ SchedOnly /\ Faultless

Mark ==
  /\ up /\ spc = "mark"
  /\ IF leadState[slead] = "leased"
     THEN MarkLeadDialing(slead) /\ NextAt("originate")
     ELSE UNCHANGED leadVars /\ NextAt("unmark")
  /\ UNCHANGED <<todo, status, rowVars, mapVars, chan, evVars, late>>
  /\ SchedOnly /\ Faultless

\* The lead left "leased" in between: give the attempt up, place no call.
UnmarkUnfinished(a) ==   \* variant: the row is left open
  /\ up /\ spc = "unmark" /\ satt = {a}
  /\ meta' = [meta EXCEPT ![a] = "none"]
  /\ EndTick
  /\ UNCHANGED <<todo, storeVars, byChan, amd, chan, evVars, late>>
  /\ SchedOnly /\ Faultless

Unmark(a) ==
  /\ up /\ spc = "unmark" /\ satt = {a}
  /\ FinishAttempt(a, "canceled")
  /\ meta' = [meta EXCEPT ![a] = "none"]
  /\ EndTick
  /\ UNCHANGED <<todo, status, leadVars, byChan, amd, chan, evVars, late>>
  /\ SchedOnly /\ Faultless

PlaceCall(a) ==
  /\ chan' = [chan EXCEPT ![a] = "ringing"]
  /\ late' = IF status = "running" THEN 0 ELSE late + 1

\* POST /channels: accepted; refused; or its response is lost, whether the
\* call was placed or not, as a ClientError (status 500) or as a timeout that
\* leaves _outbound_originate_attempt and ends the tick.
Originate(a) ==
  /\ up /\ spc = "originate" /\ satt = {a}
  /\ \/ PlaceCall(a) /\ NextAt("setChannel") /\ Faultless
     \/ UNCHANGED <<chan, late>> /\ NextAt("origFail") /\ Faultless
     \/ /\ RequestLost /\ FaultOnly
        /\ PlaceCall(a) \/ UNCHANGED <<chan, late>>
        /\ NextAt("origFail") \/ EndTick
  /\ UNCHANGED <<todo, storeVars, mapVars, evVars>>
  /\ SchedOnly

OriginateFailed(a) ==
  /\ up /\ spc = "origFail" /\ satt = {a}
  /\ FinishAttempt(a, "error")
  /\ spc' = "origFailLead"
  /\ UNCHANGED <<todo, slead, satt, sidle, status, leadVars, mapVars, chan, evVars, late>>
  /\ SchedOnly /\ Faultless

OriginateFailedLead(a) ==
  /\ up /\ spc = "origFailLead" /\ satt = {a}
  /\ SetLeadState(slead, "failed")
  /\ meta' = [meta EXCEPT ![a] = "none"]
  /\ EndTick
  /\ UNCHANGED <<todo, status, rowVars, byChan, amd, chan, evVars, late>>
  /\ SchedOnly /\ Faultless

\* set_attempt_channel, then the maps.
SetChannel(a) ==
  /\ up /\ spc = "setChannel" /\ satt = {a}
  /\ meta'   = [meta EXCEPT ![a] = Rebuilt(a)]
  /\ byChan' = [byChan EXCEPT ![a] = Rebuilt(a)]
  /\ EndTick
  /\ UNCHANGED <<todo, storeVars, amd, chan, evVars, late>>
  /\ SchedOnly /\ Faultless

Scheduler ==
  \/ BeginTick \/ LeaseNothing \/ ReadStats \/ MarkCompleted \/ Mark
  \/ \E l \in Leads : Lease(l)
  \/ \E a \in Attempts :
       \/ \E kind \in Real : StaleProbe(a, kind) \/ StaleLead(a, kind)
       \/ StaleFinish(a)
       \/ Create(a) \/ Unmark(a) \/ Originate(a) \/ SetChannel(a)
       \/ OriginateFailed(a) \/ OriginateFailedLead(a)
-----------------------------------------------------------------------------
(* Channels: the callee, the network and the AMD dialplan *)

ChanOnly == UNCHANGED <<storeVars, schedVars, mapVars, awaiting, sessVars, c, late>>

\* The callee answers and the channel enters Stasis("outbound").  Without a
\* connected application Asterisk runs off the end and hangs up.
Answer(a) ==
  /\ chan[a] = "ringing"
  /\ IF up /\ ws
     THEN /\ chan' = [chan EXCEPT ![a] = "stasis"]
          /\ Goto(a, "answered") /\ UNCHANGED evVars
     ELSE ChannelGone(a) /\ UNCHANGED h
  /\ UNCHANGED hm /\ ChanOnly /\ Faultless

\* The AMD dialplan returns the channel with its verdict.
AmdReturns(a) ==
  /\ chan[a] = "dialplan"
  /\ IF up /\ ws
     THEN /\ chan' = [chan EXCEPT ![a] = "stasis"]
          /\ \E verdict \in Verdicts : Goto(a, verdict)
          /\ UNCHANGED evVars
     ELSE ChannelGone(a) /\ UNCHANGED h
  /\ UNCHANGED hm /\ ChanOnly /\ Faultless

\* Hang-up by the callee, ring timeout, or the AI ending the call.
HangUp(a) ==
  /\ Live(a) /\ h[a] \in HangupDuring
  /\ ChannelGone(a)
  /\ UNCHANGED <<h, hm>> /\ ChanOnly /\ Faultless

-----------------------------------------------------------------------------
(* StasisStart("outbound"): answered *)

HandlerOnly == UNCHANGED <<schedVars, late>>

AnsweredBegin(a) ==
  /\ up /\ h[a] = "answered"
  /\ hm' = [hm EXCEPT ![a] = meta[a]]
  /\ IF meta[a] = "none" THEN UNCHANGED <<meta, byChan>>
     ELSE /\ meta'   = [meta EXCEPT ![a] = IF @ \in Real THEN "tracked" ELSE "zombie"]
          /\ byChan' = [byChan EXCEPT ![a] = meta'[a]]
  /\ Goto(a, IF meta[a] \in Real THEN "ansLead" ELSE "ansCont")
  /\ UNCHANGED <<storeVars, amd, awaiting, sessVars, chan, evVars, c>>
  /\ HandlerOnly /\ Faultless

AnsweredLead(a) ==
  /\ up /\ h[a] = "ansLead"
  /\ SetLeadState(leadOf[a], "amd_pending")
  /\ Goto(a, "ansCont")
  /\ UNCHANGED <<status, rowVars, mapVars, awaiting, sessVars, chan, hm, evVars, c>>
  /\ HandlerOnly /\ Faultless

\* continueInDialplan; the channel is announced as awaiting AMD before.
AnsweredContinue(a) ==
  /\ up /\ h[a] = "ansCont"
  /\ awaiting' = awaiting \cup {a}
  /\ \/ /\ chan[a] = "stasis"
        /\ chan' = [chan EXCEPT ![a] = "dialplan"]
        /\ Goto(a, "hop") /\ hm' = [hm EXCEPT ![a] = "none"] /\ Faultless
     \/ /\ chan[a] # "stasis"
        /\ UNCHANGED <<chan, hm>> /\ Goto(a, "contFail") /\ Faultless
     \/ /\ RequestLost /\ FaultOnly /\ UNCHANGED <<chan, hm>> /\ Goto(a, "contFail")
  /\ UNCHANGED <<storeVars, mapVars, sessVars, evVars, c>>
  /\ HandlerOnly

ContinueFailed(a) ==
  /\ up /\ h[a] = "contFail"
  /\ awaiting' = awaiting \ {a}
  /\ IF hm[a] = "none"
     THEN UNCHANGED rowVars /\ Goto(a, "hang")
     ELSE FinishAttempt(a, "error") /\ Goto(a, "contFailLead")
  /\ UNCHANGED <<status, leadVars, mapVars, sessVars, chan, hm, evVars, c>>
  /\ HandlerOnly /\ Faultless

ContinueFailedLead(a) ==
  /\ up /\ h[a] = "contFailLead"
  /\ IF hm[a] \in Real THEN SetLeadState(leadOf[a], "failed") ELSE UNCHANGED leadVars
  /\ Goto(a, "hang")
  /\ UNCHANGED <<status, rowVars, mapVars, awaiting, sessVars, chan, hm, evVars, c>>
  /\ HandlerOnly /\ Faultless

\* The last thing a handler does with a channel it gives up.
HandlerHangup(a) ==
  /\ up /\ h[a] = "hang"
  /\ Return(a)
  /\ \/ HangupChannel(a) /\ Faultless
     \/ Live(a) /\ RequestLost /\ FaultOnly /\ UNCHANGED <<chan, evVars>>
  /\ UNCHANGED <<storeVars, mapVars, awaiting, sessVars, c>>
  /\ HandlerOnly
-----------------------------------------------------------------------------
(* StasisStart("outbound_amd"): the AMD verdict *)

AmdBegin(a) ==
  /\ up /\ h[a] \in {"amdMachine", "amdConsent", "amdHuman"}
  /\ awaiting' = awaiting \ {a}
  /\ hm' = [hm EXCEPT ![a] = IF meta[a] # "none" THEN meta[a] ELSE byChan[a]]
  /\ amd' = amd \cup {a}
  /\ Goto(a, CASE h[a] = "amdMachine" -> "vm"
               [] h[a] = "amdConsent" -> "consent"
               [] OTHER               -> "human")
  /\ UNCHANGED <<storeVars, meta, byChan, sessVars, chan, evVars, c>>
  /\ HandlerOnly /\ Faultless

\* The verdict closes the attempt: o is recorded once any voicemail playback
\* is over (it may take up to 30 s, or end early), s is the lead's last state.
Verdict(a, at, next, o) ==
  /\ up /\ h[a] = at
  /\ FinishAttempt(a, o)
  /\ Goto(a, next)
  /\ UNCHANGED <<status, leadVars, mapVars, awaiting, sessVars, chan, hm, evVars, c>>
  /\ HandlerOnly /\ Faultless

VerdictLead(a, at, s) ==
  /\ up /\ h[a] = at
  /\ IF hm[a] \in Real THEN SetLeadState(leadOf[a], s) ELSE UNCHANGED leadVars
  /\ DropMaps(a)
  /\ Goto(a, "hang")
  /\ UNCHANGED <<status, rowVars, awaiting, sessVars, chan, hm, evVars, c>>
  /\ HandlerOnly /\ Faultless

MachineFinish(a) == Verdict(a, "vm", "vmLead", IF VmEnabled THEN "voicemail_dropped"
                                                            ELSE "machine_detected")
MachineLead(a)   == VerdictLead(a, "vmLead", "completed")
ConsentFinish(a) == Verdict(a, "consent", "consentLead", "consent_denied")
ConsentLead(a)   == VerdictLead(a, "consentLead", "canceled")

HumanLead(a) ==
  /\ up /\ h[a] = "human"
  /\ IF hm[a] \in Real THEN SetLeadState(leadOf[a], "in_progress") ELSE UNCHANGED leadVars
  /\ Goto(a, "bridge") /\ hm' = [hm EXCEPT ![a] = "none"]
  /\ UNCHANGED <<status, rowVars, mapVars, awaiting, sessVars, chan, evVars, c>>
  /\ HandlerOnly /\ Faultless
-----------------------------------------------------------------------------
(* _handle_caller_stasis_start_hybrid for an outbound channel, and the end *)
(* of the call                                                             *)

CanClean(a)     == a \in stored /\ a \notin cleaned
StartCleanup(a) == /\ cleaned' = cleaned \cup {a}
                   /\ c' = [c EXCEPT ![a] = "hang"]
Clean(a) == IF CanClean(a) THEN StartCleanup(a) ELSE UNCHANGED <<cleaned, c>>

\* Bridge the channel.  If that fails (the channel has left Stasis, or the
\* request is lost) the handler cleans up a session that does not exist yet.
Bridge(a) ==
  /\ up /\ h[a] = "bridge"
  /\ \/ /\ Goto(a, IF a \notin stored /\ chan[a] = "stasis" THEN "save" ELSE "idle")
        /\ Faultless
     \/ a \notin stored /\ Goto(a, "idle") /\ RequestLost /\ FaultOnly
  /\ UNCHANGED <<storeVars, mapVars, awaiting, sessVars, chan, hm, evVars, c>>
  /\ HandlerOnly

SaveSession(a) ==
  /\ up /\ h[a] = "save"
  /\ stored' = stored \cup {a}
  /\ sobj' = [sobj EXCEPT ![a] = "bare"]
  /\ Goto(a, "vars")
  /\ UNCHANGED <<storeVars, mapVars, awaiting, cleaned, chan, hm, evVars, c>>
  /\ HandlerOnly /\ Faultless

\* AAVA_CAMPAIGN_ID, then AAVA_ATTEMPT_ID: readable only while the channel
\* exists.  They are set on the object, stored or not.
ReadVar(a, at, next, known) ==
  /\ up /\ h[a] = at
  /\ sobj' = [sobj EXCEPT ![a] = IF Live(a) THEN known ELSE @]
  /\ Goto(a, next)
  /\ UNCHANGED <<storeVars, mapVars, awaiting, stored, cleaned, chan, hm, evVars, c>>
  /\ HandlerOnly /\ Faultless

ReadCampaign(a) == ReadVar(a, "vars", "ids", "campaign")
ReadAttempt(a)  == ReadVar(a, "ids", "media", "full")

\* The session is saved again, whether or not a cleanup has removed it; then
\* the media leg starts, or its failure runs _cleanup_call.
StartMedia(a) ==
  /\ up /\ h[a] = "media"
  /\ stored' = stored \cup {a}
  /\ \/ UNCHANGED <<cleaned, c>>
     \/ a \notin cleaned /\ StartCleanup(a)
  /\ Goto(a, "idle")
  /\ UNCHANGED <<storeVars, mapVars, awaiting, sobj, chan, hm, evVars>>
  /\ HandlerOnly /\ Faultless

CleanupHangup(a) ==
  /\ up /\ c[a] = "hang"
  /\ c' = [c EXCEPT ![a] = "persist"]
  /\ \/ HangupChannel(a) /\ Faultless
     \/ Live(a) /\ RequestLost /\ FaultOnly /\ UNCHANGED <<chan, evVars>>
  /\ UNCHANGED <<storeVars, mapVars, awaiting, sessVars, h, hm>>
  /\ HandlerOnly

\* _persist_call_history finishes the attempt of a session that knows it,
\* provided the history record could be saved (a fault otherwise).
Persist(a) ==
  /\ up /\ c[a] = "persist"
  /\ \/ /\ sobj[a] = "full"
        /\ \/ FinishAttempt(a, "answered_human") /\ c' = [c EXCEPT ![a] = "leadDone"]
           \/ FinishAttempt(a, "error") /\ c' = [c EXCEPT ![a] = "leadFailed"]
        /\ Faultless
     \/ /\ UNCHANGED rowVars /\ c' = [c EXCEPT ![a] = "remove"]
        /\ \/ sobj[a] # "full" /\ Faultless
           \/ sobj[a] = "full" /\ RequestLost /\ FaultOnly
  /\ UNCHANGED <<status, leadVars, mapVars, awaiting, sessVars, chan, h, hm, evVars>>
  /\ HandlerOnly

PersistLeadUntouched(a) ==   \* variant: the lead is not closed
  /\ up /\ c[a] \in {"leadDone", "leadFailed"}
  /\ DropMaps(a)
  /\ c' = [c EXCEPT ![a] = "remove"]
  /\ UNCHANGED <<storeVars, awaiting, sessVars, chan, h, hm, evVars>>
  /\ HandlerOnly /\ Faultless

PersistLead(a) ==
  /\ up /\ c[a] \in {"leadDone", "leadFailed"}
  /\ SetLeadState(leadOf[a], IF c[a] = "leadDone" THEN "completed" ELSE "failed")
  /\ DropMaps(a)
  /\ c' = [c EXCEPT ![a] = "remove"]
  /\ UNCHANGED <<status, rowVars, awaiting, sessVars, chan, h, hm, evVars>>
  /\ HandlerOnly /\ Faultless

RemoveSession(a) ==
  /\ up /\ c[a] = "remove"
  /\ stored' = stored \ {a}
  /\ c' = [c EXCEPT ![a] = "idle"]
  /\ UNCHANGED <<storeVars, mapVars, awaiting, sobj, cleaned, chan, h, hm, evVars>>
  /\ HandlerOnly /\ Faultless
-----------------------------------------------------------------------------
(* StasisEnd and ChannelDestroyed.  Tasks start in the order of the events, *)
(* so neither starts before the StasisStart task in front of it.            *)

Started(a) == h[a] \notin {"answered", "amdMachine", "amdConsent", "amdHuman"}

StasisEnd(a) ==
  /\ up /\ e[a] = "event" /\ Started(a)
  /\ e' = [e EXCEPT ![a] = "idle"]
  /\ IF a \in awaiting THEN UNCHANGED <<cleaned, c>> ELSE Clean(a)
  /\ UNCHANGED <<storeVars, mapVars, awaiting, stored, sobj, chan, h, hm, d>>
  /\ HandlerOnly /\ Faultless

\* Still this handler's to finish: a known attempt without a session.
UntalkedAnyway(a)   == byChan[a] \in Real                      \* variant
Untalked(a) == byChan[a] \in Real /\ a \notin stored

DestroyedBegin(a) ==
  /\ up /\ d[a] = "event" /\ Started(a) /\ e[a] = "idle"
  /\ d' = [d EXCEPT ![a] = IF Untalked(a) THEN "finish" ELSE "cleanup"]
  /\ byChan' = [byChan EXCEPT ![a] = IF @ = "zombie" /\ a \notin stored
                                     THEN "none" ELSE @]
  /\ UNCHANGED <<storeVars, meta, amd, awaiting, sessVars, chan, h, hm, e, c>>
  /\ HandlerOnly /\ Faultless

\* The cause is mapped to busy, no_answer, congestion, ...: "hangup" here.
DestroyedFinish(a) ==
  /\ up /\ d[a] = "finish"
  /\ FinishAttempt(a, "hangup")
  /\ d' = [d EXCEPT ![a] = "lead"]
  /\ UNCHANGED <<status, leadVars, mapVars, awaiting, sessVars, chan, h, hm, e, c>>
  /\ HandlerOnly /\ Faultless

DestroyedLeadRetries(a) ==   \* variant: the lead is queued again
  /\ up /\ d[a] = "lead"
  /\ SetLeadState(leadOf[a], "pending")
  /\ DropMaps(a)
  /\ d' = [d EXCEPT ![a] = "cleanup"]
  /\ UNCHANGED <<status, rowVars, awaiting, sessVars, chan, h, hm, e, c>>
  /\ HandlerOnly /\ Faultless

DestroyedLeadKeepsMaps(a) ==   \* variant: the maps are not cleared
  /\ up /\ d[a] = "lead"
  /\ SetLeadState(leadOf[a], "failed")
  /\ d' = [d EXCEPT ![a] = "cleanup"]
  /\ UNCHANGED <<status, rowVars, mapVars, awaiting, sessVars, chan, h, hm, e, c>>
  /\ HandlerOnly /\ Faultless

DestroyedLead(a) ==
  /\ up /\ d[a] = "lead"
  /\ SetLeadState(leadOf[a], "failed")
  /\ DropMaps(a)
  /\ d' = [d EXCEPT ![a] = "cleanup"]
  /\ UNCHANGED <<status, rowVars, awaiting, sessVars, chan, h, hm, e, c>>
  /\ HandlerOnly /\ Faultless

DestroyedCleanup(a) ==
  /\ up /\ d[a] = "cleanup"
  /\ d' = [d EXCEPT ![a] = "idle"]
  /\ Clean(a)
  /\ UNCHANGED <<storeVars, mapVars, awaiting, stored, sobj, chan, h, hm, e>>
  /\ HandlerOnly /\ Faultless

Handler(a) ==
  \/ AnsweredBegin(a) \/ AnsweredLead(a) \/ AnsweredContinue(a)
  \/ ContinueFailed(a) \/ ContinueFailedLead(a) \/ HandlerHangup(a)
  \/ AmdBegin(a) \/ MachineFinish(a) \/ MachineLead(a)
  \/ ConsentFinish(a) \/ ConsentLead(a) \/ HumanLead(a)
  \/ Bridge(a) \/ SaveSession(a)
  \/ ReadCampaign(a) \/ ReadAttempt(a) \/ StartMedia(a)

Teardown(a) ==
  \/ CleanupHangup(a) \/ Persist(a) \/ PersistLead(a) \/ RemoveSession(a)
  \/ StasisEnd(a) \/ DestroyedBegin(a) \/ DestroyedFinish(a)
  \/ DestroyedLead(a) \/ DestroyedCleanup(a)
-----------------------------------------------------------------------------
(* The operator, through admin_ui/backend/api/outbound.py.  Some requests   *)
(* check in one transaction and act in a later one.  Bound: one request at a  *)
(* time stands between the two.                                               *)

OpFrame == UNCHANGED <<schedVars, mapVars, awaiting, sessVars, chan, h, hm, evVars,
                       c, up, ws, nCrashes, nFaults, orphans>>

Request(name, passes) ==
  /\ name \in Ops /\ nOps < MaxOps /\ asked = "none"
  /\ passes
  /\ asked' = name
  /\ UNCHANGED <<storeVars, nOps, late, recycled>> /\ OpFrame

RequestStart   == Request("running", \E l \in Leads : leadState[l] = "pending")
RequestArchive == Request("archive", status # "running")
RequestDelete  == Request("delete", MayDelete)

Op(name) ==
  /\ name \in Ops /\ nOps < MaxOps
  /\ nOps' = nOps + 1
  /\ OpFrame

OpAsked(name) == asked = name /\ asked' = "none" /\ Op(name)
OpPlain(name) == UNCHANGED asked /\ Op(name)

OpStart ==
  /\ OpAsked("running")
  /\ SetCampaignStatus("running", FALSE)
  /\ late' = 0 /\ UNCHANGED recycled

OpArchive ==
  /\ OpAsked("archive")
  /\ SetCampaignStatus("archived", FALSE)
  /\ UNCHANGED <<late, recycled>>

OpDelete(l) == OpAsked("delete") /\ DeleteLead(l) /\ UNCHANGED <<late, recycled>>

\* The status endpoint takes every other status as it comes.
OpStatus ==
  /\ \E s \in Statuses \ {"running"}, cancelPending \in BOOLEAN :
        OpPlain(s) /\ SetCampaignStatus(s, cancelPending)
  /\ UNCHANGED <<late, recycled>>

OpCancel(l) == OpPlain("cancel") /\ CancelLead(l) /\ UNCHANGED <<late, recycled>>
OpIgnore(l) == OpPlain("ignore") /\ IgnoreLead(l) /\ UNCHANGED <<late, recycled>>
OpImport(l) == OpPlain("import") /\ ImportLead(l) /\ UNCHANGED <<late, recycled>>

OpRecycle(l) ==
  /\ OpPlain("recycle")
  /\ \E reset \in BOOLEAN : RecycleLead(l, reset)
  /\ recycled' = [recycled EXCEPT ![l] = @ + 1]
  /\ UNCHANGED late

Operator ==
  \/ RequestStart \/ RequestArchive \/ RequestDelete
  \/ OpStart \/ OpArchive \/ OpStatus
  \/ \E l \in Leads : \/ OpCancel(l) \/ OpIgnore(l) \/ OpDelete(l)
                      \/ OpRecycle(l) \/ OpImport(l)
-----------------------------------------------------------------------------
(* Process and connection failures *)

\* The engine's memory and its tasks are gone; rows and channels are not.
Crash ==
  /\ up /\ Mishap
  /\ up' = FALSE /\ nCrashes' = nCrashes + 1
  /\ orphans' = orphans \cup Open
  /\ spc' = "sleep" /\ todo' = {} /\ slead' = NoLead /\ satt' = {} /\ sidle' = FALSE
  /\ meta'   = [a \in Attempts |-> "none"]
  /\ byChan' = [a \in Attempts |-> "none"]
  /\ amd' = {} /\ awaiting' = {} /\ stored' = {} /\ cleaned' = {}
  /\ sobj' = [a \in Attempts |-> "none"]
  /\ h'  = [a \in Attempts |-> "idle"]
  /\ hm' = [a \in Attempts |-> "none"]
  /\ e'  = [a \in Attempts |-> "idle"]
  /\ d'  = [a \in Attempts |-> "idle"]
  /\ c'  = [a \in Attempts |-> "idle"]
  /\ UNCHANGED <<storeVars, chan, ws, asked, nOps, nFaults, recycled, late>>

\* start(): attempts older than AAVA_OUTBOUND_ATTEMPT_STALE_SECONDS are closed,
\* younger ones are left as they are; then the scheduler starts.
Start ==
  /\ ~up
  /\ up' = TRUE
  /\ \E S \in SUBSET Open : CleanupStale(S)
  /\ UNCHANGED <<schedVars, mapVars, awaiting, sessVars, chan, h, hm, evVars, c,
                 ws, asked, nOps, nCrashes, nFaults, recycled, orphans, late>>

WsDrop ==
  /\ ws /\ Mishap
  /\ ws' = FALSE /\ nFaults' = nFaults + 1
  /\ UNCHANGED <<storeVars, schedVars, mapVars, awaiting, sessVars, chan, h, hm,
                 evVars, c, up, asked, nOps, nCrashes, recycled, orphans, late>>

WsReconnect ==
  /\ ~ws
  /\ ws' = TRUE
  /\ UNCHANGED <<storeVars, schedVars, mapVars, awaiting, sessVars, chan, h, hm,
                 evVars, c, up, asked, nOps, nCrashes, nFaults, recycled, orphans, late>>

LeaseTimeout ==
  /\ \E l \in Leads : leadState[l] = "leased" /\ LeaseExpires(l)
  /\ UNCHANGED <<schedVars, mapVars, awaiting, sessVars, chan, h, hm, evVars, c,
                 envVars, late>>

Next ==
  \/ Scheduler \/ Operator
  \/ \E a \in Attempts : \/ Handler(a) \/ Teardown(a)
                         \/ Answer(a) \/ AmdReturns(a) \/ HangUp(a)
  \/ LeaseTimeout \/ Crash \/ Start \/ WsDrop \/ WsReconnect

Spec == Init /\ [][Next]_vars

(* The event loop runs every ready task, a meta that stays grows stale, the   *)
(* calling window reopens, and every call ends.                               *)
Env(a) == Answer(a) \/ AmdReturns(a) \/ HangUp(a)
CleanupTask(a)   == CleanupHangup(a) \/ Persist(a) \/ PersistLead(a) \/ RemoveSession(a)
DestroyedTask(a) == DestroyedBegin(a) \/ DestroyedFinish(a) \/ DestroyedLead(a)
                    \/ DestroyedCleanup(a)
Fairness ==
  /\ WF_vars(Scheduler)
  /\ SF_vars(BeginTick /\ spc' = "lease")
  /\ \A a \in Attempts :
       /\ SF_vars(\E kind \in Real : StaleProbe(a, kind))
       /\ WF_vars(Handler(a)) /\ WF_vars(CleanupTask(a))
       /\ WF_vars(StasisEnd(a)) /\ WF_vars(DestroyedTask(a))
       /\ WF_vars(Env(a))
  /\ WF_vars(Start) /\ WF_vars(WsReconnect)
FairSpec == Spec /\ Fairness
-----------------------------------------------------------------------------
TypeOK ==
  /\ StoreTypeOK
  /\ spc \in {"sleep", "stale", "staleFinish", "staleLead", "lease",
              "stats", "complete", "create", "mark", "unmark", "originate",
              "setChannel", "origFail", "origFailLead"}
  /\ todo \in SUBSET (Attempts \X Real)
  /\ slead \in Leads \cup {NoLead}
  /\ satt \in SUBSET Attempts
  /\ sidle \in BOOLEAN
  /\ meta \in [Attempts -> Real \cup {"none", "zombie"}]
  /\ byChan \in [Attempts -> {"none", "tracked", "zombie"}]
  /\ amd \in SUBSET Attempts /\ awaiting \in SUBSET Attempts
  /\ stored \in SUBSET Attempts /\ cleaned \in SUBSET Attempts
  /\ sobj \in [Attempts -> {"none", "bare", "campaign", "full"}]
  /\ chan \in [Attempts -> {"none", "ringing", "stasis", "dialplan", "gone"}]
  /\ h \in [Attempts -> AllH]
  /\ hm \in [Attempts -> Real \cup {"none", "zombie"}]
  /\ e \in [Attempts -> {"idle", "event"}]
  /\ d \in [Attempts -> {"idle", "event", "finish", "lead", "cleanup"}]
  /\ c \in [Attempts -> {"idle", "hang", "persist", "leadDone", "leadFailed", "remove"}]
  /\ up \in BOOLEAN /\ ws \in BOOLEAN
  /\ asked \in {"none", "running", "archive", "delete"}
  /\ nOps \in 0..MaxOps /\ nCrashes \in 0..MaxMishaps /\ nFaults \in 0..MaxMishaps
  /\ recycled \in [Leads -> Nat]
  /\ late \in Nat
  /\ orphans \in SUBSET Attempts

(* At most max_concurrent attempts of a campaign are in flight, whatever the *)
(* interleaving, restart or fault: the pacing promise of the scheduler loop. *)
InFlightCap == Cardinality(InFlight) <= MaxConcurrent

(* The accounting the scheduler reads implements CallSlots: an attempt takes  *)
(* a slot once, when one is free, and once given back it stays given back:    *)
(* the handlers that write a meta back (SetChannel, AnsweredBegin) never      *)
(* revive one that another task has dropped meanwhile.                        *)
SlotOf == [a \in Attempts |-> IF attempt[a] = "none" THEN "unused"
                              ELSE IF a \in InFlight THEN "busy" ELSE "free"]
Slots  == INSTANCE CallSlots WITH Calls <- Attempts, Max <- MaxConcurrent,
                                  slot <- SlotOf
SlotsRefined == Slots!Spec

(* Every attempt left open by this run of the engine is counted in flight:   *)
(* no handler drops an attempt from the accounting before closing its row.   *)
OpenIsCounted == Open \ orphans \subseteq InFlight

(* As long as no request was lost and the engine has not been restarted, every *)
(* channel that exists is in flight, belongs to a stored session, or is about  *)
(* to be hung up by its handler: no call runs outside max_concurrent.          *)
LiveIsAccounted ==
  nCrashes = 0 /\ nFaults = 0 =>
    \A a \in Attempts : Live(a) => a \in InFlight \cup stored \/ h[a] = "hang"

(* A lead is called once, and once more for every time the operator recycled *)
(* it: nothing (lease expiry, stale cleanup, a restart, a     *)
(* late event) redials on its own.                                           *)
Dialed(l) == {a \in Attempts : leadOf[a] = l /\ chan[a] # "none"}
NoAutomaticRetry == \A l \in Leads : Cardinality(Dialed(l)) <= 1 + recycled[l]

(* A campaign taken out of "running" gets at most the one call the tick in   *)
(* progress had already decided on.                                          *)
AtMostOneLateCall == late <= 1

(* The scheduler declares a campaign completed, on the strength of counts it  *)
(* took several awaits earlier, only while nothing is in flight and every     *)
(* attempt of this run of the engine is closed.                               *)
CompletedIsIdle ==
  [][status # "completed" /\ status' = "completed" /\ nOps' = nOps
       => InFlight = {} /\ Open \subseteq orphans]_vars

\* The stale watchdog is at an attempt it copied when it began to walk and whose
\* metas have been dropped since.
StaleCopy(a) == spc = "staleFinish" /\ a \in satt /\ a \notin InFlight

(* Unless a request was lost, the outcome of an answered call is final: the   *)
(* destroyed handler, the originate path, the cleanups and the stale watchdog *)
(* on an attempt in flight may finish an attempt late, never one that a       *)
(* conversation has finished.                                                 *)
HumanOutcomeKept ==
  [][\A a \in Attempts : outcome[a] = "answered_human" /\ nFaults = 0 /\ ~StaleCopy(a)
       => outcome'[a] = "answered_human"]_vars

(* "If a call session exists, normal cleanup will finish the attempt"          *)
(* (engine.py, _outbound_cleanup_stale_attempts): what it recorded is final.   *)
(* It does not hold: while the watchdog hangs one attempt up, the conversation *)
(* of the next one in its copy may end, and its session be gone when it is     *)
(* looked for.                                                                *)
ConversationIsFinal ==
  [][\A a \in Attempts : outcome[a] = "answered_human" => outcome'[a] = "answered_human"]_vars

(* Every attempt gives its place in the accounting back: the capacity of the  *)
(* campaign is never locked up.                                               *)
SlotsReturn == \A a \in Attempts : (a \in InFlight) ~> (a \notin InFlight)

(* A lead the dialer has taken in hand reaches an end or becomes pending.     *)
LeadsLeaveHand == \A l \in Leads : (leadState[l] \in InHand) ~> (leadState[l] \notin InHand)

(* A running campaign ends up completed (or taken out of running).            *)
Completes == (status = "running") ~> (status # "running")

(* "Mark a running campaign as completed when there is no remaining runnable  *)
(* work" (engine.py, _outbound_maybe_mark_campaign_completed).  It does not    *)
(* hold: the operator may pause the campaign, or import a lead, after the      *)
(* statistics were read.                                                      *)
CompletedWhenDone ==
  [][status # "completed" /\ status' = "completed" /\ nOps' = nOps
       => status = "running" /\ Drained]_vars

(* "stale leased/dialing leads are re-queued after TTL" (milestone 22): unless *)
(* a request or an event was lost, no lead stays dialing.  It does not hold:   *)
(* a restart leaves the row of a young attempt as it is, and only a lease has  *)
(* a TTL.                                                                     *)
DialingLeadsReturn ==
  \A l \in Leads : (leadState[l] = "dialing") ~> (leadState[l] # "dialing" \/ nFaults > 0)

(* "confirm at most 2 calls are in progress" with max_concurrent = 2           *)
(* (milestone 22): as long as the engine is not restarted no more channels     *)
(* exist than the campaign may have, those about to be hung up apart.  It does *)
(* not hold: a call whose originate answer was lost is in neither count.       *)
CallsAreCapped ==
  nCrashes = 0 => Cardinality({a \in Attempts : Live(a) /\ h[a] # "hang"}) <= MaxConcurrent

(* "If a call session exists, normal cleanup will finish the attempt."         *)
(* (engine.py, _outbound_cleanup_stale_attempts): a session that knows its     *)
(* attempt is not removed before the attempt is finished.  It does not hold:   *)
(* a history record that cannot be saved takes the finish with it.             *)
CleanupFinishes ==
  [][\A a \in stored \ stored' : up' /\ sobj[a] = "full" => attempt[a] # "open"]_vars

(* With the voicemail drop switched off no attempt is recorded as a voicemail *)
(* dropped.  It does not hold (README, Observations).                         *)
DropSwitchedOff ==
  VoicemailDrop = 0 => \A a \in Attempts : outcome[a] # "voicemail_dropped"
=============================================================================
