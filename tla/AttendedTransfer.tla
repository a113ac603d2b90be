--------------------------- MODULE AttendedTransfer ---------------------------
(***************************************************************************)
(* The attended transfer of one call:                                      *)
(*   src/tools/telephony/attended_transfer.py  hold the caller, dial an agent *)
(*   src/tools/telephony/cancel_transfer.py    the caller changes his mind  *)
(*   src/engine.py   the agent's announcement and DTMF decision, bridging or *)
(*                   giving up, the no-answer guard, and _cleanup_call, which *)
(*                   takes the end of an agent's leg for the end of the call *)
(*                   while the leg is mapped to it                          *)
(*                                                                         *)
(* A step is the code of one task between two awaits on ARI, on the speech  *)
(* server or on a timer; a request takes effect in the step that handles    *)
(* its answer.  The session is one shared object: what a task writes is seen *)
(* by the others at once, whichever of them saves it.  Abstracted: audio,   *)
(* digits other than accept and decline, destinations, the call history.    *)
(***************************************************************************)
EXTENDS Integers, FiniteSets

CONSTANTS
  Agents,    (* channels of agents: the transfers the model asks for, one each *)
  None,      (* no channel *)
  Impatient  (* whether a transfer may be asked for while one is under way    *)

ASSUME TransferAssumption ==
  IsFiniteSet(Agents) /\ None \notin Agents /\ Impatient \in BOOLEAN

VARIABLES
  action,    (* current_action: [on, agent, answered]                         *)
  capture,   (* audio_capture_enabled                                         *)
  stored,    (* the session is in the store                                   *)
  mapped,    (* _attended_transfer_agent_channel_to_call_id                   *)
  digit,     (* _attended_transfer_dtmf_digits: "none" (no key was pressed),  *)
             (* "accept", "decline", "other"                                  *)
  hold,      (* the caller hears music                                        *)
  caller,    (* the caller's channel: "up", "ended" (the event is on its way), *)
             (* "gone"                                                        *)
  leg,       (* an agent's channel: "none", "ringing", "up", "gone"           *)
  started,   (* agents whose StasisStart is on its way                        *)
  ended,     (* agents whose StasisEnd or ChannelDestroyed is on its way      *)
  ai,        (* the AI's media leg is in the bridge and its provider runs     *)
  bridged,   (* agents in the call's bridge                                   *)
  bridge,    (* the bridge exists                                             *)
  tool,      (* attended_transfer of an agent: "idle", "hold", "dial",        *)
             (* "unhold", "over"                                              *)
  handler,   (* _handle_attended_transfer_answered: "none"; "reject"; or       *)
             (* "announce", "prompt", "wait" (for a digit), then "connect",   *)
             (* "detach", "bridge" or "hangup", "unhold", "sorry"; "over"     *)
  quiet,     (* agents whose abort tells the caller nothing                   *)
  guard,     (* timeout guard: "none", "sleep", "hangup", "unhold", "over"    *)
  cancel,    (* cancel_transfer: at "idle", "hangup", "unhold", of the victim *)
  cleanup,   (* _cleanup_call: "no", "begun", "provider", "legs", "tools",    *)
             (* "done"                                                        *)
  todo,      (* agents' channels it found in current_action                   *)
  by,        (* history: whose end began the cleanup, None for the caller's   *)
  joined,    (* history: agents who have been in the bridge                  *)
  engineEnds,(* history: legs the engine hung up                              *)
  flawed     (* history: what went wrong by the code's own doing, see below   *)

session  == <<action, capture, stored>>
routing  == <<mapped, digit>>
legs     == <<leg, started, ended, bridged, joined, engineEnds>>
line     == <<hold, caller, ai, bridge>>
tasks    == <<tool, handler, quiet, guard, cancel>>
cleaning == <<cleanup, todo, by>>
vars == <<session, routing, legs, line, tasks, cleaning, flawed>>

NoAction == [on |-> FALSE, agent |-> None, answered |-> FALSE]
NoCancel == [at |-> "idle", victim |-> None]

(* What the code gets wrong, up to which the properties are stated:
     "overlap"  a second transfer is asked for while one is under way (attended_transfer
                overwrites current_action without a look at it; only if Impatient)
     "remapped" a leg is mapped to the call after it was given up: the agent answers
                while cancel or guard is at work, or the tool hears of the leg late
     "unseen"   an agent answers, or is dialled, when the cleanup has listed the
                channels it hangs up
     "unjoined" Asterisk refused to add the agent to the bridge: nobody looks  *)
Flaws == {"overlap", "remapped", "unseen", "unjoined"}
-----------------------------------------------------------------------------
Init ==
  /\ action = NoAction /\ capture = TRUE /\ stored = TRUE
  /\ mapped = {} /\ digit = [a \in Agents |-> "none"]
  /\ leg = [a \in Agents |-> "none"] /\ started = {} /\ ended = {}
  /\ bridged = {} /\ joined = {} /\ engineEnds = {}
  /\ hold = FALSE /\ caller = "up" /\ ai = TRUE /\ bridge = TRUE
  /\ tool = [a \in Agents |-> "idle"] /\ handler = [a \in Agents |-> "none"]
  /\ quiet = {} /\ guard = [a \in Agents |-> "none"] /\ cancel = NoCancel
  /\ cleanup = "no" /\ todo = {} /\ by = None
  /\ flawed = {}

\* hangup_channel: the events of the end follow.
HangUp(as) ==
  LET live == {a \in as : leg[a] \in {"ringing", "up"}} IN
  /\ leg' = [a \in Agents |-> IF a \in live THEN "gone" ELSE leg[a]]
  /\ ended' = ended \cup live /\ bridged' = bridged \ live
  /\ engineEnds' = engineEnds \cup live
  /\ UNCHANGED <<started, joined>>

\* _unregister_attended_transfer_agent_channel; the waiter is cancelled, and with
\* it the handler that awaits it.
Unregister(as) ==
  /\ mapped' = mapped \ as
  /\ digit' = [a \in Agents |-> IF a \in as THEN "none" ELSE digit[a]]
Woken(as) ==
  [a \in Agents |-> IF a \in as /\ handler[a] = "wait" THEN "over" ELSE handler[a]]

\* Back to the AI: no action, capture on, and the session saved.
Resume == action' = NoAction /\ capture' = TRUE /\ stored' = TRUE

Busy(a) == action.on \/ tool[a] \in {"hold", "dial", "unhold"} \/ handler[a] \notin {"none", "over"}
           \/ leg[a] \in {"ringing", "up"} \/ a \in started
           \/ guard[a] \in {"hangup", "unhold"} \/ cancel.at \in {"hangup", "unhold"}
-----------------------------------------------------------------------------
(* attended_transfer *)

ToolStarts(a) ==
  /\ tool[a] = "idle" /\ stored /\ ai /\ cleanup \in {"no", "begun"}
  /\ Impatient \/ \A b \in Agents : ~Busy(b)
  /\ tool' = [tool EXCEPT ![a] = "hold"]
  /\ flawed' = flawed \cup (IF \E b \in Agents : Busy(b) THEN {"overlap"} ELSE {})
  /\ UNCHANGED <<session, routing, legs, line, handler, quiet, guard, cancel, cleaning>>

ToolHolds(a) ==
  /\ tool[a] = "hold"
  /\ tool' = [tool EXCEPT ![a] = "dial"]
  /\ hold' = (caller = "up")
  /\ action' = [on |-> TRUE, agent |-> None, answered |-> FALSE]
  /\ capture' = FALSE /\ stored' = TRUE
  /\ UNCHANGED <<routing, legs, caller, ai, bridge, handler, quiet, guard, cancel,
                 cleaning, flawed>>

\* Asterisk creates the channel; the answer to the request is on its way.
Dials(a) ==
  /\ tool[a] = "dial" /\ leg[a] = "none"
  /\ leg' = [leg EXCEPT ![a] = "ringing"]
  /\ UNCHANGED <<session, routing, started, ended, bridged, joined, engineEnds, line, tasks,
                 cleaning, flawed>>

\* The answer.  Without a session get_session raises.
GivenUp(a) == handler[a] \in {"reject", "hangup", "unhold", "sorry", "over"}
Listed == cleanup \in {"legs", "tools", "done"}
NoGuard(a) == guard                           \* variant: nobody watches the dialling
GuardOf(a) == [guard EXCEPT ![a] = "sleep"]
ToolDialed(a) ==
  /\ tool[a] = "dial" /\ leg[a] # "none"
  /\ tool' = [tool EXCEPT ![a] = "over"]
  /\ IF stored
     THEN /\ action' = IF action.on THEN [action EXCEPT !.agent = a] ELSE action
          /\ mapped' = mapped \cup {a}
          /\ guard' = GuardOf(a)
     ELSE UNCHANGED <<action, mapped, guard>>
  /\ flawed' = flawed \cup (IF Listed THEN {"unseen"} ELSE {})
                      \cup (IF GivenUp(a) THEN {"remapped"} ELSE {})
  /\ UNCHANGED <<capture, stored, digit, legs, line, handler, quiet, cancel, cleaning>>

ToolRefused(a) ==
  /\ tool[a] = "dial" /\ leg[a] = "none"
  /\ tool' = [tool EXCEPT ![a] = "unhold"]
  /\ UNCHANGED <<session, routing, legs, line, handler, quiet, guard, cancel, cleaning, flawed>>

\* _cleanup_failed_originate: capture stays off.
ToolUnholds(a) ==
  /\ tool[a] = "unhold"
  /\ tool' = [tool EXCEPT ![a] = "over"]
  /\ hold' = FALSE
  /\ action' = IF stored THEN NoAction ELSE action
  /\ UNCHANGED <<capture, stored, routing, legs, caller, ai, bridge, handler, quiet, guard,
                 cancel, cleaning, flawed>>
-----------------------------------------------------------------------------
(* The agent and the caller *)

Answers(a) ==
  /\ leg[a] = "ringing"
  /\ leg' = [leg EXCEPT ![a] = "up"] /\ started' = started \cup {a}
  /\ UNCHANGED <<session, routing, ended, bridged, joined, engineEnds, line, tasks, cleaning, flawed>>

\* Nobody answers, or the agent hangs up.
LegEnds(a) ==
  /\ leg[a] \in {"ringing", "up"}
  /\ leg' = [leg EXCEPT ![a] = "gone"] /\ ended' = ended \cup {a}
  /\ bridged' = bridged \ {a}
  /\ UNCHANGED <<session, routing, started, joined, engineEnds, line, tasks, cleaning, flawed>>

\* The websocket drops an event.
Awaited(a) == action.on /\ action.agent = a /\ guard[a] = "sleep" /\ cancel.at = "idle"
EventLost(a) ==
  /\ a \in started \cup ended
  /\ started' = started \ {a}
  /\ ended' = IF a \in started THEN ended ELSE ended \ {a}
  /\ flawed' = flawed \cup (IF a \in started /\ ~Awaited(a) THEN {"unseen"} ELSE {})
  /\ UNCHANGED <<session, routing, leg, bridged, joined, engineEnds, line, tasks, cleaning>>

CallerHangsUp ==
  /\ caller = "up"
  /\ caller' = "ended" /\ hold' = FALSE
  /\ UNCHANGED <<session, routing, legs, ai, bridge, tasks, cleaning, flawed>>
-----------------------------------------------------------------------------
(* _handle_attended_transfer_answered *)

\* StasisStart.  Without a session or an action the agent is hung up.
Cancelled(a) == cancel.at \in {"hangup", "unhold"} \/ guard[a] \in {"hangup", "unhold"}
                \/ a \in engineEnds
Answered(a) ==
  /\ a \in started
  /\ IF stored /\ action.on
     THEN /\ mapped' = mapped \cup {a}
          /\ action' = [on |-> TRUE, agent |-> a, answered |-> TRUE]
          /\ handler' = [handler EXCEPT ![a] = "announce"]
          /\ started' = started \ {a}
          /\ flawed' = flawed \cup (IF Cancelled(a) THEN {"remapped"} ELSE {})
                              \cup (IF Listed THEN {"unseen"} ELSE {})
          /\ UNCHANGED <<digit, leg, ended, bridged, joined, engineEnds>>
     ELSE /\ handler' = [handler EXCEPT ![a] = "reject"]
          /\ started' = started \ {a}
          /\ IF stored THEN Unregister({a}) ELSE UNCHANGED routing
          /\ UNCHANGED <<action, leg, ended, bridged, joined, engineEnds, flawed>>
  /\ UNCHANGED <<capture, stored, line, tool, quiet, guard, cancel, cleaning>>

Rejects(a) ==
  /\ handler[a] = "reject"
  /\ handler' = [handler EXCEPT ![a] = "over"]
  /\ HangUp({a})
  /\ UNCHANGED <<session, routing, line, tool, quiet, guard, cancel, cleaning, flawed>>

\* _attended_transfer_abort_and_resume, its first step.  The leg is unregistered
\* before it is hung up, so that its end is not taken for the call's.
StaysMapped(a) == UNCHANGED routing           \* variant: not unregistered
LeavesMap(a) == Unregister({a})
Abort(a, silent) ==
  /\ LeavesMap(a)
  /\ handler' = [handler EXCEPT ![a] = "hangup"]
  /\ quiet' = IF silent THEN quiet \cup {a} ELSE quiet

\* The decision.  Without a session it raises, and the leg stays as it is.
Decide(a, d) ==
  IF ~stored THEN handler' = [handler EXCEPT ![a] = "over"] /\ UNCHANGED <<quiet, mapped>>
                  /\ digit' = [digit EXCEPT ![a] = d]
  ELSE IF d = "accept" THEN handler' = [handler EXCEPT ![a] = "connect"]
                            /\ UNCHANGED <<quiet, mapped>> /\ digit' = [digit EXCEPT ![a] = d]
  ELSE Abort(a, FALSE)

\* The announcement has been played, or could not be made; a digit may be there.
Announced(a) ==
  /\ handler[a] = "announce"
  /\ \/ Abort(a, TRUE)
     \/ digit[a] \in {"accept", "decline"} /\ Decide(a, digit[a])
     \/ digit[a] \notin {"accept", "decline"} /\ handler' = [handler EXCEPT ![a] = "prompt"]
        /\ UNCHANGED <<quiet, routing>>
  /\ UNCHANGED <<session, legs, line, tool, guard, cancel, cleaning, flawed>>

Prompted(a) ==
  /\ handler[a] = "prompt"
  /\ \/ Abort(a, TRUE)
     \/ digit[a] # "none" /\ Decide(a, digit[a])
     \/ digit[a] = "none" /\ handler' = [handler EXCEPT ![a] = "wait"]
        /\ UNCHANGED <<quiet, routing>>
  /\ UNCHANGED <<session, legs, line, tool, guard, cancel, cleaning, flawed>>

\* A key: _handle_dtmf_received keeps the first and wakes the handler.
Pressed(a, d) ==
  /\ leg[a] = "up" /\ a \in mapped
  /\ IF handler[a] = "wait" THEN Decide(a, d)
     ELSE /\ digit[a] = "none" /\ digit' = [digit EXCEPT ![a] = d]
          /\ UNCHANGED <<mapped, handler, quiet>>
  /\ UNCHANGED <<session, legs, line, tool, guard, cancel, cleaning, flawed>>

TimedOut(a) ==
  /\ handler[a] = "wait"
  /\ Decide(a, "none")
  /\ UNCHANGED <<session, legs, line, tool, guard, cancel, cleaning, flawed>>

AbortHangsUp(a) ==
  /\ handler[a] = "hangup"
  /\ handler' = [handler EXCEPT ![a] = "unhold"]
  /\ HangUp({a})
  /\ UNCHANGED <<session, routing, line, tool, quiet, guard, cancel, cleaning, flawed>>

\* The caller is told, unless the announcement could not be made.
Finish(a) ==
  /\ Resume /\ Unregister({a})
  /\ handler' = [handler EXCEPT ![a] = "over"]
AbortUnholds(a) ==
  /\ handler[a] = "unhold"
  /\ hold' = FALSE
  /\ IF a \in quiet THEN Finish(a)
     ELSE /\ handler' = [handler EXCEPT ![a] = "sorry"] /\ capture' = FALSE
          /\ UNCHANGED <<action, stored, routing>>
  /\ UNCHANGED <<legs, caller, ai, bridge, tool, quiet, guard, cancel, cleaning, flawed>>
AbortEnds(a) ==
  /\ handler[a] = "sorry" /\ Finish(a)
  /\ UNCHANGED <<legs, line, tool, quiet, guard, cancel, cleaning, flawed>>

\* _attended_transfer_finalize_bridge
Connects(a) ==
  /\ handler[a] = "connect"
  /\ handler' = [handler EXCEPT ![a] = "detach"]
  /\ hold' = FALSE
  /\ UNCHANGED <<session, routing, legs, caller, ai, bridge, tool, quiet, guard, cancel,
                 cleaning, flawed>>

\* The AI's leg leaves the bridge and its provider is stopped.
AiStays == TRUE                               \* variant: the AI is left in the bridge
AiLeaves == FALSE
Detaches(a) ==
  /\ handler[a] = "detach"
  /\ handler' = [handler EXCEPT ![a] = "bridge"]
  /\ ai' = (ai /\ AiLeaves)
  /\ UNCHANGED <<session, routing, legs, hold, caller, bridge, tool, quiet, guard, cancel,
                 cleaning, flawed>>

\* add_channel_to_bridge answers FALSE when it fails; nobody looks at the answer.
Bridges(a) ==
  /\ handler[a] = "bridge"
  /\ handler' = [handler EXCEPT ![a] = "over"]
  /\ IF leg[a] = "up" /\ bridge
     THEN \/ bridged' = bridged \cup {a} /\ joined' = joined \cup {a} /\ UNCHANGED flawed
          \/ flawed' = flawed \cup {"unjoined"} /\ UNCHANGED <<bridged, joined>>
     ELSE UNCHANGED <<bridged, joined, flawed>>
  /\ action' = IF action.on THEN [on |-> TRUE, agent |-> a, answered |-> TRUE] ELSE action
  /\ stored' = TRUE
  /\ UNCHANGED <<capture, routing, leg, started, ended, engineEnds, line, tool, quiet, guard,
                 cancel, cleaning>>
-----------------------------------------------------------------------------
(* _attended_transfer_timeout_guard, two seconds after Asterisk gave up dialling *)

GuardFires(a) ==
  /\ guard[a] = "sleep" /\ leg[a] # "ringing"
  /\ IF stored /\ action.on /\ action.agent = a /\ ~action.answered
     THEN guard' = [guard EXCEPT ![a] = "hangup"] /\ Unregister({a})
          /\ handler' = Woken({a})
     ELSE /\ guard' = [guard EXCEPT ![a] = "over"]
          /\ IF ~stored THEN Unregister({a}) /\ handler' = Woken({a})
             ELSE UNCHANGED <<routing, handler>>
  /\ UNCHANGED <<session, legs, line, tool, quiet, cancel, cleaning, flawed>>

GuardHangsUp(a) ==
  /\ guard[a] = "hangup"
  /\ guard' = [guard EXCEPT ![a] = "unhold"]
  /\ HangUp({a})
  /\ UNCHANGED <<session, routing, line, tool, handler, quiet, cancel, cleaning, flawed>>

GuardUnholds(a) ==
  /\ guard[a] = "unhold"
  /\ guard' = [guard EXCEPT ![a] = "over"]
  /\ hold' = FALSE /\ Resume
  /\ UNCHANGED <<routing, legs, caller, ai, bridge, tool, handler, quiet, cancel, cleaning,
                 flawed>>
-----------------------------------------------------------------------------
(* cancel_transfer *)

CancelStarts ==
  /\ cancel.at = "idle" /\ stored /\ ai /\ action.on /\ ~action.answered
  /\ cancel' = [at |-> IF action.agent = None THEN "unhold" ELSE "hangup",
                victim |-> action.agent]
  /\ Unregister({action.agent} \cap Agents) /\ handler' = Woken({action.agent})
  /\ UNCHANGED <<session, legs, line, tool, quiet, guard, cleaning, flawed>>

CancelHangsUp ==
  /\ cancel.at = "hangup"
  /\ cancel' = [cancel EXCEPT !.at = "unhold"]
  /\ HangUp({cancel.victim})
  /\ UNCHANGED <<session, routing, line, tool, handler, quiet, guard, cleaning, flawed>>

CancelUnholds ==
  /\ cancel.at = "unhold"
  /\ cancel' = NoCancel
  /\ hold' = FALSE /\ Resume
  /\ UNCHANGED <<routing, legs, caller, ai, bridge, tool, handler, quiet, guard, cleaning,
                 flawed>>
-----------------------------------------------------------------------------
(* _cleanup_call *)

Begin(x) ==
  IF stored /\ cleanup = "no" THEN cleanup' = "begun" /\ by' = x
  ELSE UNCHANGED <<cleanup, by>>

\* The end of the caller's channel.
CallerEnded ==
  /\ caller = "ended"
  /\ caller' = "gone" /\ Begin(None)
  /\ UNCHANGED <<session, routing, legs, hold, ai, bridge, tasks, todo, flawed>>

\* The end of an agent's leg: while it is mapped, the end of the call.
LegEnded(a) ==
  /\ a \in ended /\ a \notin started
  /\ ended' = ended \ {a}
  /\ IF a \in mapped THEN Begin(a) ELSE UNCHANGED <<cleanup, by>>
  /\ UNCHANGED <<session, routing, leg, started, bridged, joined, engineEnds, line, tasks, todo, flawed>>

\* Per-call tasks are cancelled, the guards among them, and the provider stopped.
CleanupCancels ==
  /\ cleanup = "begun" /\ cleanup' = "provider"
  /\ guard' = [a \in Agents |-> IF guard[a] = "none" THEN "none" ELSE "over"]
  /\ ai' = FALSE
  /\ UNCHANGED <<session, routing, legs, hold, caller, bridge, tool, handler, quiet, cancel,
                 todo, by, flawed>>

\* The bridge is destroyed and current_action asked for the channels of its leg.
NoLegs == {}                                  \* variant: the agent's leg is left alone
ActionLegs == {action.agent} \cap Agents
CleanupLists ==
  /\ cleanup = "provider" /\ cleanup' = "legs"
  /\ bridge' = FALSE /\ bridged' = {}
  /\ todo' = ActionLegs
  /\ UNCHANGED <<session, routing, leg, started, ended, joined, engineEnds, hold, caller, ai, tasks,
                 by, flawed>>

CleanupHangsUp ==
  /\ cleanup = "legs" /\ cleanup' = "tools"
  /\ HangUp(todo)
  /\ caller' = (IF caller = "up" THEN "ended" ELSE caller) /\ hold' = FALSE
  /\ UNCHANGED <<session, routing, ai, bridge, tasks, todo, by, flawed>>

\* remove_call, and what is mapped to the call.
CleanupRemoves ==
  /\ cleanup = "tools" /\ cleanup' = "done"
  /\ stored' = FALSE
  /\ Unregister(Agents) /\ handler' = Woken(Agents)
  /\ UNCHANGED <<action, capture, legs, line, tool, quiet, guard, cancel, todo, by, flawed>>
-----------------------------------------------------------------------------
ToolStep(a) == ToolHolds(a) \/ Dials(a) \/ ToolDialed(a) \/ ToolRefused(a) \/ ToolUnholds(a)
EventStep(a) == Answered(a) \/ LegEnded(a) \/ EventLost(a)
HandlerStep(a) ==
  Rejects(a) \/ Announced(a) \/ Prompted(a) \/ TimedOut(a) \/ AbortHangsUp(a)
  \/ AbortUnholds(a) \/ AbortEnds(a) \/ Connects(a) \/ Detaches(a) \/ Bridges(a)
GuardStep(a) == GuardFires(a) \/ GuardHangsUp(a) \/ GuardUnholds(a)
CancelStep == CancelHangsUp \/ CancelUnholds
CleanupStep == CallerEnded \/ CleanupCancels \/ CleanupLists \/ CleanupHangsUp \/ CleanupRemoves

Next ==
  \/ \E a \in Agents :
       \/ ToolStarts(a) \/ ToolStep(a)
       \/ Answers(a) \/ LegEnds(a) \/ EventStep(a)
       \/ HandlerStep(a) \/ GuardStep(a)
       \/ \E d \in {"accept", "decline", "other"} : Pressed(a, d)
  \/ CancelStarts \/ CancelStep \/ CallerHangsUp \/ CleanupStep

\* ARI answers, timers run out, tasks and handlers run, Asterisk stops dialling.
Fairness ==
  /\ \A a \in Agents :
       /\ WF_vars(ToolStep(a)) /\ WF_vars(EventStep(a)) /\ WF_vars(HandlerStep(a))
       /\ WF_vars(GuardStep(a)) /\ WF_vars(leg[a] = "ringing" /\ LegEnds(a))
  /\ WF_vars(CancelStep) /\ WF_vars(CleanupStep)

Spec == Init /\ [][Next]_vars /\ Fairness
-----------------------------------------------------------------------------
(* The types of the state. *)
TypeOK ==
  /\ action \in [on : BOOLEAN, agent : Agents \cup {None}, answered : BOOLEAN]
  /\ capture \in BOOLEAN /\ stored \in BOOLEAN
  /\ mapped \subseteq Agents
  /\ digit \in [Agents -> {"none", "accept", "decline", "other"}]
  /\ leg \in [Agents -> {"none", "ringing", "up", "gone"}]
  /\ started \subseteq Agents /\ ended \subseteq Agents /\ bridged \subseteq Agents
  /\ joined \subseteq Agents /\ engineEnds \subseteq Agents
  /\ hold \in BOOLEAN /\ caller \in {"up", "ended", "gone"} /\ ai \in BOOLEAN
  /\ bridge \in BOOLEAN
  /\ tool \in [Agents -> {"idle", "hold", "dial", "unhold", "over"}]
  /\ handler \in [Agents -> {"none", "reject", "announce", "prompt", "wait", "connect",
                             "detach", "bridge", "hangup", "unhold", "sorry", "over"}]
  /\ quiet \subseteq Agents
  /\ guard \in [Agents -> {"none", "sleep", "hangup", "unhold", "over"}]
  /\ cancel \in [at : {"idle", "hangup", "unhold"}, victim : Agents \cup {None}]
  /\ cancel.at = "hangup" => cancel.victim \in Agents
  /\ cleanup \in {"no", "begun", "provider", "legs", "tools", "done"}
  /\ todo \subseteq Agents /\ by \in Agents \cup {None}
  /\ flawed \subseteq Flaws

(* An agent's leg that the engine hangs up itself, because the agent declined, did not
   decide or the caller changed his mind, does not take the caller with it.  *)
OwnHangupIsHarmless == by \in engineEnds => "remapped" \in flawed

(* Once an agent talks to the caller, the end of either ends the other: the leg is
   mapped to the call, and current_action names it for the cleanup.          *)
ConnectedIsSupervised == \A a \in bridged :
  cleanup = "no" => (a \in mapped /\ action.agent = a /\ ~ai /\ ~hold)
                    \/ flawed \cap {"remapped", "overlap"} # {}

(* An agent who answers is not left in silence: he is joined to a live call or hung up. *)
LegIsServed == \A a \in Agents :
  leg[a] = "up" ~> leg[a] = "gone" \/ (a \in bridged /\ cleanup = "no") \/ flawed # {}

(* The music stops: the caller talks to an agent, to the AI, or is gone. *)
HoldEnds == hold ~> ~hold \/ flawed # {}

(* docs/RELEASE_CHECKLIST.md: "Clean hangup (no orphan channels / stuck Stasis
   sessions)".  Once a call is cleaned up, the leg of an agent whose answer the engine
   has handled goes too, were it never mapped a second time.  It does not hold if he
   answers after the channels were listed.                                   *)
NoOrphanLeg == \A a \in Agents :
  cleanup = "done" /\ leg[a] = "up" /\ handler[a] # "none" /\ "remapped" \notin flawed
    ~> leg[a] = "gone"

(* docs/TOOL_CALLING_GUIDE.md: "On decline/timeout: MOH stops and the AI resumes with
   the caller".  Only the end of a leg that was joined ends the call.        *)
CallerKept == [][cleanup = "no" /\ cleanup' # "no" /\ by' # None => by' \in joined]_vars
=============================================================================
