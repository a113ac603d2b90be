------------------------ MODULE AttendedTransferProofs ------------------------
(***************************************************************************)
(* The safety of AttendedTransfer, for any number of agents and whether or  *)
(* not transfers overlap: the types, that the end of a leg the engine hung  *)
(* up itself does not end the call, and that an agent who is joined to the  *)
(* caller is the one the session knows of.                                 *)
(***************************************************************************)
EXTENDS AttendedTransfer, TLAPS

USE DEF session, routing, legs, line, tasks, cleaning

(* The types, in two parts. *)
Switches ==
  capture \in BOOLEAN /\ stored \in BOOLEAN /\ hold \in BOOLEAN /\ ai \in BOOLEAN
  /\ bridge \in BOOLEAN
Channels ==
  /\ action \in [on : BOOLEAN, agent : Agents \cup {None}, answered : BOOLEAN]
  /\ mapped \subseteq Agents
  /\ digit \in [Agents -> {"none", "accept", "decline", "other"}]
  /\ leg \in [Agents -> {"none", "ringing", "up", "gone"}]
  /\ started \subseteq Agents /\ ended \subseteq Agents /\ bridged \subseteq Agents
  /\ joined \subseteq Agents /\ engineEnds \subseteq Agents
  /\ caller \in {"up", "ended", "gone"}
Tasks ==
  /\ tool \in [Agents -> {"idle", "hold", "dial", "unhold", "over"}]
  /\ handler \in [Agents -> {"none", "reject", "announce", "prompt", "wait", "connect",
                             "detach", "bridge", "hangup", "unhold", "sorry", "over"}]
  /\ quiet \subseteq Agents
  /\ guard \in [Agents -> {"none", "sleep", "hangup", "unhold", "over"}]
  /\ cancel \in [at : {"idle", "hangup", "unhold"}, victim : Agents \cup {None}]
  /\ (cancel.at = "hangup" => cancel.victim \in Agents)
  /\ cleanup \in {"no", "begun", "provider", "legs", "tools", "done"}
  /\ todo \subseteq Agents /\ by \in Agents \cup {None}
FlawsNamed == flawed \subseteq Flaws

(* An end is reported once the channel is gone; a channel that is gone has no second
   end, and is not hung up again.                                            *)
EndedIsGone ==
  /\ \A a \in ended \cup engineEnds : leg[a] = "gone"
  /\ by # None => leg[by] = "gone"

(* A leg is answered at most once, and handled from then on. *)
AnsweredOnce == \A a \in Agents :
  /\ leg[a] \in {"none", "ringing"} => a \notin started
  /\ a \in started \/ leg[a] \in {"none", "ringing"} => handler[a] = "none"

(* The guard and the cancellation know a leg from the tool that dialled it. *)
DialedIsOver == \A a \in Agents :
  /\ guard[a] # "none" \/ cancel.victim = a => tool[a] = "over"
  /\ action.agent = a => tool[a] = "over" \/ action.answered

(* The session leaves the store in the cleanup only. *)
StoredWhileUp == ~stored => cleanup # "no"

(* A leg that is being given up, or has been hung up, is not mapped to the call. *)
Leaving(a) ==
  \/ handler[a] \in {"reject", "hangup"}
  \/ guard[a] = "hangup"
  \/ cancel.at = "hangup" /\ cancel.victim = a
HungUpIsGivenUp == cleanup = "no" =>
  \A a \in engineEnds : tool[a] = "over" \/ GivenUp(a)
GivenUpIsUnmapped == cleanup = "no" =>
  \A a \in Agents : Leaving(a) \/ a \in engineEnds => a \notin mapped \/ "remapped" \in flawed

Order == EndedIsGone /\ AnsweredOnce /\ DialedIsOver /\ StoredWhileUp
Mapping == HungUpIsGivenUp /\ GivenUpIsUnmapped
IInv == TypeOK /\ Order /\ Mapping /\ OwnHangupIsHarmless
-----------------------------------------------------------------------------
(* The operators of the steps *)

LEMMA HangUpIs ==
  ASSUME TypeOK, NEW as \in SUBSET Agents, HangUp(as)
  PROVE  /\ leg' \in [Agents -> {"none", "ringing", "up", "gone"}]
         /\ ended' \in SUBSET Agents /\ bridged' \in SUBSET Agents /\ engineEnds' \in SUBSET Agents
         /\ \A a \in Agents : leg'[a] # leg[a] => leg'[a] = "gone" /\ a \in as /\ leg[a] \in {"ringing", "up"}
         /\ \A a \in as : leg[a] \in {"ringing", "up"} => leg'[a] = "gone"
         /\ ended \subseteq ended' /\ engineEnds \subseteq engineEnds'
         /\ \A a \in ended' : a \in ended \/ (a \in as /\ leg'[a] = "gone" /\ leg[a] \in {"ringing", "up"})
         /\ \A a \in engineEnds' : a \in engineEnds \/ (a \in as /\ leg'[a] = "gone" /\ leg[a] \in {"ringing", "up"})
         /\ started' = started /\ joined' = joined
<1> QED
  BY DEF HangUp, TypeOK


LEMMA ActionTypes ==
  /\ NoAction \in [on : BOOLEAN, agent : Agents \cup {None}, answered : BOOLEAN]
  /\ \A a \in Agents : [on |-> TRUE, agent |-> a, answered |-> TRUE]
                      \in [on : BOOLEAN, agent : Agents \cup {None}, answered : BOOLEAN]
BY DEF NoAction

LEMMA TypeParts == TypeOK <=> Switches /\ Channels /\ Tasks /\ FlawsNamed
<1> QED
  BY DEF TypeOK, Switches, Channels, Tasks, FlawsNamed


LEMMA SwitchesStep == TypeOK /\ [Next]_vars => Switches'
<1> SUFFICES ASSUME TypeOK, [Next]_vars PROVE Switches'
  OBVIOUS
<1> USE TransferAssumption DEF TypeOK, Switches
<1>1. ASSUME NEW a \in Agents, ToolStarts(a) \/ ToolHolds(a) \/ ToolRefused(a)
             \/ ToolUnholds(a) \/ Dials(a) \/ ToolDialed(a)
      PROVE  Switches'
  BY <1>1 DEF ToolStarts, ToolHolds, ToolRefused, ToolUnholds, Dials, ToolDialed,
     NoAction, GuardOf, GivenUp, Listed
<1>2. ASSUME NEW a \in Agents, Answers(a) \/ LegEnds(a) \/ Answered(a) \/ LegEnded(a)
             \/ EventLost(a)
      PROVE  Switches'
  BY <1>2 DEF Answers, LegEnds, Answered, LegEnded, EventLost, Cancelled, Listed,
     Unregister, Begin, Awaited
<1>3. ASSUME NEW a \in Agents, Rejects(a) \/ Announced(a) \/ Prompted(a) \/ TimedOut(a)
             \/ AbortHangsUp(a)
      PROVE  Switches'
  BY <1>3, HangUpIs DEF Rejects, Announced, Prompted, TimedOut, AbortHangsUp, Decide,
     Abort, LeavesMap, Unregister
<1>4. ASSUME NEW a \in Agents, AbortUnholds(a) \/ AbortEnds(a) \/ Connects(a)
             \/ Detaches(a) \/ Bridges(a)
      PROVE  Switches'
  BY <1>4 DEF AbortUnholds, AbortEnds, Connects, Detaches, Bridges, Finish, Resume,
     Unregister, NoAction, AiLeaves
<1>5. ASSUME NEW a \in Agents, GuardFires(a) \/ GuardHangsUp(a) \/ GuardUnholds(a)
      PROVE  Switches'
  BY <1>5, HangUpIs DEF GuardFires, GuardHangsUp, GuardUnholds, Unregister, Woken,
     Resume, NoAction
<1>6. CASE CancelStarts \/ CancelHangsUp \/ CancelUnholds
  BY <1>6, HangUpIs DEF CancelStarts, CancelHangsUp, CancelUnholds, Unregister, Woken,
     NoCancel, Resume, NoAction
<1>7. CASE CallerHangsUp \/ CallerEnded \/ CleanupCancels \/ CleanupLists
        \/ CleanupHangsUp \/ CleanupRemoves
  BY <1>7, HangUpIs DEF CallerHangsUp, CallerEnded, CleanupCancels, CleanupLists,
     CleanupHangsUp, CleanupRemoves, Begin, ActionLegs, Unregister, Woken
<1>8. ASSUME NEW a \in Agents, NEW d \in {"accept", "decline", "other"}, Pressed(a, d)
      PROVE  Switches'
  BY <1>8 DEF Pressed, Decide, Abort, LeavesMap, Unregister
<1>9. CASE UNCHANGED vars
  BY <1>9 DEF vars
<1> QED
  BY <1>1, <1>2, <1>3, <1>4, <1>5, <1>6, <1>7, <1>8, <1>9
     DEF Next, ToolStep, EventStep, HandlerStep, GuardStep, CancelStep, CleanupStep

LEMMA ChannelsStep == TypeOK /\ [Next]_vars => Channels'
<1> SUFFICES ASSUME TypeOK, [Next]_vars PROVE Channels'
  OBVIOUS
<1> USE TransferAssumption DEF TypeOK, Channels
<1>1. ASSUME NEW a \in Agents, ToolStarts(a) \/ ToolRefused(a) PROVE Channels'
  BY <1>1 DEF ToolStarts, ToolRefused
<1>2. ASSUME NEW a \in Agents, ToolHolds(a) PROVE Channels'
  BY <1>2 DEF ToolHolds
<1>3. ASSUME NEW a \in Agents, ToolUnholds(a) PROVE Channels'
  BY <1>3 DEF ToolUnholds, NoAction
<1>4. ASSUME NEW a \in Agents, Dials(a) \/ Answers(a) \/ LegEnds(a) PROVE Channels'
  BY <1>4 DEF Dials, Answers, LegEnds
<1>5. ASSUME NEW a \in Agents, ToolDialed(a) PROVE Channels'
  BY <1>5 DEF ToolDialed, GuardOf, GivenUp, Listed
<1>6. ASSUME NEW a \in Agents, Answered(a) PROVE Channels'
  <2>1. CASE stored /\ action.on
    <3>1. action' \in [on : BOOLEAN, agent : Agents \cup {None}, answered : BOOLEAN]
      <4>1. action' = [on |-> TRUE, agent |-> a, answered |-> TRUE]
        BY <1>6, <2>1 DEF Answered
      <4> QED
        BY <4>1, ActionTypes
    <3>2. mapped' \subseteq Agents /\ started' \subseteq Agents
      BY <1>6, <2>1 DEF Answered
    <3> QED
      BY <1>6, <2>1, <3>1, <3>2 DEF Answered
  <2>2. CASE ~(stored /\ action.on)
    BY <1>6, <2>2 DEF Answered, Unregister
  <2> QED
    BY <2>1, <2>2
<1>7. ASSUME NEW a \in Agents, LegEnded(a) PROVE Channels'
  BY <1>7 DEF LegEnded, Begin
<1>8. ASSUME NEW a \in Agents, EventLost(a) PROVE Channels'
  BY <1>8 DEF EventLost, Awaited
<1>9. ASSUME NEW a \in Agents, Rejects(a) \/ AbortHangsUp(a) PROVE Channels'
  BY <1>9, HangUpIs DEF Rejects, AbortHangsUp
<1>10. ASSUME NEW a \in Agents, GuardHangsUp(a) PROVE Channels'
  BY <1>10, HangUpIs DEF GuardHangsUp
<1>11. ASSUME NEW a \in Agents, Announced(a) PROVE Channels'
  BY <1>11 DEF Announced, Decide, Abort, LeavesMap, Unregister
<1>12. ASSUME NEW a \in Agents, Prompted(a) PROVE Channels'
  BY <1>12 DEF Prompted, Decide, Abort, LeavesMap, Unregister
<1>13. ASSUME NEW a \in Agents, TimedOut(a) PROVE Channels'
  BY <1>13 DEF TimedOut, Decide, Abort, LeavesMap, Unregister
<1>14. ASSUME NEW a \in Agents, AbortUnholds(a) PROVE Channels'
  <2>1. CASE a \in quiet
    <3>1. action' \in [on : BOOLEAN, agent : Agents \cup {None}, answered : BOOLEAN]
      BY <1>14, <2>1, ActionTypes DEF AbortUnholds, Finish, Resume
    <3>2. mapped' \subseteq Agents /\ digit' \in [Agents -> {"none", "accept", "decline", "other"}]
      BY <1>14, <2>1 DEF AbortUnholds, Finish, Unregister
    <3> QED
      BY <1>14, <2>1, <3>1, <3>2 DEF AbortUnholds
  <2>2. CASE a \notin quiet
    BY <1>14, <2>2 DEF AbortUnholds
  <2> QED
    BY <2>1, <2>2
<1>15. ASSUME NEW a \in Agents, AbortEnds(a) PROVE Channels'
  BY <1>15 DEF AbortEnds, Finish, Resume, Unregister, NoAction
<1>16. ASSUME NEW a \in Agents, Connects(a) PROVE Channels'
  BY <1>16 DEF Connects
<1>17. ASSUME NEW a \in Agents, Detaches(a) PROVE Channels'
  BY <1>17 DEF Detaches, AiLeaves
<1>18. ASSUME NEW a \in Agents, Bridges(a) PROVE Channels'
  BY <1>18 DEF Bridges
<1>19. ASSUME NEW a \in Agents, GuardFires(a) PROVE Channels'
  BY <1>19 DEF GuardFires, Unregister, Woken
<1>20. ASSUME NEW a \in Agents, GuardUnholds(a) PROVE Channels'
  BY <1>20 DEF GuardUnholds, Resume, NoAction
<1>21. CASE CancelStarts
  BY <1>21 DEF CancelStarts, Unregister, Woken
<1>22. CASE CancelHangsUp
  BY <1>22, HangUpIs DEF CancelHangsUp
<1>23. CASE CancelUnholds
  BY <1>23 DEF CancelUnholds, NoCancel, Resume, NoAction
<1>24. CASE CallerHangsUp
  BY <1>24 DEF CallerHangsUp
<1>25. CASE CallerEnded
  BY <1>25 DEF CallerEnded, Begin
<1>26. CASE CleanupCancels \/ CleanupLists
  BY <1>26 DEF CleanupCancels, CleanupLists, ActionLegs
<1>27. CASE CleanupHangsUp
  BY <1>27, HangUpIs DEF CleanupHangsUp
<1>28. CASE CleanupRemoves
  BY <1>28 DEF CleanupRemoves, Unregister, Woken
<1>29. ASSUME NEW a \in Agents, NEW d \in {"accept", "decline", "other"}, Pressed(a, d)
      PROVE  Channels'
  BY <1>29 DEF Pressed, Decide, Abort, LeavesMap, Unregister
<1>30. CASE UNCHANGED vars
  BY <1>30 DEF vars
<1> QED
  BY <1>1, <1>2, <1>3, <1>4, <1>5, <1>6, <1>7, <1>8, <1>9, <1>10, <1>11, <1>12, <1>13, <1>14, <1>15, <1>16, <1>17, <1>18, <1>19, <1>20, <1>21, <1>22, <1>23, <1>24, <1>25, <1>26, <1>27, <1>28, <1>29, <1>30
     DEF Next, ToolStep, EventStep, HandlerStep, GuardStep, CancelStep, CleanupStep

LEMMA TasksStep == TypeOK /\ [Next]_vars => Tasks'
<1> SUFFICES ASSUME TypeOK, [Next]_vars PROVE Tasks'
  OBVIOUS
<1> USE TransferAssumption DEF TypeOK, Tasks
<1>1. ASSUME NEW a \in Agents, ToolStarts(a) \/ ToolHolds(a) \/ ToolRefused(a)
             \/ ToolUnholds(a) \/ Dials(a) \/ ToolDialed(a)
      PROVE  Tasks'
  BY <1>1 DEF ToolStarts, ToolHolds, ToolRefused, ToolUnholds, Dials, ToolDialed,
     NoAction, GuardOf, GivenUp, Listed
<1>2. ASSUME NEW a \in Agents, Answers(a) \/ LegEnds(a) \/ Answered(a) \/ LegEnded(a)
             \/ EventLost(a)
      PROVE  Tasks'
  BY <1>2 DEF Answers, LegEnds, Answered, LegEnded, EventLost, Cancelled, Listed,
     Unregister, Begin, Awaited
<1>3. ASSUME NEW a \in Agents, Rejects(a) \/ Announced(a) \/ Prompted(a) \/ TimedOut(a)
             \/ AbortHangsUp(a)
      PROVE  Tasks'
  BY <1>3, HangUpIs DEF Rejects, Announced, Prompted, TimedOut, AbortHangsUp, Decide,
     Abort, LeavesMap, Unregister
<1>4. ASSUME NEW a \in Agents, AbortUnholds(a) \/ AbortEnds(a) \/ Connects(a)
             \/ Detaches(a) \/ Bridges(a)
      PROVE  Tasks'
  BY <1>4 DEF AbortUnholds, AbortEnds, Connects, Detaches, Bridges, Finish, Resume,
     Unregister, NoAction, AiLeaves
<1>5. ASSUME NEW a \in Agents, GuardFires(a) \/ GuardHangsUp(a) \/ GuardUnholds(a)
      PROVE  Tasks'
  BY <1>5, HangUpIs DEF GuardFires, GuardHangsUp, GuardUnholds, Unregister, Woken,
     Resume, NoAction
<1>6. CASE CancelStarts \/ CancelHangsUp \/ CancelUnholds
  BY <1>6, HangUpIs DEF CancelStarts, CancelHangsUp, CancelUnholds, Unregister, Woken,
     NoCancel, Resume, NoAction
<1>7. CASE CallerHangsUp \/ CallerEnded \/ CleanupCancels \/ CleanupLists
        \/ CleanupHangsUp \/ CleanupRemoves
  BY <1>7, HangUpIs DEF CallerHangsUp, CallerEnded, CleanupCancels, CleanupLists,
     CleanupHangsUp, CleanupRemoves, Begin, ActionLegs, Unregister, Woken
<1>8. ASSUME NEW a \in Agents, NEW d \in {"accept", "decline", "other"}, Pressed(a, d)
      PROVE  Tasks'
  BY <1>8 DEF Pressed, Decide, Abort, LeavesMap, Unregister
<1>9. CASE UNCHANGED vars
  BY <1>9 DEF vars
<1> QED
  BY <1>1, <1>2, <1>3, <1>4, <1>5, <1>6, <1>7, <1>8, <1>9
     DEF Next, ToolStep, EventStep, HandlerStep, GuardStep, CancelStep, CleanupStep

LEMMA FlawsStep == FlawsNamed /\ [Next]_vars => FlawsNamed'
<1> SUFFICES ASSUME FlawsNamed, [Next]_vars PROVE FlawsNamed'
  OBVIOUS
<1> USE TransferAssumption DEF FlawsNamed, Flaws
<1>1. ASSUME NEW a \in Agents, ToolStarts(a) \/ ToolHolds(a) \/ ToolRefused(a)
             \/ ToolUnholds(a) \/ Dials(a) \/ ToolDialed(a)
      PROVE  FlawsNamed'
  BY <1>1 DEF ToolStarts, ToolHolds, ToolRefused, ToolUnholds, Dials, ToolDialed,
     NoAction, GuardOf, GivenUp, Listed
<1>2. ASSUME NEW a \in Agents, Answers(a) \/ LegEnds(a) \/ Answered(a) \/ LegEnded(a)
             \/ EventLost(a)
      PROVE  FlawsNamed'
  BY <1>2 DEF Answers, LegEnds, Answered, LegEnded, EventLost, Cancelled, Listed,
     Unregister, Begin, Awaited
<1>3. ASSUME NEW a \in Agents, Rejects(a) \/ Announced(a) \/ Prompted(a) \/ TimedOut(a)
             \/ AbortHangsUp(a)
      PROVE  FlawsNamed'
  BY <1>3, HangUpIs DEF Rejects, Announced, Prompted, TimedOut, AbortHangsUp, Decide,
     Abort, LeavesMap, Unregister
<1>4. ASSUME NEW a \in Agents, AbortUnholds(a) \/ AbortEnds(a) \/ Connects(a)
             \/ Detaches(a) \/ Bridges(a)
      PROVE  FlawsNamed'
  BY <1>4 DEF AbortUnholds, AbortEnds, Connects, Detaches, Bridges, Finish, Resume,
     Unregister, NoAction, AiLeaves
<1>5. ASSUME NEW a \in Agents, GuardFires(a) \/ GuardHangsUp(a) \/ GuardUnholds(a)
      PROVE  FlawsNamed'
  BY <1>5, HangUpIs DEF GuardFires, GuardHangsUp, GuardUnholds, Unregister, Woken,
     Resume, NoAction
<1>6. CASE CancelStarts \/ CancelHangsUp \/ CancelUnholds
  BY <1>6, HangUpIs DEF CancelStarts, CancelHangsUp, CancelUnholds, Unregister, Woken,
     NoCancel, Resume, NoAction
<1>7. CASE CallerHangsUp \/ CallerEnded \/ CleanupCancels \/ CleanupLists
        \/ CleanupHangsUp \/ CleanupRemoves
  BY <1>7, HangUpIs DEF CallerHangsUp, CallerEnded, CleanupCancels, CleanupLists,
     CleanupHangsUp, CleanupRemoves, Begin, ActionLegs, Unregister, Woken
<1>8. ASSUME NEW a \in Agents, NEW d \in {"accept", "decline", "other"}, Pressed(a, d)
      PROVE  FlawsNamed'
  BY <1>8 DEF Pressed, Decide, Abort, LeavesMap, Unregister
<1>9. CASE UNCHANGED vars
  BY <1>9 DEF vars
<1> QED
  BY <1>1, <1>2, <1>3, <1>4, <1>5, <1>6, <1>7, <1>8, <1>9
     DEF Next, ToolStep, EventStep, HandlerStep, GuardStep, CancelStep, CleanupStep

LEMMA OrderStep == TypeOK /\ Order /\ [Next]_vars => Order'
<1> SUFFICES ASSUME TypeOK, Order, [Next]_vars PROVE Order'
  OBVIOUS
<1> USE TransferAssumption DEF TypeOK, Order, EndedIsGone, AnsweredOnce, DialedIsOver,
     StoredWhileUp
<1>1. ASSUME NEW a \in Agents, ToolStarts(a) \/ ToolRefused(a) PROVE Order'
  BY <1>1 DEF ToolStarts, ToolRefused
<1>2. ASSUME NEW a \in Agents, ToolHolds(a) PROVE Order'
  BY <1>2 DEF ToolHolds
<1>3. ASSUME NEW a \in Agents, ToolUnholds(a) PROVE Order'
  BY <1>3 DEF ToolUnholds, NoAction
<1>4. ASSUME NEW a \in Agents, Dials(a) \/ Answers(a) \/ LegEnds(a) PROVE Order'
  BY <1>4 DEF Dials, Answers, LegEnds
<1>5. ASSUME NEW a \in Agents, ToolDialed(a) PROVE Order'
  BY <1>5 DEF ToolDialed, GuardOf, GivenUp, Listed
<1>6. ASSUME NEW a \in Agents, Answered(a) PROVE Order'
  BY <1>6 DEF Answered, Cancelled, Listed, Unregister
<1>7. ASSUME NEW a \in Agents, LegEnded(a) PROVE Order'
  BY <1>7 DEF LegEnded, Begin
<1>8. ASSUME NEW a \in Agents, EventLost(a) PROVE Order'
  BY <1>8 DEF EventLost, Awaited
<1>9. ASSUME NEW a \in Agents, Rejects(a) \/ AbortHangsUp(a) PROVE Order'
  BY <1>9, HangUpIs DEF Rejects, AbortHangsUp
<1>10. ASSUME NEW a \in Agents, GuardHangsUp(a) PROVE Order'
  BY <1>10, HangUpIs DEF GuardHangsUp
<1>11. ASSUME NEW a \in Agents, Announced(a) PROVE Order'
  BY <1>11 DEF Announced, Decide, Abort, LeavesMap, Unregister
<1>12. ASSUME NEW a \in Agents, Prompted(a) PROVE Order'
  BY <1>12 DEF Prompted, Decide, Abort, LeavesMap, Unregister
<1>13. ASSUME NEW a \in Agents, TimedOut(a) PROVE Order'
  BY <1>13 DEF TimedOut, Decide, Abort, LeavesMap, Unregister
<1>14. ASSUME NEW a \in Agents, AbortUnholds(a) PROVE Order'
  BY <1>14 DEF AbortUnholds, Finish, Resume, Unregister, NoAction
<1>15. ASSUME NEW a \in Agents, AbortEnds(a) PROVE Order'
  BY <1>15 DEF AbortEnds, Finish, Resume, Unregister, NoAction
<1>16. ASSUME NEW a \in Agents, Connects(a) PROVE Order'
  BY <1>16 DEF Connects
<1>17. ASSUME NEW a \in Agents, Detaches(a) PROVE Order'
  BY <1>17 DEF Detaches, AiLeaves
<1>18. ASSUME NEW a \in Agents, Bridges(a) PROVE Order'
  BY <1>18 DEF Bridges
<1>19. ASSUME NEW a \in Agents, GuardFires(a) PROVE Order'
  BY <1>19 DEF GuardFires, Unregister, Woken
<1>20. ASSUME NEW a \in Agents, GuardUnholds(a) PROVE Order'
  BY <1>20 DEF GuardUnholds, Resume, NoAction
<1>21. CASE CancelStarts
  BY <1>21 DEF CancelStarts, Unregister, Woken
<1>22. CASE CancelHangsUp
  BY <1>22, HangUpIs DEF CancelHangsUp
<1>23. CASE CancelUnholds
  BY <1>23 DEF CancelUnholds, NoCancel, Resume, NoAction
<1>24. CASE CallerHangsUp
  BY <1>24 DEF CallerHangsUp
<1>25. CASE CallerEnded
  BY <1>25 DEF CallerEnded, Begin
<1>26. CASE CleanupCancels \/ CleanupLists
  BY <1>26 DEF CleanupCancels, CleanupLists, ActionLegs
<1>27. CASE CleanupHangsUp
  BY <1>27, HangUpIs DEF CleanupHangsUp
<1>28. CASE CleanupRemoves
  BY <1>28 DEF CleanupRemoves, Unregister, Woken
<1>29. ASSUME NEW a \in Agents, NEW d \in {"accept", "decline", "other"}, Pressed(a, d)
      PROVE  Order'
  BY <1>29 DEF Pressed, Decide, Abort, LeavesMap, Unregister
<1>30. CASE UNCHANGED vars
  BY <1>30 DEF vars
<1> QED
  BY <1>1, <1>2, <1>3, <1>4, <1>5, <1>6, <1>7, <1>8, <1>9, <1>10, <1>11, <1>12, <1>13, <1>14, <1>15, <1>16, <1>17, <1>18, <1>19, <1>20, <1>21, <1>22, <1>23, <1>24, <1>25, <1>26, <1>27, <1>28, <1>29, <1>30
     DEF Next, ToolStep, EventStep, HandlerStep, GuardStep, CancelStep, CleanupStep

LEMMA MappingStep == TypeOK /\ Order /\ Mapping /\ [Next]_vars => Mapping'
<1> SUFFICES ASSUME TypeOK, Order, Mapping, [Next]_vars PROVE Mapping'
  OBVIOUS
<1> USE TransferAssumption DEF TypeOK, Order, EndedIsGone, AnsweredOnce, DialedIsOver,
     StoredWhileUp,
            Mapping, HungUpIsGivenUp, GivenUpIsUnmapped, Leaving, GivenUp
<1>1. ASSUME NEW a \in Agents, ToolStarts(a) \/ ToolRefused(a) PROVE Mapping'
  BY <1>1 DEF ToolStarts, ToolRefused
<1>2. ASSUME NEW a \in Agents, ToolHolds(a) PROVE Mapping'
  BY <1>2 DEF ToolHolds
<1>3. ASSUME NEW a \in Agents, ToolUnholds(a) PROVE Mapping'
  BY <1>3 DEF ToolUnholds, NoAction
<1>4. ASSUME NEW a \in Agents, Dials(a) \/ Answers(a) \/ LegEnds(a) PROVE Mapping'
  BY <1>4 DEF Dials, Answers, LegEnds
<1>5. ASSUME NEW a \in Agents, ToolDialed(a) PROVE Mapping'
  BY <1>5 DEF ToolDialed, GuardOf, GivenUp, Listed
<1>6. ASSUME NEW a \in Agents, Answered(a) PROVE Mapping'
  BY <1>6 DEF Answered, Cancelled, Listed, Unregister
<1>7. ASSUME NEW a \in Agents, LegEnded(a) PROVE Mapping'
  BY <1>7 DEF LegEnded, Begin
<1>8. ASSUME NEW a \in Agents, EventLost(a) PROVE Mapping'
  BY <1>8 DEF EventLost, Awaited
<1>9. ASSUME NEW a \in Agents, Rejects(a) \/ AbortHangsUp(a) PROVE Mapping'
  BY <1>9, HangUpIs DEF Rejects, AbortHangsUp
<1>10. ASSUME NEW a \in Agents, GuardHangsUp(a) PROVE Mapping'
  BY <1>10, HangUpIs DEF GuardHangsUp
<1>11. ASSUME NEW a \in Agents, Announced(a) PROVE Mapping'
  BY <1>11 DEF Announced, Decide, Abort, LeavesMap, Unregister
<1>12. ASSUME NEW a \in Agents, Prompted(a) PROVE Mapping'
  BY <1>12 DEF Prompted, Decide, Abort, LeavesMap, Unregister
<1>13. ASSUME NEW a \in Agents, TimedOut(a) PROVE Mapping'
  BY <1>13 DEF TimedOut, Decide, Abort, LeavesMap, Unregister
<1>14. ASSUME NEW a \in Agents, AbortUnholds(a) PROVE Mapping'
  BY <1>14 DEF AbortUnholds, Finish, Resume, Unregister, NoAction
<1>15. ASSUME NEW a \in Agents, AbortEnds(a) PROVE Mapping'
  BY <1>15 DEF AbortEnds, Finish, Resume, Unregister, NoAction
<1>16. ASSUME NEW a \in Agents, Connects(a) PROVE Mapping'
  BY <1>16 DEF Connects
<1>17. ASSUME NEW a \in Agents, Detaches(a) PROVE Mapping'
  BY <1>17 DEF Detaches, AiLeaves
<1>18. ASSUME NEW a \in Agents, Bridges(a) PROVE Mapping'
  BY <1>18 DEF Bridges
<1>19. ASSUME NEW a \in Agents, GuardFires(a) PROVE Mapping'
  BY <1>19 DEF GuardFires, Unregister, Woken
<1>20. ASSUME NEW a \in Agents, GuardUnholds(a) PROVE Mapping'
  BY <1>20 DEF GuardUnholds, Resume, NoAction
<1>21. CASE CancelStarts
  BY <1>21 DEF CancelStarts, Unregister, Woken
<1>22. CASE CancelHangsUp
  BY <1>22, HangUpIs DEF CancelHangsUp
<1>23. CASE CancelUnholds
  BY <1>23 DEF CancelUnholds, NoCancel, Resume, NoAction
<1>24. CASE CallerHangsUp
  BY <1>24 DEF CallerHangsUp
<1>25. CASE CallerEnded
  BY <1>25 DEF CallerEnded, Begin
<1>26. CASE CleanupCancels \/ CleanupLists
  BY <1>26 DEF CleanupCancels, CleanupLists, ActionLegs
<1>27. CASE CleanupHangsUp
  BY <1>27, HangUpIs DEF CleanupHangsUp
<1>28. CASE CleanupRemoves
  BY <1>28 DEF CleanupRemoves, Unregister, Woken
<1>29. ASSUME NEW a \in Agents, NEW d \in {"accept", "decline", "other"}, Pressed(a, d)
      PROVE  Mapping'
  BY <1>29 DEF Pressed, Decide, Abort, LeavesMap, Unregister
<1>30. CASE UNCHANGED vars
  BY <1>30 DEF vars
<1> QED
  BY <1>1, <1>2, <1>3, <1>4, <1>5, <1>6, <1>7, <1>8, <1>9, <1>10, <1>11, <1>12, <1>13, <1>14, <1>15, <1>16, <1>17, <1>18, <1>19, <1>20, <1>21, <1>22, <1>23, <1>24, <1>25, <1>26, <1>27, <1>28, <1>29, <1>30
     DEF Next, ToolStep, EventStep, HandlerStep, GuardStep, CancelStep, CleanupStep

LEMMA HarmlessStep == IInv /\ [Next]_vars => OwnHangupIsHarmless'
<1> SUFFICES ASSUME IInv, [Next]_vars PROVE OwnHangupIsHarmless'
  OBVIOUS
<1> USE TransferAssumption DEF TypeOK, IInv, Order, EndedIsGone,
            Mapping, GivenUpIsUnmapped, OwnHangupIsHarmless
<1>1. ASSUME NEW a \in Agents, ToolStarts(a) \/ ToolHolds(a) \/ ToolRefused(a)
             \/ ToolUnholds(a) \/ Dials(a) \/ ToolDialed(a)
      PROVE  OwnHangupIsHarmless'
  BY <1>1 DEF ToolStarts, ToolHolds, ToolRefused, ToolUnholds, Dials, ToolDialed,
     NoAction, GuardOf, GivenUp, Listed
<1>2. ASSUME NEW a \in Agents, Answers(a) \/ LegEnds(a) \/ Answered(a) \/ LegEnded(a)
             \/ EventLost(a)
      PROVE  OwnHangupIsHarmless'
  BY <1>2 DEF Answers, LegEnds, Answered, LegEnded, EventLost, Cancelled, Listed,
     Unregister, Begin, Awaited
<1>3. ASSUME NEW a \in Agents, Rejects(a) \/ Announced(a) \/ Prompted(a) \/ TimedOut(a)
             \/ AbortHangsUp(a)
      PROVE  OwnHangupIsHarmless'
  BY <1>3, HangUpIs DEF Rejects, Announced, Prompted, TimedOut, AbortHangsUp, Decide,
     Abort, LeavesMap, Unregister
<1>4. ASSUME NEW a \in Agents, AbortUnholds(a) \/ AbortEnds(a) \/ Connects(a)
             \/ Detaches(a) \/ Bridges(a)
      PROVE  OwnHangupIsHarmless'
  BY <1>4 DEF AbortUnholds, AbortEnds, Connects, Detaches, Bridges, Finish, Resume,
     Unregister, NoAction, AiLeaves
<1>5. ASSUME NEW a \in Agents, GuardFires(a) \/ GuardHangsUp(a) \/ GuardUnholds(a)
      PROVE  OwnHangupIsHarmless'
  BY <1>5, HangUpIs DEF GuardFires, GuardHangsUp, GuardUnholds, Unregister, Woken,
     Resume, NoAction
<1>6. CASE CancelStarts \/ CancelHangsUp \/ CancelUnholds
  BY <1>6, HangUpIs DEF CancelStarts, CancelHangsUp, CancelUnholds, Unregister, Woken,
     NoCancel, Resume, NoAction
<1>7. CASE CallerHangsUp \/ CallerEnded \/ CleanupCancels \/ CleanupLists
        \/ CleanupHangsUp \/ CleanupRemoves
  BY <1>7, HangUpIs DEF CallerHangsUp, CallerEnded, CleanupCancels, CleanupLists,
     CleanupHangsUp, CleanupRemoves, Begin, ActionLegs, Unregister, Woken
<1>8. ASSUME NEW a \in Agents, NEW d \in {"accept", "decline", "other"}, Pressed(a, d)
      PROVE  OwnHangupIsHarmless'
  BY <1>8 DEF Pressed, Decide, Abort, LeavesMap, Unregister
<1>9. CASE UNCHANGED vars
  BY <1>9 DEF vars
<1> QED
  BY <1>1, <1>2, <1>3, <1>4, <1>5, <1>6, <1>7, <1>8, <1>9
     DEF Next, ToolStep, EventStep, HandlerStep, GuardStep, CancelStep, CleanupStep
-----------------------------------------------------------------------------
LEMMA InitHolds == Init => IInv
<1> SUFFICES ASSUME Init PROVE IInv
  OBVIOUS
<1> USE TransferAssumption DEF Init
<1>1. Switches
  BY DEF Switches
<1>2. Channels
  BY DEF Channels, NoAction
<1>3. Tasks /\ FlawsNamed
  BY DEF Tasks, FlawsNamed, NoCancel
<1>4. Order
  BY DEF Order, EndedIsGone, AnsweredOnce, DialedIsOver, StoredWhileUp, NoAction, NoCancel
<1>5. Mapping /\ OwnHangupIsHarmless
  BY DEF Mapping, HungUpIsGivenUp, GivenUpIsUnmapped, Leaving, OwnHangupIsHarmless, NoCancel
<1> QED
  BY <1>1, <1>2, <1>3, <1>4, <1>5, TypeParts DEF IInv

LEMMA Invariance == Spec => []IInv
<1>1. IInv /\ [Next]_vars => IInv'
  BY SwitchesStep, ChannelsStep, TasksStep, FlawsStep, TypeParts, OrderStep, MappingStep,
     HarmlessStep DEF IInv, TypeOK, Switches, Channels, Tasks, FlawsNamed
<1> QED
  BY <1>1, InitHolds, PTL DEF Spec

(* The state has its types; the leg a cancellation hangs up is an agent's. *)
THEOREM TypeCorrect == Spec => []TypeOK
<1>1. IInv => TypeOK
  BY DEF IInv
<1> QED
  BY <1>1, Invariance, PTL

(* The engine unregisters a leg before it hangs it up (engine.py, lines 3482-3484 and
   3940-3941): of any number of legs, none it hung up ends the call of its caller, but
   by an agent who answers while he is being given up.                       *)
THEOREM OwnHangup == Spec => []OwnHangupIsHarmless
<1>1. IInv => OwnHangupIsHarmless
  BY DEF IInv
<1> QED
  BY <1>1, Invariance, PTL
-----------------------------------------------------------------------------
(* The agent who is joined to the caller *)

(* A transfer to b is under way somewhere: a task, a leg or an event of it. *)
Engaged(b) ==
  \/ tool[b] \in {"hold", "dial", "unhold"} \/ handler[b] \notin {"none", "over"}
  \/ leg[b] \in {"ringing", "up"} \/ b \in started \/ guard[b] \in {"hangup", "unhold"}

(* The cleanup has not begun, and neither flaw the property excepts has happened. *)
Clear == cleanup = "no" /\ flawed \cap {"remapped", "overlap"} = {}

(* A leg exists once the tool dials it, and is bridged when its handler is done. *)
LegKnown == \A a \in Agents :
  /\ tool[a] \in {"idle", "hold", "unhold"} => leg[a] = "none"
  /\ a \in bridged => handler[a] = "over" /\ leg[a] = "up"

(* Transfers do not overlap: one agent is engaged, and the action and the cancellation
   are about him; a tool that has yet to hold the caller finds neither of them.   *)
OneAtATime == Clear =>
  /\ \A b, c \in Agents : Engaged(b) /\ Engaged(c) => b = c
  /\ \A b \in Agents : Engaged(b) /\ action.on => action.agent \in {b, None}
  /\ \A b \in Agents : Engaged(b) /\ cancel.at # "idle" => cancel.victim \in {b, None}
  /\ action.on /\ cancel.at # "idle" => cancel.victim \in {action.agent, None}
  /\ \A b \in Agents : tool[b] = "hold" => ~action.on /\ cancel.at = "idle"

(* The handler has the agent on the line and has not given him up. *)
Talking(a) == handler[a] \in {"announce", "prompt", "wait", "connect", "detach", "bridge"}

(* The strengthening: whoever is on the line is the one the action names, is mapped, and
   no one is about to hang him up; the music stops before, and the AI leaves as, he is
   bridged.                                                                  *)
Supervised == Clear => \A a \in Agents :
  /\ Talking(a) \/ a \in bridged =>
       /\ a \in mapped /\ action = [on |-> TRUE, agent |-> a, answered |-> TRUE]
       /\ cancel.at = "idle" /\ guard[a] \notin {"hangup", "unhold"}
  /\ handler[a] \in {"detach", "bridge"} \/ a \in bridged => ~hold
  /\ handler[a] = "bridge" \/ a \in bridged => ~ai

\* A leg that is hung up leaves the bridge.
LEMMA HangUpUnbridges ==
  ASSUME TypeOK, NEW as \in SUBSET Agents, HangUp(as)
  PROVE  \A a \in bridged' : a \in bridged /\ leg'[a] = leg[a]
BY DEF HangUp, TypeOK

LEMMA LegKnownStep == IInv /\ LegKnown /\ [Next]_vars => LegKnown'
<1> SUFFICES ASSUME IInv, LegKnown, [Next]_vars PROVE LegKnown'
  OBVIOUS
<1> USE TransferAssumption DEF TypeOK, IInv, Order, EndedIsGone, AnsweredOnce, DialedIsOver, StoredWhileUp, LegKnown
<1>1. ASSUME NEW a \in Agents, ToolStarts(a) \/ ToolRefused(a) PROVE LegKnown'
  BY <1>1 DEF ToolStarts, ToolRefused, Busy
<1>2. ASSUME NEW a \in Agents, ToolHolds(a) PROVE LegKnown'
  BY <1>2 DEF ToolHolds
<1>3. ASSUME NEW a \in Agents, ToolUnholds(a) PROVE LegKnown'
  BY <1>3 DEF ToolUnholds, NoAction
<1>4. ASSUME NEW a \in Agents, Dials(a) PROVE LegKnown'
  BY <1>4 DEF Dials
<1>5. ASSUME NEW a \in Agents, Answers(a) \/ LegEnds(a) PROVE LegKnown'
  BY <1>5 DEF Answers, LegEnds
<1>6. ASSUME NEW a \in Agents, ToolDialed(a) PROVE LegKnown'
  BY <1>6 DEF ToolDialed, GuardOf, GivenUp, Listed
<1>7. ASSUME NEW a \in Agents, Answered(a) PROVE LegKnown'
  BY <1>7 DEF Answered, Cancelled, Listed, Unregister
<1>8. ASSUME NEW a \in Agents, LegEnded(a) PROVE LegKnown'
  BY <1>8 DEF LegEnded, Begin
<1>9. ASSUME NEW a \in Agents, EventLost(a) PROVE LegKnown'
  BY <1>9 DEF EventLost, Awaited
<1>10. ASSUME NEW a \in Agents, Rejects(a) \/ AbortHangsUp(a) PROVE LegKnown'
  BY <1>10, HangUpIs, HangUpUnbridges DEF Rejects, AbortHangsUp
<1>11. ASSUME NEW a \in Agents, GuardHangsUp(a) PROVE LegKnown'
  BY <1>11, HangUpIs, HangUpUnbridges DEF GuardHangsUp
<1>12. ASSUME NEW a \in Agents, Announced(a) PROVE LegKnown'
  BY <1>12 DEF Announced, Decide, Abort, LeavesMap, Unregister
<1>13. ASSUME NEW a \in Agents, Prompted(a) PROVE LegKnown'
  BY <1>13 DEF Prompted, Decide, Abort, LeavesMap, Unregister
<1>14. ASSUME NEW a \in Agents, TimedOut(a) PROVE LegKnown'
  BY <1>14 DEF TimedOut, Decide, Abort, LeavesMap, Unregister
<1>15. ASSUME NEW a \in Agents, AbortUnholds(a) PROVE LegKnown'
  BY <1>15 DEF AbortUnholds, Finish, Resume, Unregister, NoAction
<1>16. ASSUME NEW a \in Agents, AbortEnds(a) PROVE LegKnown'
  BY <1>16 DEF AbortEnds, Finish, Resume, Unregister, NoAction
<1>17. ASSUME NEW a \in Agents, Connects(a) PROVE LegKnown'
  BY <1>17 DEF Connects
<1>18. ASSUME NEW a \in Agents, Detaches(a) PROVE LegKnown'
  BY <1>18 DEF Detaches, AiLeaves
<1>19. ASSUME NEW a \in Agents, Bridges(a) PROVE LegKnown'
  BY <1>19 DEF Bridges
<1>20. ASSUME NEW a \in Agents, GuardFires(a) PROVE LegKnown'
  BY <1>20 DEF GuardFires, Unregister, Woken
<1>21. ASSUME NEW a \in Agents, GuardUnholds(a) PROVE LegKnown'
  BY <1>21 DEF GuardUnholds, Resume, NoAction
<1>22. CASE CancelStarts
  BY <1>22 DEF CancelStarts, Unregister, Woken
<1>23. CASE CancelHangsUp
  BY <1>23, HangUpIs, HangUpUnbridges DEF CancelHangsUp
<1>24. CASE CancelUnholds
  BY <1>24 DEF CancelUnholds, NoCancel, Resume, NoAction
<1>25. CASE CallerHangsUp
  BY <1>25 DEF CallerHangsUp
<1>26. CASE CallerEnded
  BY <1>26 DEF CallerEnded, Begin
<1>27. CASE CleanupCancels \/ CleanupLists
  BY <1>27 DEF CleanupCancels, CleanupLists, ActionLegs
<1>28. CASE CleanupHangsUp
  BY <1>28, HangUpIs, HangUpUnbridges DEF CleanupHangsUp
<1>29. CASE CleanupRemoves
  BY <1>29 DEF CleanupRemoves, Unregister, Woken
<1>30. ASSUME NEW a \in Agents, NEW d \in {"accept", "decline", "other"}, Pressed(a, d)
      PROVE  LegKnown'
  BY <1>30 DEF Pressed, Decide, Abort, LeavesMap, Unregister
<1>31. CASE UNCHANGED vars
  BY <1>31 DEF vars
<1> HIDE DEF TypeOK, IInv, Order, EndedIsGone, AnsweredOnce, DialedIsOver, StoredWhileUp, LegKnown
<1> QED
  BY <1>1, <1>2, <1>3, <1>4, <1>5, <1>6, <1>7, <1>8, <1>9, <1>10, <1>11, <1>12, <1>13, <1>14, <1>15, <1>16, <1>17, <1>18, <1>19, <1>20, <1>21, <1>22, <1>23, <1>24, <1>25, <1>26, <1>27, <1>28, <1>29, <1>30, <1>31
     DEF Next, ToolStep, EventStep, HandlerStep, GuardStep, CancelStep, CleanupStep

LEMMA OneAtATimeStep == IInv /\ LegKnown /\ OneAtATime /\ [Next]_vars => OneAtATime'
<1> SUFFICES ASSUME IInv, LegKnown, OneAtATime, [Next]_vars PROVE OneAtATime'
  OBVIOUS
<1> USE TransferAssumption DEF TypeOK, IInv, Order, EndedIsGone, AnsweredOnce, DialedIsOver, StoredWhileUp, LegKnown, OneAtATime, Engaged, Clear, Flaws
<1>1. ASSUME NEW a \in Agents, ToolStarts(a) \/ ToolRefused(a) PROVE OneAtATime'
  BY <1>1 DEF ToolStarts, ToolRefused, Busy
<1>2. ASSUME NEW a \in Agents, ToolHolds(a) PROVE OneAtATime'
  BY <1>2 DEF ToolHolds
<1>3. ASSUME NEW a \in Agents, ToolUnholds(a) PROVE OneAtATime'
  BY <1>3 DEF ToolUnholds, NoAction
<1>4. ASSUME NEW a \in Agents, Dials(a) PROVE OneAtATime'
  BY <1>4 DEF Dials
<1>5. ASSUME NEW a \in Agents, Answers(a) \/ LegEnds(a) PROVE OneAtATime'
  BY <1>5 DEF Answers, LegEnds
<1>6. ASSUME NEW a \in Agents, ToolDialed(a) PROVE OneAtATime'
  BY <1>6 DEF ToolDialed, GuardOf, GivenUp, Listed
<1>7. ASSUME NEW a \in Agents, Answered(a) PROVE OneAtATime'
  BY <1>7 DEF Answered, Cancelled, Listed, Unregister
<1>8. ASSUME NEW a \in Agents, LegEnded(a) PROVE OneAtATime'
  BY <1>8 DEF LegEnded, Begin
<1>9. ASSUME NEW a \in Agents, EventLost(a) PROVE OneAtATime'
  BY <1>9 DEF EventLost, Awaited
<1>10. ASSUME NEW a \in Agents, Rejects(a) \/ AbortHangsUp(a) PROVE OneAtATime'
  BY <1>10, HangUpIs, HangUpUnbridges DEF Rejects, AbortHangsUp
<1>11. ASSUME NEW a \in Agents, GuardHangsUp(a) PROVE OneAtATime'
  BY <1>11, HangUpIs, HangUpUnbridges DEF GuardHangsUp
<1>12. ASSUME NEW a \in Agents, Announced(a) PROVE OneAtATime'
  BY <1>12 DEF Announced, Decide, Abort, LeavesMap, Unregister
<1>13. ASSUME NEW a \in Agents, Prompted(a) PROVE OneAtATime'
  BY <1>13 DEF Prompted, Decide, Abort, LeavesMap, Unregister
<1>14. ASSUME NEW a \in Agents, TimedOut(a) PROVE OneAtATime'
  BY <1>14 DEF TimedOut, Decide, Abort, LeavesMap, Unregister
<1>15. ASSUME NEW a \in Agents, AbortUnholds(a) PROVE OneAtATime'
  BY <1>15 DEF AbortUnholds, Finish, Resume, Unregister, NoAction
<1>16. ASSUME NEW a \in Agents, AbortEnds(a) PROVE OneAtATime'
  BY <1>16 DEF AbortEnds, Finish, Resume, Unregister, NoAction
<1>17. ASSUME NEW a \in Agents, Connects(a) PROVE OneAtATime'
  BY <1>17 DEF Connects
<1>18. ASSUME NEW a \in Agents, Detaches(a) PROVE OneAtATime'
  BY <1>18 DEF Detaches, AiLeaves
<1>19. ASSUME NEW a \in Agents, Bridges(a) PROVE OneAtATime'
  BY <1>19 DEF Bridges
<1>20. ASSUME NEW a \in Agents, GuardFires(a) PROVE OneAtATime'
  BY <1>20 DEF GuardFires, Unregister, Woken
<1>21. ASSUME NEW a \in Agents, GuardUnholds(a) PROVE OneAtATime'
  BY <1>21 DEF GuardUnholds, Resume, NoAction
<1>22. CASE CancelStarts
  BY <1>22 DEF CancelStarts, Unregister, Woken
<1>23. CASE CancelHangsUp
  BY <1>23, HangUpIs, HangUpUnbridges DEF CancelHangsUp
<1>24. CASE CancelUnholds
  BY <1>24 DEF CancelUnholds, NoCancel, Resume, NoAction
<1>25. CASE CallerHangsUp
  BY <1>25 DEF CallerHangsUp
<1>26. CASE CallerEnded
  BY <1>26 DEF CallerEnded, Begin
<1>27. CASE CleanupCancels \/ CleanupLists
  BY <1>27 DEF CleanupCancels, CleanupLists, ActionLegs
<1>28. CASE CleanupHangsUp
  BY <1>28, HangUpIs, HangUpUnbridges DEF CleanupHangsUp
<1>29. CASE CleanupRemoves
  BY <1>29 DEF CleanupRemoves, Unregister, Woken
<1>30. ASSUME NEW a \in Agents, NEW d \in {"accept", "decline", "other"}, Pressed(a, d)
      PROVE  OneAtATime'
  BY <1>30 DEF Pressed, Decide, Abort, LeavesMap, Unregister
<1>31. CASE UNCHANGED vars
  BY <1>31 DEF vars
<1> HIDE DEF TypeOK, IInv, Order, EndedIsGone, AnsweredOnce, DialedIsOver, StoredWhileUp, LegKnown, OneAtATime, Engaged, Clear, Flaws
<1> QED
  BY <1>1, <1>2, <1>3, <1>4, <1>5, <1>6, <1>7, <1>8, <1>9, <1>10, <1>11, <1>12, <1>13, <1>14, <1>15, <1>16, <1>17, <1>18, <1>19, <1>20, <1>21, <1>22, <1>23, <1>24, <1>25, <1>26, <1>27, <1>28, <1>29, <1>30, <1>31
     DEF Next, ToolStep, EventStep, HandlerStep, GuardStep, CancelStep, CleanupStep

LEMMA SupervisedStep == IInv /\ LegKnown /\ OneAtATime /\ Supervised /\ [Next]_vars => Supervised'
<1> SUFFICES ASSUME IInv, LegKnown, OneAtATime, Supervised, [Next]_vars PROVE Supervised'
  OBVIOUS
<1> USE TransferAssumption DEF TypeOK, IInv, Order, EndedIsGone, AnsweredOnce, DialedIsOver, StoredWhileUp, LegKnown, OneAtATime, Engaged, Clear, Flaws, Talking, Supervised
<1>1. ASSUME NEW a \in Agents, ToolStarts(a) \/ ToolRefused(a) PROVE Supervised'
  BY <1>1 DEF ToolStarts, ToolRefused, Busy
<1>2. ASSUME NEW a \in Agents, ToolHolds(a) PROVE Supervised'
  BY <1>2 DEF ToolHolds
<1>3. ASSUME NEW a \in Agents, ToolUnholds(a) PROVE Supervised'
  BY <1>3 DEF ToolUnholds, NoAction
<1>4. ASSUME NEW a \in Agents, Dials(a) PROVE Supervised'
  BY <1>4 DEF Dials
<1>5. ASSUME NEW a \in Agents, Answers(a) \/ LegEnds(a) PROVE Supervised'
  BY <1>5 DEF Answers, LegEnds
<1>6. ASSUME NEW a \in Agents, ToolDialed(a) PROVE Supervised'
  BY <1>6 DEF ToolDialed, GuardOf, GivenUp, Listed
<1>7. ASSUME NEW a \in Agents, Answered(a) PROVE Supervised'
  BY <1>7 DEF Answered, Cancelled, Listed, Unregister
<1>8. ASSUME NEW a \in Agents, LegEnded(a) PROVE Supervised'
  BY <1>8 DEF LegEnded, Begin
<1>9. ASSUME NEW a \in Agents, EventLost(a) PROVE Supervised'
  BY <1>9 DEF EventLost, Awaited
<1>10. ASSUME NEW a \in Agents, Rejects(a) \/ AbortHangsUp(a) PROVE Supervised'
  BY <1>10, HangUpIs, HangUpUnbridges DEF Rejects, AbortHangsUp
<1>11. ASSUME NEW a \in Agents, GuardHangsUp(a) PROVE Supervised'
  BY <1>11, HangUpIs, HangUpUnbridges DEF GuardHangsUp
<1>12. ASSUME NEW a \in Agents, Announced(a) PROVE Supervised'
  BY <1>12 DEF Announced, Decide, Abort, LeavesMap, Unregister
<1>13. ASSUME NEW a \in Agents, Prompted(a) PROVE Supervised'
  BY <1>13 DEF Prompted, Decide, Abort, LeavesMap, Unregister
<1>14. ASSUME NEW a \in Agents, TimedOut(a) PROVE Supervised'
  BY <1>14 DEF TimedOut, Decide, Abort, LeavesMap, Unregister
<1>15. ASSUME NEW a \in Agents, AbortUnholds(a) PROVE Supervised'
  BY <1>15 DEF AbortUnholds, Finish, Resume, Unregister, NoAction
<1>16. ASSUME NEW a \in Agents, AbortEnds(a) PROVE Supervised'
  BY <1>16 DEF AbortEnds, Finish, Resume, Unregister, NoAction
<1>17. ASSUME NEW a \in Agents, Connects(a) PROVE Supervised'
  BY <1>17 DEF Connects
<1>18. ASSUME NEW a \in Agents, Detaches(a) PROVE Supervised'
  BY <1>18 DEF Detaches, AiLeaves
<1>19. ASSUME NEW a \in Agents, Bridges(a) PROVE Supervised'
  <2>1. /\ handler[a] = "bridge" /\ handler' = [handler EXCEPT ![a] = "over"]
        /\ UNCHANGED <<routing, line, guard, cancel, cleanup>> /\ flawed \subseteq flawed'
        /\ bridged' \in {bridged, bridged \cup {a}}
        /\ action' = IF action.on THEN [on |-> TRUE, agent |-> a, answered |-> TRUE] ELSE action
    BY <1>19 DEF Bridges
  <2>2. Clear' => Clear
    BY <2>1
  <2>3. ASSUME Clear, NEW b \in Agents, Talking(b)' \/ b \in bridged' PROVE b = a
    BY <2>1, <2>3
  <2>4. ASSUME Clear
        PROVE  /\ a \in mapped /\ cancel.at = "idle" /\ guard[a] \notin {"hangup", "unhold"}
               /\ ~hold /\ ~ai /\ action' = [on |-> TRUE, agent |-> a, answered |-> TRUE]
    BY <2>1, <2>4
  <2> QED
    BY ZenonT(60), <2>1, <2>2, <2>3, <2>4
<1>20. ASSUME NEW a \in Agents, GuardFires(a) PROVE Supervised'
  BY <1>20 DEF GuardFires, Unregister, Woken
<1>21. ASSUME NEW a \in Agents, GuardUnholds(a) PROVE Supervised'
  BY <1>21 DEF GuardUnholds, Resume, NoAction
<1>22. CASE CancelStarts
  BY <1>22 DEF CancelStarts, Unregister, Woken
<1>23. CASE CancelHangsUp
  BY <1>23, HangUpIs, HangUpUnbridges DEF CancelHangsUp
<1>24. CASE CancelUnholds
  BY <1>24 DEF CancelUnholds, NoCancel, Resume, NoAction
<1>25. CASE CallerHangsUp
  BY <1>25 DEF CallerHangsUp
<1>26. CASE CallerEnded
  BY <1>26 DEF CallerEnded, Begin
<1>27. CASE CleanupCancels \/ CleanupLists
  BY <1>27 DEF CleanupCancels, CleanupLists, ActionLegs
<1>28. CASE CleanupHangsUp
  BY <1>28, HangUpIs, HangUpUnbridges DEF CleanupHangsUp
<1>29. CASE CleanupRemoves
  BY <1>29 DEF CleanupRemoves, Unregister, Woken
<1>30. ASSUME NEW a \in Agents, NEW d \in {"accept", "decline", "other"}, Pressed(a, d)
      PROVE  Supervised'
  BY <1>30 DEF Pressed, Decide, Abort, LeavesMap, Unregister
<1>31. CASE UNCHANGED vars
  BY <1>31 DEF vars
<1> HIDE DEF TypeOK, IInv, Order, EndedIsGone, AnsweredOnce, DialedIsOver, StoredWhileUp, LegKnown, OneAtATime, Engaged, Clear, Flaws, Talking, Supervised
<1> QED
  BY <1>1, <1>2, <1>3, <1>4, <1>5, <1>6, <1>7, <1>8, <1>9, <1>10, <1>11, <1>12, <1>13, <1>14, <1>15, <1>16, <1>17, <1>18, <1>19, <1>20, <1>21, <1>22, <1>23, <1>24, <1>25, <1>26, <1>27, <1>28, <1>29, <1>30, <1>31
     DEF Next, ToolStep, EventStep, HandlerStep, GuardStep, CancelStep, CleanupStep


(* An agent joined to the caller is the one current_action names and stays mapped to the
   call, with the AI gone and the music off, whatever the guard, a late cancellation, a key
   or a lost event do, as long as transfers do not overlap and no leg that was given up is
   mapped again (engine.py, lines 3997-4066 and 4517-4523).                  *)
THEOREM ConnectedSupervised == Spec => []ConnectedIsSupervised
<1>1. Init => LegKnown /\ OneAtATime /\ Supervised
  <2> SUFFICES ASSUME Init PROVE LegKnown /\ OneAtATime /\ Supervised
    OBVIOUS
  <2>1. bridged = {} /\ started = {} /\ action.on = FALSE
    BY DEF Init, NoAction
  <2>2. /\ tool = [a \in Agents |-> "idle"] /\ handler = [a \in Agents |-> "none"]
        /\ leg = [a \in Agents |-> "none"] /\ guard = [a \in Agents |-> "none"]
    BY DEF Init
  <2>3. \A a \in Agents : ~Engaged(a) /\ ~Talking(a)
    BY <2>1, <2>2 DEF Engaged, Talking
  <2>4. LegKnown
    BY <2>1, <2>2 DEF LegKnown
  <2>5. OneAtATime
    BY <2>1, <2>2, <2>3 DEF OneAtATime
  <2>6. Supervised
    BY <2>1, <2>2, <2>3 DEF Supervised, Talking
  <2> QED
    BY <2>4, <2>5, <2>6
<1>2. IInv /\ LegKnown /\ OneAtATime /\ Supervised /\ [Next]_vars
        => LegKnown' /\ OneAtATime' /\ Supervised'
  BY LegKnownStep, OneAtATimeStep, SupervisedStep
<1>3. IInv /\ LegKnown /\ Supervised => ConnectedIsSupervised
  <2> SUFFICES ASSUME IInv, Supervised, NEW a \in bridged, Clear
               PROVE  a \in mapped /\ action.agent = a /\ ~ai /\ ~hold
    BY DEF ConnectedIsSupervised, Clear
  <2>1. a \in Agents
    BY DEF IInv, TypeOK
  <2> QED
    BY <2>1 DEF Supervised
<1> QED
  BY <1>1, <1>2, <1>3, Invariance, PTL DEF Spec
=============================================================================
