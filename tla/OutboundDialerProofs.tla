------------------------ MODULE OutboundDialerProofs ------------------------
(***************************************************************************)
(* Theorems about OutboundDialer, for every number of leads, attempts and  *)
(* concurrent calls, every verdict and operator action, and any number of  *)
(* crashes and faults.                                                     *)
(***************************************************************************)
EXTENDS OutboundDialer, TLAPS, FiniteSetTheorems

\* Tuples of variables and frame conditions are expanded everywhere.
USE DEF storeVars, leadVars, rowVars, schedVars, mapVars, sessVars, evVars,
        envVars, Faultless, FaultOnly, SchedOnly, HandlerOnly, ChanOnly, OpFrame
-----------------------------------------------------------------------------
(* Type correctness *)

\* A lost request is counted against MaxMishaps; no other step counts one.
LEMMA FaultCount ==
  ASSUME TypeOK, UNCHANGED nFaults \/ RequestLost
  PROVE  nFaults' \in 0..MaxMishaps
  BY DialerAssumption DEF TypeOK, RequestLost, Mishap

ChanTypeOK ==
  /\ chan \in [Attempts -> {"none", "ringing", "stasis", "dialplan", "gone"}]
  /\ e \in [Attempts -> {"idle", "event"}]
  /\ d \in [Attempts -> {"idle", "event", "finish", "lead", "cleanup"}]

\* A hangup request leaves channels and their events well typed.
LEMMA HangupType ==
  ASSUME TypeOK, NEW a \in Attempts,
         HangupChannel(a) \/ UNCHANGED <<chan, evVars>>
  PROVE  ChanTypeOK'
  BY DEF HangupChannel, ChannelGone, TypeOK, ChanTypeOK

\* A step of the scheduler task keeps the types.
LEMMA SchedulerType ==
  ASSUME TypeOK, Scheduler
  PROVE  TypeOK'
<1>1. CASE BeginTick
  <2>1. sidle' \in BOOLEAN  BY <1>1 DEF BeginTick, EndTick, Quiet
  <2>2. QED  BY <1>1, <2>1 DEF TypeOK, StoreTypeOK, BeginTick, EndTick
<1>2. CASE LeaseNothing
  <2>1. sidle' \in BOOLEAN  BY <1>2 DEF LeaseNothing, EndTick, NextAt, TypeOK
  <2>2. QED  BY <1>2, <2>1 DEF TypeOK, StoreTypeOK, LeaseNothing, EndTick, NextAt
<1>3. CASE ReadStats
  <2>1. sidle' \in BOOLEAN  BY <1>3 DEF ReadStats, EndTick, NextAt, TypeOK
  <2>2. QED  BY <1>3, <2>1 DEF TypeOK, StoreTypeOK, ReadStats, EndTick, NextAt
<1>4. CASE MarkCompleted
  BY ZenonT(60), <1>4 DEF TypeOK, StoreTypeOK, LeadStates, NoRow, InHand, Closed, Statuses,
            MarkCompleted, SetCampaignStatus, EndTick
<1>5. CASE Mark
  BY <1>5 DEF TypeOK, StoreTypeOK, LeadStates, NoRow, InHand, Closed, Mark,
            MarkLeadDialing, NextAt
<1>6. ASSUME NEW l \in Leads, Lease(l) PROVE TypeOK'
  BY <1>6 DEF TypeOK, StoreTypeOK, LeadStates, NoRow, InHand, Closed, Lease,
            LeasePendingLead
<1>7. ASSUME NEW a \in Attempts, NEW kind \in Real, StaleProbe(a, kind) PROVE TypeOK'
  <2>1. UNCHANGED nFaults \/ RequestLost  BY <1>7 DEF StaleProbe
  <2>2. nFaults' \in 0..MaxMishaps  BY <2>1, FaultCount
  <2>3. HangupChannel(a) \/ UNCHANGED <<chan, evVars>>  BY <1>7 DEF StaleProbe
  <2>4. ChanTypeOK'  BY <2>3, HangupType
  <2>5. todo' \in SUBSET (Attempts \X Real)  BY <1>7 DEF StaleProbe, TypeOK,
        InFlight
  <2>6. spc' = "staleFinish" /\ satt' = {a}  BY <1>7 DEF StaleProbe
  <2>7. UNCHANGED <<slead, sidle, storeVars, mapVars, late, awaiting, sessVars,
                    h, hm, c, up, ws, asked, nOps, nCrashes, recycled,
                    orphans>>
    BY <1>7 DEF StaleProbe
  <2>8. QED  BY <2>2, <2>4, <2>5, <2>6, <2>7 DEF TypeOK, StoreTypeOK,
        ChanTypeOK
<1>8. ASSUME NEW a \in Attempts, NEW kind \in Real, StaleLead(a, kind) PROVE TypeOK'
  BY <1>8 DEF TypeOK, StoreTypeOK, LeadStates, NoRow, InHand, Closed,
            StaleLead, SetLeadState
<1>9. ASSUME NEW a \in Attempts, StaleFinish(a) PROVE TypeOK'
  BY <1>9 DEF TypeOK, StoreTypeOK, Outcomes, StaleFinish, FinishAttempt
<1>10. ASSUME NEW a \in Attempts, Create(a) PROVE TypeOK'
  BY <1>10 DEF TypeOK, StoreTypeOK, Real, Create, CreateAttempt
<1>11. ASSUME NEW a \in Attempts, Unmark(a) PROVE TypeOK'
  BY ZenonT(60), <1>11 DEF TypeOK, StoreTypeOK, Outcomes, Unmark, FinishAttempt, EndTick
<1>12. ASSUME NEW a \in Attempts, Originate(a) PROVE TypeOK'
  <2>1. UNCHANGED nFaults \/ RequestLost  BY <1>12 DEF Originate
  <2>2. nFaults' \in 0..MaxMishaps  BY <2>1, FaultCount
  <2>3. PlaceCall(a) \/ UNCHANGED <<chan, late>>  BY <1>12 DEF Originate
  <2>4. /\ chan' \in [Attempts -> {"none", "ringing", "stasis", "dialplan", "gone"}]
        /\ late' \in Nat
    BY <2>3 DEF PlaceCall, TypeOK
  <2>5. /\ spc' \in {"setChannel", "origFail", "sleep"}
        /\ slead' \in {slead, NoLead} /\ satt' \in {satt, {}}
    BY <1>12 DEF Originate, NextAt, EndTick
  <2>8. sidle' \in BOOLEAN  BY <1>12 DEF Originate, NextAt, EndTick, TypeOK
  <2>6. UNCHANGED <<todo, storeVars, mapVars, evVars, awaiting, sessVars, h,
                    hm, c, up, ws, asked, nOps, nCrashes, recycled, orphans>>
    BY <1>12 DEF Originate
  <2>7. QED  BY <2>2, <2>4, <2>5, <2>6, <2>8 DEF TypeOK, StoreTypeOK
<1>13. ASSUME NEW a \in Attempts, SetChannel(a) PROVE TypeOK'
  BY <1>13 DEF TypeOK, StoreTypeOK, Real, SetChannel, Rebuilt, EndTick
<1>14. ASSUME NEW a \in Attempts, OriginateFailed(a) PROVE TypeOK'
  BY <1>14 DEF TypeOK, StoreTypeOK, Outcomes, OriginateFailed, FinishAttempt
<1>15. ASSUME NEW a \in Attempts, OriginateFailedLead(a) PROVE TypeOK'
  BY ZenonT(60), <1>15 DEF TypeOK, StoreTypeOK, LeadStates, NoRow, InHand, Closed,
            OriginateFailedLead, SetLeadState, EndTick
<1>. QED  BY <1>1, <1>2, <1>3, <1>4, <1>5, <1>6, <1>7, <1>8, <1>9, <1>10,
            <1>11, <1>12, <1>13, <1>14, <1>15 DEF Scheduler

\* A step of a StasisStart handler keeps the types.
LEMMA HandlerType ==
  ASSUME TypeOK, NEW a \in Attempts, Handler(a)
  PROVE  TypeOK'
<1>1. CASE AnsweredBegin(a)
  BY SMTT(30), <1>1 DEF TypeOK, StoreTypeOK, AllH, Real, AnsweredBegin, Goto
<1>2. CASE AnsweredLead(a)
  BY <1>2 DEF TypeOK, StoreTypeOK, LeadStates, NoRow, InHand, Closed, AllH,
            AnsweredLead, SetLeadState, Goto
<1>3. CASE AnsweredContinue(a)
  <2>1. UNCHANGED nFaults \/ RequestLost  BY <1>3 DEF AnsweredContinue
  <2>2. nFaults' \in 0..MaxMishaps  BY <2>1, FaultCount
  <2>3. /\ chan' = [chan EXCEPT ![a] = "dialplan"] \/ UNCHANGED chan
        /\ hm' = [hm EXCEPT ![a] = "none"] \/ UNCHANGED hm
        /\ Goto(a, "hop") \/ Goto(a, "contFail")
        /\ awaiting' = awaiting \cup {a}
    BY <1>3 DEF AnsweredContinue
  <2>4. UNCHANGED <<storeVars, mapVars, sessVars, evVars, c, schedVars, late,
                    up, ws, asked, nOps, nCrashes, recycled, orphans>>
    BY <1>3 DEF AnsweredContinue
  <2>5. QED  BY <2>2, <2>3, <2>4 DEF TypeOK, StoreTypeOK, Goto, AllH
<1>4. CASE ContinueFailed(a)
  BY <1>4 DEF TypeOK, StoreTypeOK, Outcomes, AllH, ContinueFailed, Goto,
            FinishAttempt
<1>5. CASE ContinueFailedLead(a)
  BY <1>5 DEF TypeOK, StoreTypeOK, LeadStates, NoRow, InHand, Closed, AllH,
            Real, ContinueFailedLead, SetLeadState, Goto
<1>6. CASE HandlerHangup(a)
  <2>1. UNCHANGED nFaults \/ RequestLost  BY <1>6 DEF HandlerHangup
  <2>2. nFaults' \in 0..MaxMishaps  BY <2>1, FaultCount
  <2>3. HangupChannel(a) \/ UNCHANGED <<chan, evVars>>  BY <1>6 DEF HandlerHangup
  <2>4. ChanTypeOK'  BY <2>3, HangupType
  <2>5. Return(a)  BY <1>6 DEF HandlerHangup
  <2>6. UNCHANGED <<storeVars, mapVars, awaiting, sessVars, c, schedVars, late,
                    up, ws, asked, nOps, nCrashes, recycled, orphans>>
    BY <1>6 DEF HandlerHangup
  <2>7. QED  BY <2>2, <2>4, <2>5, <2>6 DEF TypeOK, StoreTypeOK, ChanTypeOK,
        Return, Goto, AllH
<1>7. CASE AmdBegin(a)
  BY <1>7 DEF TypeOK, StoreTypeOK, AllH, Real, AmdBegin, Goto
<1>8. CASE MachineFinish(a)
  BY <1>8 DEF TypeOK, StoreTypeOK, Outcomes, AllH, MachineFinish, Verdict,
            FinishAttempt, Goto, VmEnabled, OrDefault
<1>9. CASE MachineLead(a)
  BY <1>9 DEF TypeOK, StoreTypeOK, LeadStates, NoRow, InHand, Closed, AllH,
            Real, MachineLead, VerdictLead, SetLeadState, DropMaps, Goto
<1>10. CASE ConsentFinish(a)
  BY <1>10 DEF TypeOK, StoreTypeOK, Outcomes, AllH, ConsentFinish, Verdict,
            FinishAttempt, Goto
<1>11. CASE ConsentLead(a)
  BY <1>11 DEF TypeOK, StoreTypeOK, LeadStates, NoRow, InHand, Closed, AllH,
            Real, ConsentLead, VerdictLead, SetLeadState, DropMaps, Goto
<1>12. CASE HumanLead(a)
  BY <1>12 DEF TypeOK, StoreTypeOK, LeadStates, NoRow, InHand, Closed, AllH,
            Real, HumanLead, SetLeadState, Goto
<1>13. CASE Bridge(a)
  <2>1. UNCHANGED nFaults \/ RequestLost  BY <1>13 DEF Bridge
  <2>2. nFaults' \in 0..MaxMishaps  BY <2>1, FaultCount
  <2>3. Goto(a, "save") \/ Goto(a, "idle")  BY <1>13 DEF Bridge
  <2>4. UNCHANGED <<storeVars, mapVars, awaiting, sessVars, chan, hm, evVars,
                    c, schedVars, late, up, ws, asked, nOps, nCrashes,
                    recycled, orphans>>
    BY <1>13 DEF Bridge
  <2>5. QED  BY <2>2, <2>3, <2>4 DEF TypeOK, StoreTypeOK, Goto, AllH
<1>14. CASE SaveSession(a)
  BY <1>14 DEF TypeOK, StoreTypeOK, AllH, SaveSession, Goto
<1>15. CASE ReadCampaign(a)
  BY <1>15 DEF TypeOK, StoreTypeOK, AllH, ReadCampaign, ReadVar, Live, Goto
<1>16. CASE ReadAttempt(a)
  BY <1>16 DEF TypeOK, StoreTypeOK, AllH, ReadAttempt, ReadVar, Live, Goto
<1>17. CASE StartMedia(a)
  BY <1>17 DEF TypeOK, StoreTypeOK, AllH, StartMedia, StartCleanup, Goto
<1>. QED  BY <1>1, <1>2, <1>3, <1>4, <1>5, <1>6, <1>7, <1>8, <1>9, <1>10,
            <1>11, <1>12, <1>13, <1>14, <1>15, <1>16, <1>17 DEF Handler

\* A step of a call's cleanup, StasisEnd or ChannelDestroyed keeps the types.
LEMMA TeardownType ==
  ASSUME TypeOK, NEW a \in Attempts, Teardown(a)
  PROVE  TypeOK'
<1>1. CASE CleanupHangup(a)
  <2>1. UNCHANGED nFaults \/ RequestLost  BY <1>1 DEF CleanupHangup
  <2>2. nFaults' \in 0..MaxMishaps  BY <2>1, FaultCount
  <2>3. HangupChannel(a) \/ UNCHANGED <<chan, evVars>>  BY <1>1 DEF CleanupHangup
  <2>4. ChanTypeOK'  BY <2>3, HangupType
  <2>5. c' = [c EXCEPT ![a] = "persist"]  BY <1>1 DEF CleanupHangup
  <2>6. UNCHANGED <<storeVars, mapVars, awaiting, sessVars, h, hm, schedVars,
                    late, up, ws, asked, nOps, nCrashes, recycled, orphans>>
    BY <1>1 DEF CleanupHangup
  <2>7. QED  BY <2>2, <2>4, <2>5, <2>6 DEF TypeOK, StoreTypeOK, ChanTypeOK
<1>2. CASE Persist(a)
  <2>1. UNCHANGED nFaults \/ RequestLost  BY <1>2 DEF Persist
  <2>2. nFaults' \in 0..MaxMishaps  BY <2>1, FaultCount
  <2>3. FinishAttempt(a, "answered_human") \/ FinishAttempt(a, "error") \/
        UNCHANGED rowVars
    BY <1>2 DEF Persist
  <2>4. /\ attempt' \in [Attempts -> {"none", "open", "ended", "deleted"}]
        /\ outcome' \in [Attempts -> Outcomes \cup {"null"}]
        /\ leadOf'  \in [Attempts -> Leads \cup {NoLead}]
    BY <2>3 DEF FinishAttempt, Outcomes, TypeOK, StoreTypeOK
  <2>5. \E s \in {"leadDone", "leadFailed", "remove"} : c' = [c EXCEPT ![a] =
        s]
    BY <1>2 DEF Persist
  <2>6. UNCHANGED <<status, leadVars, mapVars, awaiting, sessVars, chan, h, hm,
                    evVars, schedVars, late, up, ws, asked, nOps, nCrashes,
                    recycled, orphans>>
    BY <1>2 DEF Persist
  <2>7. QED  BY <2>2, <2>4, <2>5, <2>6 DEF TypeOK, StoreTypeOK
<1>3. CASE PersistLead(a)
  BY <1>3 DEF TypeOK, StoreTypeOK, LeadStates, NoRow, InHand, Closed,
            PersistLead, SetLeadState, DropMaps
<1>4. CASE RemoveSession(a)
  BY <1>4 DEF TypeOK, StoreTypeOK, RemoveSession
<1>5. CASE StasisEnd(a)
  BY <1>5 DEF TypeOK, StoreTypeOK, StasisEnd, Clean, CanClean, StartCleanup
<1>6. CASE DestroyedBegin(a)
  BY <1>6 DEF TypeOK, StoreTypeOK, Real, DestroyedBegin, Untalked
<1>7. CASE DestroyedFinish(a)
  BY <1>7 DEF TypeOK, StoreTypeOK, Outcomes, DestroyedFinish, FinishAttempt
<1>8. CASE DestroyedLead(a)
  BY <1>8 DEF TypeOK, StoreTypeOK, LeadStates, NoRow, InHand, Closed,
            DestroyedLead, SetLeadState, DropMaps
<1>9. CASE DestroyedCleanup(a)
  BY <1>9 DEF TypeOK, StoreTypeOK, DestroyedCleanup, Clean, CanClean,
            StartCleanup
<1>. QED  BY <1>1, <1>2, <1>3, <1>4, <1>5, <1>6, <1>7, <1>8, <1>9 DEF Teardown

\* An operator request keeps the types.
LEMMA OperatorType ==
  ASSUME TypeOK, Operator
  PROVE  TypeOK'
<1>1. CASE RequestStart
  BY <1>1, DialerAssumption DEF TypeOK, StoreTypeOK, RequestStart, Request
<1>2. CASE RequestArchive
  BY <1>2, DialerAssumption DEF TypeOK, StoreTypeOK, RequestArchive, Request
<1>3. CASE RequestDelete
  BY <1>3, DialerAssumption DEF TypeOK, StoreTypeOK, RequestDelete, Request
<1>4. CASE OpStart
  BY <1>4, DialerAssumption DEF TypeOK, StoreTypeOK, LeadStates, NoRow, InHand,
            Closed, Statuses, OpStart, OpAsked, Op, SetCampaignStatus
<1>5. CASE OpArchive
  BY <1>5, DialerAssumption DEF TypeOK, StoreTypeOK, LeadStates, NoRow, InHand,
            Closed, Statuses, OpArchive, OpAsked, Op, SetCampaignStatus
<1>6. CASE OpStatus
  BY <1>6, DialerAssumption DEF TypeOK, StoreTypeOK, LeadStates, NoRow, InHand,
            Closed, Statuses, OpStatus, OpPlain, Op, SetCampaignStatus
<1>7. ASSUME NEW l \in Leads, OpCancel(l) PROVE TypeOK'
  BY <1>7, DialerAssumption DEF TypeOK, StoreTypeOK, LeadStates, NoRow, InHand,
            Closed, OpCancel, OpPlain, Op, CancelLead
<1>8. ASSUME NEW l \in Leads, OpIgnore(l) PROVE TypeOK'
  BY <1>8, DialerAssumption DEF TypeOK, StoreTypeOK, LeadStates, NoRow, InHand,
            Closed, OpIgnore, OpPlain, Op, IgnoreLead
<1>9. ASSUME NEW l \in Leads, OpDelete(l) PROVE TypeOK'
  BY <1>9, DialerAssumption DEF TypeOK, StoreTypeOK, LeadStates, NoRow, InHand,
            Closed, OpDelete, OpAsked, Op, DeleteLead, DropRows, RowsOf
<1>10. ASSUME NEW l \in Leads, OpRecycle(l) PROVE TypeOK'
  BY <1>10, DialerAssumption DEF TypeOK, StoreTypeOK, LeadStates, NoRow,
            InHand, Closed, OpRecycle, OpPlain, Op, RecycleLead, DropRows,
            RowsOf
<1>11. ASSUME NEW l \in Leads, OpImport(l) PROVE TypeOK'
  BY <1>11, DialerAssumption DEF TypeOK, StoreTypeOK, LeadStates, NoRow,
            InHand, Closed, OpImport, OpPlain, Op, ImportLead
<1>. QED  BY <1>1, <1>2, <1>3, <1>4, <1>5, <1>6, <1>7, <1>8, <1>9, <1>10, <1>11 DEF Operator

\* Channels, lease expiry, crashes, restarts and connection drops keep the types.
LEMMA EnvironmentType ==
  ASSUME TypeOK,
         \/ \E a \in Attempts : Answer(a) \/ AmdReturns(a) \/ HangUp(a)
         \/ LeaseTimeout \/ Crash \/ Start \/ WsDrop \/ WsReconnect
  PROVE  TypeOK'
<1>1. ASSUME NEW a \in Attempts, Answer(a) PROVE TypeOK'
  BY <1>1 DEF TypeOK, StoreTypeOK, AllH, Answer, Goto, ChannelGone
<1>2. ASSUME NEW a \in Attempts, AmdReturns(a) PROVE TypeOK'
  BY <1>2, DialerAssumption DEF TypeOK, StoreTypeOK, AllH, AmdReturns, Goto,
            ChannelGone
<1>3. ASSUME NEW a \in Attempts, HangUp(a) PROVE TypeOK'
  BY <1>3 DEF TypeOK, StoreTypeOK, HangUp, Live, ChannelGone
<1>4. CASE LeaseTimeout
  BY <1>4 DEF TypeOK, StoreTypeOK, LeaseTimeout, LeaseExpires
<1>5. CASE Crash
  <2>1. nCrashes' \in 0..MaxMishaps  BY <1>5, DialerAssumption DEF Crash, Mishap, TypeOK
  <2>2. QED  BY <1>5, <2>1 DEF TypeOK, StoreTypeOK, Crash, Open, AllH
<1>6. CASE Start
  BY <1>6 DEF TypeOK, StoreTypeOK, LeadStates, NoRow, InHand, Closed, Outcomes,
            Start, CleanupStale
<1>7. CASE WsDrop
  <2>1. nFaults' \in 0..MaxMishaps  BY <1>7, DialerAssumption DEF WsDrop, Mishap, TypeOK
  <2>2. QED  BY ZenonT(60), <1>7, <2>1 DEF TypeOK, StoreTypeOK, WsDrop
<1>8. CASE WsReconnect
  BY <1>8 DEF TypeOK, StoreTypeOK, WsReconnect
<1>. QED  BY <1>1, <1>2, <1>3, <1>4, <1>5, <1>6, <1>7, <1>8

\* Every step keeps the types.
LEMMA StepType == TypeOK /\ [Next]_vars => TypeOK'
<1>. SUFFICES ASSUME TypeOK, [Next]_vars PROVE TypeOK'  OBVIOUS
<1>1. CASE Scheduler  BY <1>1, SchedulerType
<1>2. CASE Operator   BY <1>2, OperatorType
<1>3. ASSUME NEW a \in Attempts, Handler(a) PROVE TypeOK'
  BY <1>3, HandlerType
<1>4. ASSUME NEW a \in Attempts, Teardown(a) PROVE TypeOK'
  BY <1>4, TeardownType
<1>5. ASSUME NEW a \in Attempts, Answer(a) \/ AmdReturns(a) \/ HangUp(a)
      PROVE  TypeOK'
  BY <1>5, EnvironmentType
<1>6. CASE LeaseTimeout \/ Crash \/ Start \/ WsDrop \/ WsReconnect
  BY <1>6, EnvironmentType
<1>7. CASE UNCHANGED vars
  BY <1>7 DEF vars, TypeOK, StoreTypeOK
<1>8. CASE Next
  BY <1>1, <1>2, <1>3, <1>4, <1>5, <1>6, <1>8 DEF Next
<1>. QED  BY <1>7, <1>8

\* The initial states are well typed.
LEMMA InitType == Init => TypeOK
<1>1. StoreInit => StoreTypeOK
  BY DEF StoreInit, StoreTypeOK, Statuses, LeadStates, NoRow
<1>2. Init => nOps \in 0..MaxOps /\ nCrashes \in 0..MaxMishaps /\ nFaults \in 0..MaxMishaps
  BY DialerAssumption DEF Init
<1>3. Init => sidle \in BOOLEAN /\ up \in BOOLEAN /\ ws \in BOOLEAN
  BY DEF Init
<1>4. Init => h \in [Attempts -> AllH] /\ recycled \in [Leads -> Nat]
  BY DEF Init, AllH
<1>. QED  BY <1>1, <1>2, <1>3, <1>4 DEF Init, TypeOK

\* Lead states, attempt rows, outcomes, maps, sessions and tasks of the dialer
\* keep their types in every reachable state; the store checks none of them.
THEOREM TypeCorrect == Spec => []TypeOK
<1>. QED  BY InitType, StepType, PTL DEF Spec

-----------------------------------------------------------------------------
(* The accounting of attempts, one attempt at a time *)

\* All EXCEPTs below are inside the domain of their function.
Domains ==
  /\ DOMAIN attempt = Attempts /\ DOMAIN meta = Attempts /\ DOMAIN chan = Attempts
  /\ DOMAIN h = Attempts /\ DOMAIN d = Attempts /\ DOMAIN c = Attempts
  /\ nOps \in Nat

\* No task and no map knows an attempt id that no row has used yet.
Untouched(b) ==
  /\ meta[b] = "none" /\ chan[b] = "none"
  /\ h[b] = "idle" /\ d[b] = "idle" /\ c[b] = "idle"
  /\ b \notin stored /\ b \notin satt
  /\ \A kind \in Real : <<b, kind>> \notin todo

\* A task has finished the row and is about to drop the attempt's metas.
Closing(b) ==
  \/ spc \in {"staleLead", "origFailLead"} /\ b \in satt
  \/ h[b] \in {"vmLead", "consentLead"}
  \/ c[b] \in {"leadDone", "leadFailed"}
  \/ d[b] = "lead"

\* The invariant of one attempt: metas are dropped only after the row is
\* closed, and a tick on its way to "completed" has seen no meta.
Sound(b) ==
  /\ attempt[b] = "none" => Untouched(b)
  /\ attempt[b] = "open" => b \in orphans \/ meta[b] \in Real
  /\ attempt[b] = "open" => ~Closing(b)
  /\ spc \in {"stats", "complete"} => sidle
  /\ spc \in {"lease", "stats", "complete"} /\ sidle => meta[b] \notin Real

\* What every step but Create does to attempt b: it never takes a slot and
\* never uses an id; and a tick passes its capacity check before it leases.
Orderly(b) ==
  /\ meta'[b] \in Real => meta[b] \in Real
  /\ attempt'[b] = "none" <=> attempt[b] = "none"
  /\ spc' \in {"lease", "create"} => spc \in {"lease", "create"} \/ MayDial
  /\ status' = "completed" /\ status # "completed" /\ nOps' = nOps => spc = "complete"

\* Well-typed functions have the domains their EXCEPTs need.
LEMMA TypeDomains == TypeOK => Domains
  BY DEF TypeOK, StoreTypeOK, Domains

\* The scheduler task, but for the creation of an attempt.
LEMMA SchedulerSound ==
  ASSUME Domains, NEW b \in Attempts, Sound(b),
         Scheduler
  PROVE  Sound(b)' /\ (Orderly(b) \/ \E a \in Attempts : Create(a))
<1>1. CASE BeginTick
  BY <1>1 DEF Domains, Sound, Orderly, Closing, Untouched, Real, Quiet,
            InFlight, BeginTick, EndTick
<1>2. CASE LeaseNothing
  BY <1>2 DEF Domains, Sound, Orderly, Closing, Untouched, Real, LeaseNothing,
            Unused, NextAt, EndTick
<1>3. CASE ReadStats
  BY <1>3 DEF Domains, Sound, Orderly, Closing, Untouched, Real, ReadStats,
            NextAt, EndTick
<1>4. CASE MarkCompleted
  BY <1>4 DEF Domains, Sound, Orderly, Closing, Untouched, Real, MarkCompleted,
            SetCampaignStatus, EndTick
<1>5. CASE Mark
  BY <1>5 DEF Domains, Sound, Orderly, Closing, Untouched, Real, Mark, NextAt
<1>6. ASSUME NEW l \in Leads, Lease(l) PROVE Sound(b)' /\ Orderly(b)
  BY <1>6 DEF Domains, Sound, Orderly, Closing, Untouched, Real, Lease, Unused
<1>7. ASSUME NEW a \in Attempts, NEW kind \in Real, StaleProbe(a, kind)
      PROVE Sound(b)' /\ Orderly(b)
  BY <1>7 DEF Domains, Sound, Orderly, Closing, Untouched, Real, InFlight,
            StaleProbe, HangupChannel, Live, ChannelGone
<1>8. ASSUME NEW a \in Attempts, NEW kind \in Real, StaleLead(a, kind)
      PROVE Sound(b)' /\ Orderly(b)
  BY <1>8 DEF Domains, Sound, Orderly, Closing, Untouched, Real, StaleLead
<1>9. ASSUME NEW a \in Attempts, StaleFinish(a) PROVE Sound(b)' /\ Orderly(b)
  BY <1>9 DEF Domains, Sound, Orderly, Closing, Untouched, Real, StaleFinish,
            FinishAttempt
<1>10. ASSUME NEW a \in Attempts, Create(a) PROVE Sound(b)' /\ Create(a)
  BY <1>10 DEF Domains, Sound, Orderly, Closing, Untouched, Real, Create,
            CreateAttempt, Unused
<1>11. ASSUME NEW a \in Attempts, Unmark(a) PROVE Sound(b)' /\ Orderly(b)
  BY <1>11 DEF Domains, Sound, Orderly, Closing, Untouched, Real, Unmark,
            FinishAttempt, EndTick
<1>12. ASSUME NEW a \in Attempts, Originate(a) PROVE Sound(b)' /\ Orderly(b)
  BY <1>12 DEF Domains, Sound, Orderly, Closing, Untouched, Real, Originate,
            PlaceCall, NextAt, EndTick
<1>13. ASSUME NEW a \in Attempts, SetChannel(a) PROVE Sound(b)' /\ Orderly(b)
  BY <1>13 DEF Domains, Sound, Orderly, Closing, Untouched, Real, SetChannel,
            Rebuilt, EndTick
<1>14. ASSUME NEW a \in Attempts, OriginateFailed(a)
      PROVE Sound(b)' /\ Orderly(b)
  BY <1>14 DEF Domains, Sound, Orderly, Closing, Untouched, Real,
            OriginateFailed, FinishAttempt
<1>15. ASSUME NEW a \in Attempts, OriginateFailedLead(a)
      PROVE Sound(b)' /\ Orderly(b)
  BY <1>15 DEF Domains, Sound, Orderly, Closing, Untouched, Real,
            OriginateFailedLead, EndTick
<1>. QED  BY <1>1, <1>2, <1>3, <1>4, <1>5, <1>6, <1>7, <1>8, <1>9, <1>10,
            <1>11, <1>12, <1>13, <1>14, <1>15 DEF Scheduler

\* The StasisStart handlers of an attempt.
LEMMA HandlerSound ==
  ASSUME Domains, NEW b \in Attempts, Sound(b),
         NEW a \in Attempts, Handler(a)
  PROVE  Sound(b)' /\ Orderly(b)
<1>1. CASE AnsweredBegin(a)
  BY <1>1 DEF Domains, Sound, Orderly, Closing, Untouched, Real, AnsweredBegin,
            Goto
<1>2. CASE AnsweredLead(a)
  BY <1>2 DEF Domains, Sound, Orderly, Closing, Untouched, Real, AnsweredLead,
            Goto
<1>3. CASE AnsweredContinue(a)
  BY <1>3 DEF Domains, Sound, Orderly, Closing, Untouched, Real,
            AnsweredContinue, Goto
<1>4. CASE ContinueFailed(a)
  BY <1>4 DEF Domains, Sound, Orderly, Closing, Untouched, Real,
            ContinueFailed, Goto, FinishAttempt
<1>5. CASE ContinueFailedLead(a)
  BY <1>5 DEF Domains, Sound, Orderly, Closing, Untouched, Real,
            ContinueFailedLead, Goto
<1>6. CASE HandlerHangup(a)
  BY <1>6 DEF Domains, Sound, Orderly, Closing, Untouched, Real, HandlerHangup,
            Return, Goto, HangupChannel, Live, ChannelGone
<1>7. CASE AmdBegin(a)
  BY <1>7 DEF Domains, Sound, Orderly, Closing, Untouched, Real, AmdBegin, Goto
<1>8. CASE MachineFinish(a)
  BY <1>8 DEF Domains, Sound, Orderly, Closing, Untouched, Real, MachineFinish,
            Verdict, FinishAttempt, Goto
<1>9. CASE MachineLead(a)
  BY <1>9 DEF Domains, Sound, Orderly, Closing, Untouched, Real, MachineLead,
            VerdictLead, DropMaps, Goto
<1>10. CASE ConsentFinish(a)
  BY <1>10 DEF Domains, Sound, Orderly, Closing, Untouched, Real,
            ConsentFinish, Verdict, FinishAttempt, Goto
<1>11. CASE ConsentLead(a)
  BY <1>11 DEF Domains, Sound, Orderly, Closing, Untouched, Real, ConsentLead,
            VerdictLead, DropMaps, Goto
<1>12. CASE HumanLead(a)
  BY <1>12 DEF Domains, Sound, Orderly, Closing, Untouched, Real, HumanLead,
            Goto
<1>13. CASE Bridge(a)
  BY <1>13 DEF Domains, Sound, Orderly, Closing, Untouched, Real, Bridge, Goto
<1>14. CASE SaveSession(a)
  BY <1>14 DEF Domains, Sound, Orderly, Closing, Untouched, Real, SaveSession,
            Goto
<1>15. CASE ReadCampaign(a)
  BY <1>15 DEF Domains, Sound, Orderly, Closing, Untouched, Real, ReadCampaign,
            ReadVar, Live, Goto
<1>16. CASE ReadAttempt(a)
  BY <1>16 DEF Domains, Sound, Orderly, Closing, Untouched, Real, ReadAttempt,
            ReadVar, Live, Goto
<1>17. CASE StartMedia(a)
  BY <1>17 DEF Domains, Sound, Orderly, Closing, Untouched, Real, StartMedia,
            StartCleanup, Goto
<1>. QED  BY <1>1, <1>2, <1>3, <1>4, <1>5, <1>6, <1>7, <1>8, <1>9, <1>10,
            <1>11, <1>12, <1>13, <1>14, <1>15, <1>16, <1>17 DEF Handler

\* The end of a call.
LEMMA TeardownSound ==
  ASSUME Domains, NEW b \in Attempts, Sound(b),
         NEW a \in Attempts, Teardown(a)
  PROVE  Sound(b)' /\ Orderly(b)
<1>1. CASE CleanupHangup(a)
  BY <1>1 DEF Domains, Sound, Orderly, Closing, Untouched, Real, CleanupHangup,
            HangupChannel, Live, ChannelGone
<1>2. CASE Persist(a)
  <2>1. /\ c[a] = "persist"
        /\ UNCHANGED <<meta, chan, h, d, stored, satt, todo, spc, orphans,
                       sidle, status, nOps>>
    BY <1>2 DEF Persist
  <2>2. CASE UNCHANGED rowVars /\ c' = [c EXCEPT ![a] = "remove"]
    BY <2>1, <2>2 DEF Domains, Sound, Orderly, Closing, Untouched, Real
  <2>3. CASE FinishAttempt(a, "answered_human") /\ c' = [c EXCEPT ![a] = "leadDone"]
    BY <2>1, <2>3 DEF FinishAttempt, Domains, Sound, Orderly, Closing, Untouched, Real
  <2>4. CASE FinishAttempt(a, "error") /\ c' = [c EXCEPT ![a] = "leadFailed"]
    BY <2>1, <2>4 DEF FinishAttempt, Domains, Sound, Orderly, Closing, Untouched, Real
  <2>. QED  BY <1>2, <2>2, <2>3, <2>4 DEF Persist
<1>3. CASE PersistLead(a)
  BY <1>3 DEF Domains, Sound, Orderly, Closing, Untouched, Real, PersistLead,
            DropMaps
<1>4. CASE RemoveSession(a)
  BY <1>4 DEF Domains, Sound, Orderly, Closing, Untouched, Real, RemoveSession
<1>5. CASE StasisEnd(a)
  BY <1>5 DEF Domains, Sound, Orderly, Closing, Untouched, Real, StasisEnd,
            Clean, CanClean, StartCleanup
<1>6. CASE DestroyedBegin(a)
  BY <1>6 DEF Domains, Sound, Orderly, Closing, Untouched, Real, DestroyedBegin
<1>7. CASE DestroyedFinish(a)
  BY <1>7 DEF Domains, Sound, Orderly, Closing, Untouched, Real,
            DestroyedFinish, FinishAttempt
<1>8. CASE DestroyedLead(a)
  BY <1>8 DEF Domains, Sound, Orderly, Closing, Untouched, Real, DestroyedLead,
            DropMaps
<1>9. CASE DestroyedCleanup(a)
  BY <1>9 DEF Domains, Sound, Orderly, Closing, Untouched, Real,
            DestroyedCleanup, Clean, CanClean, StartCleanup
<1>. QED  BY <1>1, <1>2, <1>3, <1>4, <1>5, <1>6, <1>7, <1>8, <1>9 DEF Teardown

\* The operator.
LEMMA OperatorSound ==
  ASSUME Domains, NEW b \in Attempts, Sound(b),
         Operator
  PROVE  Sound(b)' /\ Orderly(b)
<1>1. CASE RequestStart
  BY <1>1 DEF Domains, Sound, Orderly, Closing, Untouched, Real, RequestStart,
            Request
<1>2. CASE RequestArchive
  BY <1>2 DEF Domains, Sound, Orderly, Closing, Untouched, Real,
            RequestArchive, Request
<1>3. CASE RequestDelete
  BY <1>3 DEF Domains, Sound, Orderly, Closing, Untouched, Real, RequestDelete,
            Request
<1>4. CASE OpStart
  BY <1>4 DEF Domains, Sound, Orderly, Closing, Untouched, Real, OpStart,
            OpAsked, Op, SetCampaignStatus
<1>5. CASE OpArchive
  BY <1>5 DEF Domains, Sound, Orderly, Closing, Untouched, Real, OpArchive,
            OpAsked, Op, SetCampaignStatus
<1>6. CASE OpStatus
  BY <1>6 DEF Domains, Sound, Orderly, Closing, Untouched, Real, OpStatus,
            OpPlain, Op, SetCampaignStatus
<1>7. ASSUME NEW l \in Leads, OpCancel(l) PROVE Sound(b)' /\ Orderly(b)
  BY <1>7 DEF Domains, Sound, Orderly, Closing, Untouched, Real, OpCancel,
            OpPlain, Op, CancelLead
<1>8. ASSUME NEW l \in Leads, OpIgnore(l) PROVE Sound(b)' /\ Orderly(b)
  BY <1>8 DEF Domains, Sound, Orderly, Closing, Untouched, Real, OpIgnore,
            OpPlain, Op, IgnoreLead
<1>9. ASSUME NEW l \in Leads, OpDelete(l) PROVE Sound(b)' /\ Orderly(b)
  BY <1>9 DEF Domains, Sound, Orderly, Closing, Untouched, Real, OpDelete,
            OpAsked, Op, DeleteLead, DropRows, RowsOf
<1>10. ASSUME NEW l \in Leads, OpRecycle(l) PROVE Sound(b)' /\ Orderly(b)
  BY <1>10 DEF Domains, Sound, Orderly, Closing, Untouched, Real, OpRecycle,
            OpPlain, Op, RecycleLead, DropRows, RowsOf
<1>11. ASSUME NEW l \in Leads, OpImport(l) PROVE Sound(b)' /\ Orderly(b)
  BY <1>11 DEF Domains, Sound, Orderly, Closing, Untouched, Real, OpImport,
            OpPlain, Op, ImportLead
<1>. QED  BY <1>1, <1>2, <1>3, <1>4, <1>5, <1>6, <1>7, <1>8, <1>9, <1>10, <1>11 DEF Operator

\* Channels, lease expiry, crashes, restarts and connection drops.
LEMMA EnvironmentSound ==
  ASSUME Domains, NEW b \in Attempts, Sound(b),
         \/ \E a \in Attempts : Answer(a) \/ AmdReturns(a) \/ HangUp(a)
         \/ LeaseTimeout \/ Crash \/ Start \/ WsDrop \/ WsReconnect
  PROVE  Sound(b)' /\ Orderly(b)
<1>1. ASSUME NEW a \in Attempts, Answer(a) PROVE Sound(b)' /\ Orderly(b)
  BY <1>1 DEF Domains, Sound, Orderly, Closing, Untouched, Real, Answer, Goto,
            ChannelGone
<1>2. ASSUME NEW a \in Attempts, AmdReturns(a) PROVE Sound(b)' /\ Orderly(b)
  BY <1>2, DialerAssumption DEF Domains, Sound, Orderly, Closing, Untouched,
            Real, AmdReturns, Goto, ChannelGone
<1>3. ASSUME NEW a \in Attempts, HangUp(a) PROVE Sound(b)' /\ Orderly(b)
  BY <1>3 DEF Domains, Sound, Orderly, Closing, Untouched, Real, HangUp, Live,
            ChannelGone
<1>4. CASE LeaseTimeout
  BY <1>4 DEF Domains, Sound, Orderly, Closing, Untouched, Real, LeaseTimeout,
            LeaseExpires
<1>5. CASE Crash
  BY <1>5 DEF Domains, Sound, Orderly, Closing, Untouched, Real, Crash, Open
<1>6. CASE Start
  BY <1>6 DEF Domains, Sound, Orderly, Closing, Untouched, Real, Start, Open,
            CleanupStale
<1>7. CASE WsDrop
  BY <1>7 DEF Domains, Sound, Orderly, Closing, Untouched, Real, WsDrop
<1>8. CASE WsReconnect
  BY <1>8 DEF Domains, Sound, Orderly, Closing, Untouched, Real, WsReconnect
<1>. QED  BY <1>1, <1>2, <1>3, <1>4, <1>5, <1>6, <1>7, <1>8

-----------------------------------------------------------------------------
(* The inductive invariant *)

Accounted == \A b \in Attempts : Sound(b)

\* A slot is free whenever the scheduler is past its capacity check.
Room ==
  /\ Cardinality(InFlight) <= MaxConcurrent
  /\ spc \in {"lease", "create"} => Cardinality(InFlight) < MaxConcurrent

IInv == TypeOK /\ Accounted /\ Room

\* Every step keeps every attempt sound, and is orderly unless it creates one.
LEMMA StepSound ==
  ASSUME TypeOK, Accounted, Next
  PROVE  /\ Accounted'
         /\ (\A b \in Attempts : Orderly(b)) \/ (\E a \in Attempts : Create(a))
<1>. SUFFICES ASSUME NEW b \in Attempts
     PROVE Sound(b)' /\ (Orderly(b) \/ \E a \in Attempts : Create(a))
  BY DEF Accounted
<1>. Domains /\ Sound(b)  BY TypeDomains DEF Accounted
<1>1. CASE Scheduler  BY <1>1, SchedulerSound
<1>2. CASE Operator   BY <1>2, OperatorSound
<1>3. ASSUME NEW a \in Attempts, Handler(a) PROVE Sound(b)' /\ Orderly(b)
  BY <1>3, HandlerSound
<1>4. ASSUME NEW a \in Attempts, Teardown(a) PROVE Sound(b)' /\ Orderly(b)
  BY <1>4, TeardownSound
<1>5. ASSUME NEW a \in Attempts, Answer(a) \/ AmdReturns(a) \/ HangUp(a)
      PROVE  Sound(b)' /\ Orderly(b)
  BY <1>5, EnvironmentSound
<1>6. CASE LeaseTimeout \/ Crash \/ Start \/ WsDrop \/ WsReconnect
  BY <1>6, EnvironmentSound
<1>. QED  BY <1>1, <1>2, <1>3, <1>4, <1>5, <1>6 DEF Next

\* The attempts in flight are finitely many.
LEMMA InFlightFinite == IsFiniteSet(InFlight) /\ Cardinality(InFlight) \in Nat
<1>1. InFlight \subseteq Attempts  BY DEF InFlight
<1>. QED  BY <1>1, StoreAssumption, FS_Subset, FS_CardinalityType

\* Without a creation no attempt enters the set in flight.
LEMMA OrderlyShrinks ==
  ASSUME \A b \in Attempts : Orderly(b)
  PROVE  InFlight' \subseteq InFlight /\ Cardinality(InFlight') <= Cardinality(InFlight)
<1>1. InFlight' \subseteq InFlight  BY DEF Orderly, InFlight
<1>. QED  BY <1>1, InFlightFinite, FS_Subset

\* The capacity check leaves room for one more attempt.
LEMMA DialHasRoom ==
  ASSUME TypeOK, MayDial
  PROVE  Cardinality(InFlight) < MaxConcurrent
<1>1. Counted \subseteq Attempts  BY DEF Counted, TypeOK
<1>2. Cardinality(Counted) \in Nat
  BY <1>1, StoreAssumption, FS_Subset, FS_CardinalityType
<1>. QED  BY <1>2, InFlightFinite, DialerAssumption DEF MayDial, Capacity

\* A created attempt takes one slot, which was free.
LEMMA CreateTakesOne ==
  ASSUME TypeOK, Accounted, NEW a \in Attempts, Create(a)
  PROVE  /\ InFlight' = InFlight \cup {a} /\ a \notin InFlight
         /\ Cardinality(InFlight') = Cardinality(InFlight) + 1
         /\ attempt[a] = "none" /\ attempt' = [attempt EXCEPT ![a] = "open"]
         /\ spc = "create" /\ spc' = "mark"
<1>1. /\ attempt[a] = "none" /\ attempt' = [attempt EXCEPT ![a] = "open"]
      /\ meta' = [meta EXCEPT ![a] = "created"]
      /\ spc = "create" /\ spc' = "mark"
  BY DEF Create, CreateAttempt, Unused
<1>2. meta[a] = "none"  BY <1>1 DEF Accounted, Sound, Untouched
<1>3. InFlight' = InFlight \cup {a} /\ a \notin InFlight
  BY <1>1, <1>2 DEF InFlight, Real, TypeOK
<1>. QED  BY <1>1, <1>3, InFlightFinite, FS_AddElement

\* Every step keeps the cap, and the room found by the capacity check.
LEMMA StepRoom ==
  ASSUME TypeOK, Accounted, Room, Next
  PROVE  Room'
<1>1. CASE \E a \in Attempts : Create(a)
  <2>. PICK a \in Attempts : Create(a)  BY <1>1
  <2>1. /\ Cardinality(InFlight') = Cardinality(InFlight) + 1
        /\ spc = "create" /\ spc' = "mark"
    BY CreateTakesOne
  <2>. QED  BY <2>1, InFlightFinite, DialerAssumption DEF Room
<1>2. CASE \A b \in Attempts : Orderly(b)
  <2>1. InFlight' \subseteq InFlight /\ Cardinality(InFlight') <= Cardinality(InFlight)
    BY <1>2, OrderlyShrinks
  <2>2. Cardinality(InFlight') \in Nat
    BY <2>1, InFlightFinite, FS_Subset, FS_CardinalityType
  <2>3. CASE Attempts = {}
    <3>1. InFlight' = {}  BY <2>3, <2>1 DEF InFlight
    <3>. QED  BY <3>1, FS_EmptySet, DialerAssumption DEF Room
  <2>4. CASE Attempts # {}
    <3>1. spc' \in {"lease", "create"} => Cardinality(InFlight) < MaxConcurrent
      BY <1>2, <2>4, DialHasRoom DEF Orderly, Room
    <3>. QED  BY <2>1, <2>2, <3>1, InFlightFinite, DialerAssumption DEF Room
  <2>. QED  BY <2>3, <2>4
<1>. QED  BY <1>1, <1>2, StepSound

\* The inductive invariant holds in every reachable state.
THEOREM InductiveInvariant == Spec => []IInv
<1>1. Init => IInv
  <2>. SUFFICES ASSUME Init PROVE IInv  OBVIOUS
  <2>1. TypeOK  BY InitType
  <2>2. Accounted
    BY DEF Init, StoreInit, Accounted, Sound, Untouched, Closing
  <2>3. InFlight = {}  BY DEF Init, InFlight, Real
  <2>4. Room  BY <2>3, FS_EmptySet, DialerAssumption DEF Init, Room
  <2>. QED  BY <2>1, <2>2, <2>4 DEF IInv
<1>2. IInv /\ [Next]_vars => IInv'
  <2>. SUFFICES ASSUME IInv, [Next]_vars PROVE IInv'  OBVIOUS
  <2>1. CASE Next  BY <2>1, StepType, StepSound, StepRoom DEF IInv
  <2>2. CASE UNCHANGED vars
    <3>1. TypeOK'  BY <2>2, StepType DEF IInv
    <3>2. Accounted'
      BY <2>2 DEF IInv, vars, Accounted, Sound, Untouched, Closing
    <3>3. Room'  BY <2>2 DEF IInv, vars, Room, InFlight
    <3>. QED  BY <3>1, <3>2, <3>3 DEF IInv
  <2>. QED  BY <2>1, <2>2
<1>. QED  BY <1>1, <1>2, PTL DEF Spec
-----------------------------------------------------------------------------
(* What follows from it *)

\* The capacity check of _outbound_scheduler_loop, made several awaits before
\* the attempt is created, still bounds the attempts in flight by
\* max_concurrent in every reachable state.
THEOREM InFlightCapHolds == Spec => []InFlightCap
<1>1. IInv => InFlightCap  BY DEF IInv, Room, InFlightCap
<1>. QED  BY <1>1, InductiveInvariant, PTL

\* Every task that pops an attempt's metas (stale watchdog, failed originate,
\* verdict, destroyed handler, call history) has closed its row before, so an
\* open row of this run of the engine is always counted.
THEOREM OpenIsCountedHolds == Spec => []OpenIsCounted
<1>1. IInv => OpenIsCounted
  BY DEF IInv, Accounted, Sound, OpenIsCounted, Open, InFlight
<1>. QED  BY <1>1, InductiveInvariant, PTL

\* _outbound_maybe_mark_campaign_completed writes "completed" on counts taken
\* awaits earlier; when it does, nothing is in flight and every attempt of
\* this run of the engine is closed.
THEOREM CompletedIsIdleHolds == Spec => CompletedIsIdle
<1>1. ASSUME IInv, Next, status # "completed", status' = "completed", nOps' = nOps
      PROVE  InFlight = {} /\ Open \subseteq orphans
  <2>1. ASSUME NEW b \in Attempts
        PROVE  meta[b] \notin Real /\ (attempt[b] = "open" => b \in orphans)
    <3>1. Sound(b)  BY <1>1 DEF IInv, Accounted
    <3>2. CASE Orderly(b)  BY <1>1, <3>1, <3>2 DEF Orderly, Sound
    <3>3. CASE \E a \in Attempts : Create(a)
      <4>1. status' = status  BY <3>3 DEF Create
      <4>. QED  BY <4>1, <1>1
    <3>. QED  BY <3>2, <3>3, <1>1, StepSound DEF IInv
  <2>. QED  BY <2>1 DEF InFlight, Open
<1>2. IInv /\ [Next]_vars
        => [status # "completed" /\ status' = "completed" /\ nOps' = nOps
              => InFlight = {} /\ Open \subseteq orphans]_vars
  BY <1>1
<1>. QED  BY <1>2, InductiveInvariant, PTL DEF Spec, CompletedIsIdle

\* A step of the dialer is a step of CallSlots, or none, on its slots.
LEMMA StepSlots ==
  ASSUME IInv, [Next]_vars
  PROVE  [Slots!Next]_SlotOf
<1>. USE DEF IInv
<1>0. \A b \in InFlight : attempt[b] # "none"
  BY DEF Accounted, Sound, Untouched, InFlight, Real
<1>1. Slots!Busy = InFlight
  BY <1>0 DEF Slots!Busy, SlotOf, InFlight
<1>2. CASE UNCHANGED vars
  BY <1>2 DEF vars, SlotOf, InFlight
<1>3. ASSUME NEW a \in Attempts, Create(a)
      PROVE  Slots!Acquire(a)
  <2>1. /\ InFlight' = InFlight \cup {a}
        /\ attempt[a] = "none" /\ attempt' = [attempt EXCEPT ![a] = "open"]
        /\ spc = "create"
    BY <1>3, CreateTakesOne
  <2>2. SlotOf[a] = "unused"  BY <2>1 DEF SlotOf
  <2>3. Cardinality(Slots!Busy) < MaxConcurrent
    BY <2>1, <1>1 DEF Room
  <2>4. SlotOf' = [SlotOf EXCEPT ![a] = "busy"]
    BY <2>1 DEF SlotOf, TypeOK, StoreTypeOK
  <2>5. Slots!Cardinality(Slots!Busy) = Cardinality(Slots!Busy)
    BY DEF Slots!Cardinality, Cardinality
  <2>. QED  BY <2>2, <2>3, <2>4, <2>5 DEF Slots!Acquire
<1>4. CASE Next /\ \A b \in Attempts : Orderly(b)
  <2>. DEFINE S == InFlight \ InFlight'
  <2>1. InFlight' \subseteq InFlight  BY <1>4, OrderlyShrinks
  <2>2. \A b \in Attempts : attempt'[b] = "none" <=> attempt[b] = "none"
    BY <1>4 DEF Orderly
  <2>3. SlotOf' = [b \in Attempts |-> IF b \in S THEN "free" ELSE SlotOf[b]]
    BY <1>0, <2>1, <2>2 DEF SlotOf
  <2>4. CASE S = {}
    BY <2>3, <2>4 DEF SlotOf
  <2>5. CASE S # {}
    <3>1. Slots!Release(S)  BY <2>3, <2>5 DEF Slots!Release
    <3>. QED  BY <3>1, <1>1 DEF Slots!Next
  <2>. QED  BY <2>4, <2>5
<1>. QED  BY <1>2, <1>3, <1>4, StepSound DEF Slots!Next

\* The engine's in-flight accounting implements CallSlots: no handler that
\* writes a meta back revives an attempt another task has given up.
THEOREM SlotsRefinedHolds == Spec => SlotsRefined
<1>1. Init => Slots!Init
  BY DEF Init, StoreInit, Slots!Init, SlotOf
<1>2. IInv /\ [Next]_vars => [Slots!Next]_SlotOf
  BY StepSlots
<1>. QED  BY <1>1, <1>2, InductiveInvariant, PTL DEF Spec, SlotsRefined, Slots!Spec

-----------------------------------------------------------------------------
(* Calls placed after the campaign has left "running" *)

\* No call is late while the campaign runs, nor while a tick that found it
\* running has still its one call to place.
LateBound ==
  /\ late <= 1
  /\ status = "running" => late = 0
  /\ spc \in {"lease", "create", "mark", "originate"} => late = 0

\* A step that places no call and starts neither a tick nor the campaign.
NoNewCall ==
  /\ late' = late
  /\ status' = "running" => status = "running"
  /\ spc' \in {"lease", "create", "mark", "originate"}
       => spc \in {"lease", "create", "mark", "originate"}

\* Only the start of a tick, of a call or of the campaign moves the bound.
LEMMA MostStepsPlaceNoCall ==
  ASSUME Next, ~BeginTick, ~OpStart, \A a \in Attempts : ~Originate(a)
  PROVE  NoNewCall
<1>1. ASSUME NEW a \in Attempts, Handler(a) PROVE NoNewCall
  BY <1>1 DEF NoNewCall, Handler, AnsweredBegin, AnsweredLead,
            AnsweredContinue, ContinueFailed, ContinueFailedLead,
            HandlerHangup, AmdBegin, MachineFinish, Verdict, MachineLead,
            VerdictLead, ConsentFinish, ConsentLead, HumanLead, Bridge,
            SaveSession, ReadCampaign, ReadVar, ReadAttempt, StartMedia
<1>2. ASSUME NEW a \in Attempts, Teardown(a) PROVE NoNewCall
  BY <1>2 DEF NoNewCall, Teardown, CleanupHangup, Persist, PersistLead,
            RemoveSession, StasisEnd, DestroyedBegin, DestroyedFinish,
            DestroyedLead, DestroyedCleanup
<1>3. CASE Scheduler
  BY ZenonT(60), <1>3 DEF NoNewCall, Scheduler, LeaseNothing, NextAt, EndTick, ReadStats,
            MarkCompleted, SetCampaignStatus, Mark, Lease, StaleProbe,
            StaleLead, StaleFinish, Create, Unmark, SetChannel,
            OriginateFailed, OriginateFailedLead
<1>4. CASE Operator
  BY <1>4 DEF NoNewCall, Operator, RequestStart, Request, RequestArchive,
            RequestDelete, OpArchive, OpAsked, Op, SetCampaignStatus, OpStatus,
            OpPlain, OpCancel, CancelLead, OpIgnore, IgnoreLead, OpDelete,
            DeleteLead, OpRecycle, RecycleLead, OpImport, ImportLead
<1>5. ASSUME NEW a \in Attempts, Answer(a) \/ AmdReturns(a) \/ HangUp(a)
      PROVE  NoNewCall
  BY <1>5 DEF NoNewCall, Answer, AmdReturns, HangUp
<1>6. CASE LeaseTimeout \/ Crash \/ Start \/ WsDrop \/ WsReconnect
  BY <1>6 DEF NoNewCall, LeaseTimeout, LeaseExpires, Crash, Start,
            CleanupStale, WsDrop, WsReconnect
<1>. QED  BY <1>1, <1>2, <1>3, <1>4, <1>5, <1>6 DEF Next

\* A tick originates at most the one call it decided on while the campaign was
\* running, however the operator pauses, stops or archives it meanwhile.
THEOREM AtMostOneLateCallHolds == Spec => []AtMostOneLateCall
<1>1. Init => LateBound
  BY DEF Init, LateBound
<1>2. LateBound /\ [Next]_vars => LateBound'
  <2>. SUFFICES ASSUME LateBound, [Next]_vars PROVE LateBound'  OBVIOUS
  <2>1. CASE BeginTick
    BY <2>1 DEF BeginTick, EndTick, MayDial, LateBound
  <2>2. CASE OpStart
    BY <2>2 DEF OpStart, OpAsked, Op, LateBound
  <2>3. ASSUME NEW a \in Attempts, Originate(a) PROVE LateBound'
    <3>1. late = 0 /\ status' = status  BY <2>3 DEF Originate, LateBound
    <3>2. PlaceCall(a) \/ late' = late  BY <2>3 DEF Originate
    <3>3. late' = 0 \/ (late' = 1 /\ status # "running")
      BY <3>1, <3>2 DEF PlaceCall
    <3>4. spc' \in {"setChannel", "origFail", "sleep"}
      BY <2>3 DEF Originate, NextAt, EndTick
    <3>. QED  BY <3>1, <3>3, <3>4 DEF LateBound
  <2>4. CASE NoNewCall
    BY <2>4 DEF NoNewCall, LateBound
  <2>5. CASE UNCHANGED vars
    BY <2>5 DEF vars, LateBound
  <2>. QED  BY <2>1, <2>2, <2>3, <2>4, <2>5, MostStepsPlaceNoCall
<1>3. LateBound => AtMostOneLateCall
  BY DEF LateBound, AtMostOneLateCall
<1>. QED  BY <1>1, <1>2, <1>3, PTL DEF Spec
-----------------------------------------------------------------------------
(* The life of a call: where its channel, its tasks, its session and its metas stand *)

\* Steps of the handler from the bridge to the end of the setup.
Setup == {"save", "vars", "ids", "media"}
\* Steps of a tick that has created an attempt.
Placing == {"mark", "unmark", "originate", "setChannel", "origFail", "origFailLead"}

\* No conversation will be recorded for b any more, once its channel is gone.
Unrecorded(b) == sobj[b] \in {"none", "bare"} \/ (b \in cleaned /\ c[b] = "idle")

\* Whatever is lost, and whenever the engine restarts.
Life(b) ==
  /\ chan[b] \in {"none", "ringing"} => h[b] = "idle"
  /\ chan[b] = "dialplan" => h[b] \in {"hop", "idle"}
  /\ chan[b] = "none" => c[b] = "idle"
  /\ e[b] # "idle" \/ d[b] # "idle" => chan[b] = "gone"
  /\ spc \in {"mark", "unmark", "originate"} /\ b \in satt
       => chan[b] = "none" /\ leadOf[b] = slead
  /\ sobj[b] # "none" \/ h[b] \in Setup
       => chan[b] \in {"stasis", "gone"} /\ h[b] \in Setup \cup {"idle"}
  /\ h[b] \in {"vars", "ids", "media"} \/ b \in stored => sobj[b] # "none"
  /\ sobj[b] # "none" => b \in stored \cup cleaned
  /\ c[b] # "idle" => b \in stored /\ b \in cleaned
  /\ d[b] = "finish" => Unrecorded(b)

\* As long as no request was lost: what the tick and the cleanup take for done is done.
Lossless(b) == nFaults = 0 =>
  /\ meta[b] = "created" => b \in satt /\ spc \in Placing
  /\ <<b, "created">> \notin todo
  /\ spc \in {"origFail", "origFailLead"} /\ b \in satt => chan[b] = "none"
  /\ spc \in {"mark", "originate"} /\ b \in satt => meta[b] \in Real
  /\ spc \in {"staleFinish", "staleLead"} /\ b \in satt => ~Live(b)
  /\ spc = "staleFinish" /\ b \in satt => Unrecorded(b)
  /\ c[b] \in {"persist", "leadDone", "leadFailed", "remove"} => ~Live(b)

\* After a recorded conversation no task is left that would finish the attempt again,
\* but a walk of the watchdog with a copy of its meta.
Talked(b) == nFaults = 0 /\ outcome[b] = "answered_human" =>
  /\ chan[b] = "gone" /\ h[b] \in Setup \cup {"idle"}
  /\ c[b] \notin {"hang", "persist"} /\ d[b] # "finish"
  /\ b \in cleaned \/ (h[b] = "idle" /\ b \notin stored)
  /\ c[b] \in {"leadDone", "leadFailed"} \/ (meta[b] \notin Real /\ byChan[b] # "tracked")
  /\ spc = "staleFinish" /\ b \in satt => meta[b] \notin Real

\* LiveIsAccounted, for one attempt.
Placed(b) == nFaults = 0 /\ nCrashes = 0 /\ Live(b)
  => meta[b] \in Real \/ b \in stored \/ h[b] = "hang"

CallSound(b) == Life(b) /\ Lossless(b) /\ Talked(b) /\ Placed(b)

\* What hanging a channel up does to any channel.
Hung(b) ==
  /\ chan'[b] = chan[b] \/ (Live(b) /\ chan'[b] = "gone")
  /\ e'[b] = e[b] \/ chan'[b] = "gone"
  /\ d'[b] = d[b] \/ (d'[b] = "event" /\ chan'[b] = "gone")

\* The channel is gone, and its events are on their way.
LEMMA GoneEnds ==
  ASSUME TypeOK, NEW a \in Attempts, Live(a), ChannelGone(a)
  PROVE  ~Live(a)' /\ \A b \in Attempts : Hung(b)
BY DEF TypeOK, ChannelGone, Hung, Live

\* So it is after a hangup request that is not lost.
LEMMA HangupEnds ==
  ASSUME TypeOK, NEW a \in Attempts, HangupChannel(a)
  PROVE  ~Live(a)' /\ \A b \in Attempts : Hung(b)
<1>1. CASE Live(a)
  BY <1>1, GoneEnds DEF HangupChannel
<1>2. CASE ~Live(a)
  BY <1>2 DEF HangupChannel, Hung, Live
<1> QED  BY <1>1, <1>2

\* A lost request is counted.
LEMMA NotLost ==
  ASSUME TypeOK, RequestLost
  PROVE  nFaults' # 0
BY DEF TypeOK, RequestLost

\* The watchdog hangs a channel up whose call has no session.
LEMMA StaleProbeCalls ==
  ASSUME TypeOK, NEW b \in Attempts, CallSound(b), NEW a \in Attempts, NEW kind \in Real,
         StaleProbe(a, kind)
  PROVE  CallSound(b)'
<1>1. /\ spc' = "staleFinish" /\ satt' = {a} /\ spc \in {"sleep", "stale"}
      /\ UNCHANGED <<meta, byChan, amd, stored, sobj, cleaned, awaiting, outcome, c, h, nCrashes>>
      /\ todo' \in SUBSET todo \/ todo' = {<<x, meta[x]>> : x \in InFlight}
      /\ <<a, kind>> \in todo \/ kind = meta[a]
      /\ ~Spared(a, kind)
  BY DEF StaleProbe
<1>2. CASE nFaults' = nFaults /\ kind = "tracked" /\ HangupChannel(a)
  <2>1. ~Live(a)' /\ Hung(b)
    BY <1>2, HangupEnds
  <2>2. Life(b)'
    BY <1>1, <2>1 DEF CallSound, Life, Unrecorded, Setup, Live, Hung, TypeOK
  <2>3. Lossless(b)'
    BY <1>1, <1>2, <2>1 DEF CallSound, Life, Lossless, Unrecorded, Setup, Placing, Live,
        Hung, Spared, TypeOK, InFlight, Real
  <2>4. Talked(b)'
    BY <1>1, <1>2, <2>1 DEF CallSound, Life, Lossless, Talked, Unrecorded, Setup, Placing,
        Live, Hung, Spared, TypeOK, InFlight, Real
  <2>5. Placed(b)'
    BY <1>1, <1>2, <2>1 DEF CallSound, Placed, Live, Hung
  <2> QED  BY <2>2, <2>3, <2>4, <2>5 DEF CallSound
<1>3. CASE nFaults' = nFaults /\ kind # "tracked" /\ UNCHANGED <<chan, e, d>>
  BY <1>1, <1>3 DEF CallSound, Life, Lossless, Talked, Placed, Unrecorded, Setup, Placing,
      Live, TypeOK, InFlight, Real
<1>4. CASE nFaults' # 0 /\ UNCHANGED <<chan, e, d>>
  BY <1>1, <1>4 DEF CallSound, Life, Lossless, Talked, Placed, Unrecorded, Setup, Live,
      TypeOK
<1> QED  BY <1>2, <1>3, <1>4, NotLost DEF StaleProbe

\* The call is placed, refused, or its response lost.
LEMMA OriginateCalls ==
  ASSUME TypeOK, NEW b \in Attempts, CallSound(b), NEW a \in Attempts, Originate(a)
  PROVE  CallSound(b)'
<1>1. /\ spc = "originate" /\ satt = {a} /\ spc' \in {"setChannel", "origFail", "sleep"}
      /\ satt' \in {{a}, {}} /\ (satt' = {a} \/ spc' = "sleep")
      /\ UNCHANGED <<todo, storeVars, mapVars, evVars, awaiting, sessVars, h, hm, c, nCrashes>>
  BY DEF Originate, NextAt, EndTick
<1>2. chan' = [chan EXCEPT ![a] = "ringing"] \/ chan' = chan
  BY DEF Originate, PlaceCall
<1>3. Life(b)'
  BY <1>1, <1>2 DEF CallSound, Life, Unrecorded, Setup, TypeOK
<1>4. \/ nFaults' # 0
      \/ /\ nFaults' = nFaults
         /\ \/ spc' = "setChannel" /\ satt' = {a}
            \/ spc' = "origFail" /\ satt' = {a} /\ chan' = chan
  BY NotLost DEF Originate, NextAt
<1>5. Lossless(b)'
  BY <1>1, <1>2, <1>4 DEF CallSound, Life, Lossless, Unrecorded, Setup, Placing, Live,
      Real, TypeOK
<1>6. Talked(b)'
  BY <1>1, <1>2, <1>4 DEF CallSound, Life, Lossless, Talked, Unrecorded, Setup, Live, TypeOK
<1>7. Placed(b)'
  BY <1>1, <1>2, <1>4 DEF CallSound, Lossless, Placed, Live, TypeOK
<1> QED  BY <1>3, <1>5, <1>6, <1>7 DEF CallSound

\* The channel hops to the AMD dialplan, or is given up.
LEMMA AnsweredContinueCalls ==
  ASSUME TypeOK, NEW b \in Attempts, CallSound(b), NEW a \in Attempts, AnsweredContinue(a)
  PROVE  CallSound(b)'
<1>1. /\ h[a] = "ansCont" /\ spc' = spc /\ satt' = satt /\ nCrashes' = nCrashes
      /\ UNCHANGED <<todo, slead, storeVars, mapVars, evVars, sessVars, c>>
  BY DEF AnsweredContinue
<1>2. CASE /\ chan[a] = "stasis" /\ chan' = [chan EXCEPT ![a] = "dialplan"] /\ Goto(a, "hop")
           /\ nFaults' = nFaults
  BY <1>1, <1>2 DEF TypeOK, CallSound, Life, Lossless, Talked, Placed, Unrecorded, Setup,
      Placing, Real, Live, Goto
<1>3. CASE chan' = chan /\ Goto(a, "contFail") /\ nFaults' = nFaults
  BY <1>1, <1>3 DEF TypeOK, CallSound, Life, Lossless, Talked, Placed, Unrecorded, Setup,
      Placing, Real, Live, Goto
<1>4. CASE chan' = chan /\ Goto(a, "contFail") /\ nFaults' # 0
  BY <1>1, <1>4 DEF TypeOK, CallSound, Life, Lossless, Talked, Placed, Unrecorded, Setup,
      Placing, Real, Live, Goto
<1> QED  BY <1>2, <1>3, <1>4, NotLost DEF AnsweredContinue

\* A handler gives its channel up.
LEMMA HandlerHangupCalls ==
  ASSUME TypeOK, NEW b \in Attempts, CallSound(b), NEW a \in Attempts, HandlerHangup(a)
  PROVE  CallSound(b)'
<1>1. /\ h[a] = "hang" /\ h' = [h EXCEPT ![a] = "idle"] /\ nCrashes' = nCrashes
      /\ UNCHANGED <<schedVars, storeVars, mapVars, sessVars, c>>
  BY DEF HandlerHangup, Return, Goto
<1>2. CASE nFaults' = nFaults /\ HangupChannel(a)
  <2>1. ~Live(a)' /\ Hung(b)
    BY <1>2, HangupEnds
  <2> QED
    BY <1>1, <1>2, <2>1 DEF TypeOK, CallSound, Life, Lossless, Talked, Placed, Unrecorded,
        Setup, Placing, Real, Live, Hung
<1>3. CASE nFaults' # 0 /\ UNCHANGED <<chan, e, d>>
  BY <1>1, <1>3 DEF TypeOK, CallSound, Life, Lossless, Talked, Placed, Unrecorded, Setup,
      Placing, Real, Live
<1> QED  BY <1>2, <1>3, NotLost DEF HandlerHangup

\* The handler goes on to a session only with a channel in Stasis.
LEMMA BridgeCalls ==
  ASSUME TypeOK, NEW b \in Attempts, CallSound(b), NEW a \in Attempts, Bridge(a)
  PROVE  CallSound(b)'
<1>1. /\ h[a] = "bridge" /\ nCrashes' = nCrashes
      /\ UNCHANGED <<schedVars, storeVars, mapVars, sessVars, evVars, chan, c>>
      /\ \/ h' = [h EXCEPT ![a] = "idle"]
         \/ h' = [h EXCEPT ![a] = "save"] /\ chan[a] = "stasis"
      /\ nFaults' = nFaults \/ nFaults' # 0
  BY NotLost DEF Bridge, Goto
<1> QED
  BY <1>1 DEF TypeOK, CallSound, Life, Lossless, Talked, Placed, Unrecorded, Setup,
      Placing, Real, Live

\* The cleanup hangs up first,
LEMMA CleanupHangupCalls ==
  ASSUME TypeOK, NEW b \in Attempts, CallSound(b), NEW a \in Attempts, CleanupHangup(a)
  PROVE  CallSound(b)'
<1>1. /\ c[a] = "hang" /\ c' = [c EXCEPT ![a] = "persist"] /\ nCrashes' = nCrashes
      /\ UNCHANGED <<schedVars, storeVars, mapVars, sessVars, h>>
  BY DEF CleanupHangup
<1>2. CASE nFaults' = nFaults /\ HangupChannel(a)
  <2>1. ~Live(a)' /\ Hung(b)
    BY <1>2, HangupEnds
  <2> QED
    BY <1>1, <1>2, <2>1 DEF TypeOK, CallSound, Life, Lossless, Talked, Placed, Unrecorded,
        Setup, Placing, Real, Live, Hung
<1>3. CASE nFaults' # 0 /\ UNCHANGED <<chan, e, d>>
  BY <1>1, <1>3 DEF TypeOK, CallSound, Life, Lossless, Talked, Placed, Unrecorded, Setup,
      Placing, Real, Live
<1> QED  BY <1>2, <1>3, NotLost DEF CleanupHangup

\* and then records the conversation of a session that knows its attempt.
LEMMA PersistCalls ==
  ASSUME TypeOK, NEW b \in Attempts, CallSound(b), NEW a \in Attempts, Persist(a)
  PROVE  CallSound(b)'
<1>1. /\ c[a] = "persist" /\ nCrashes' = nCrashes
      /\ UNCHANGED <<schedVars, leadVars, mapVars, sessVars, chan, h, evVars>>
  BY DEF Persist
<1>2. CASE /\ sobj[a] = "full" /\ nFaults' = nFaults
           /\ FinishAttempt(a, "answered_human") /\ c' = [c EXCEPT ![a] = "leadDone"]
  BY <1>1, <1>2 DEF FinishAttempt, TypeOK, StoreTypeOK, CallSound, Life, Lossless, Talked,
      Placed, Unrecorded, Setup, Placing, Real, Live
<1>3. CASE /\ nFaults' = nFaults
           /\ FinishAttempt(a, "error") /\ c' = [c EXCEPT ![a] = "leadFailed"]
  BY <1>1, <1>3 DEF FinishAttempt, TypeOK, StoreTypeOK, CallSound, Life, Lossless, Talked,
      Placed, Unrecorded, Setup, Placing, Real, Live
<1>4. CASE /\ nFaults' = nFaults \/ nFaults' # 0
           /\ UNCHANGED rowVars /\ c' = [c EXCEPT ![a] = "remove"]
  BY <1>1, <1>4 DEF TypeOK, CallSound, Life, Lossless, Talked, Placed, Unrecorded, Setup,
      Placing, Real, Live
<1> QED  BY <1>2, <1>3, <1>4, NotLost DEF Persist

\* The other steps of the scheduler task.
LEMMA SchedulerCalls ==
  ASSUME TypeOK, NEW b \in Attempts, Sound(b), CallSound(b),
         Scheduler
  PROVE  CallSound(b)'
<1>. USE DEF TypeOK, StoreTypeOK, CallSound, Life, Lossless, Talked, Placed, Unrecorded,
    Setup, Placing, Real, Live
<1>1. CASE BeginTick
  BY <1>1 DEF BeginTick, EndTick
<1>2. CASE LeaseNothing
  BY <1>2 DEF LeaseNothing, EndTick, NextAt
<1>3. CASE ReadStats
  BY <1>3 DEF ReadStats, NextAt, EndTick
<1>4. CASE MarkCompleted
  BY <1>4 DEF MarkCompleted, SetCampaignStatus, EndTick
<1>5. CASE Mark
  BY <1>5 DEF Mark, NextAt
<1>6. ASSUME NEW l \in Leads, Lease(l) PROVE CallSound(b)'
  BY <1>6 DEF Lease
<1>7. ASSUME NEW a \in Attempts, NEW kind \in Real, StaleProbe(a, kind) PROVE CallSound(b)'
  BY <1>7, StaleProbeCalls
<1>8. ASSUME NEW a \in Attempts, NEW kind \in Real, StaleLead(a, kind) PROVE CallSound(b)'
  BY <1>8 DEF StaleLead
<1>9. ASSUME NEW a \in Attempts, StaleFinish(a) PROVE CallSound(b)'
  BY <1>9 DEF StaleFinish, FinishAttempt
<1>10. ASSUME NEW a \in Attempts, Create(a) PROVE CallSound(b)'
  BY <1>10 DEF Create, Sound, Untouched, CreateAttempt, Unused
<1>11. ASSUME NEW a \in Attempts, Unmark(a) PROVE CallSound(b)'
  BY <1>11 DEF Unmark, FinishAttempt, EndTick
<1>12. ASSUME NEW a \in Attempts, Originate(a) PROVE CallSound(b)'
  BY <1>12, OriginateCalls
<1>13. ASSUME NEW a \in Attempts, SetChannel(a) PROVE CallSound(b)'
  BY <1>13 DEF SetChannel, Rebuilt, EndTick
<1>14. ASSUME NEW a \in Attempts, OriginateFailed(a) PROVE CallSound(b)'
  BY <1>14 DEF OriginateFailed, FinishAttempt
<1>15. ASSUME NEW a \in Attempts, OriginateFailedLead(a) PROVE CallSound(b)'
  BY <1>15 DEF OriginateFailedLead, EndTick
<1>. HIDE DEF TypeOK, StoreTypeOK, CallSound, Life, Lossless, Talked, Placed, Unrecorded,
    Setup, Placing, Real, Live
<1>. QED  BY <1>1, <1>2, <1>3, <1>4, <1>5, <1>6, <1>7, <1>8, <1>9, <1>10, <1>11, <1>12,
    <1>13, <1>14, <1>15 DEF Scheduler

\* The other steps of the StasisStart handlers.
LEMMA HandlerCalls ==
  ASSUME TypeOK, NEW b \in Attempts, Sound(b), CallSound(b),
         \E a \in Attempts : Handler(a)
  PROVE  CallSound(b)'
<1>. USE DEF TypeOK, StoreTypeOK, CallSound, Life, Lossless, Talked, Placed, Unrecorded,
    Setup, Placing, Real, Live
<1>1. ASSUME NEW a \in Attempts, AnsweredBegin(a) PROVE CallSound(b)'
  BY <1>1 DEF AnsweredBegin, Goto
<1>2. ASSUME NEW a \in Attempts, AnsweredLead(a) PROVE CallSound(b)'
  BY <1>2 DEF AnsweredLead, Goto
<1>3. ASSUME NEW a \in Attempts, AnsweredContinue(a) PROVE CallSound(b)'
  BY <1>3, AnsweredContinueCalls
<1>4. ASSUME NEW a \in Attempts, ContinueFailed(a) PROVE CallSound(b)'
  BY <1>4 DEF ContinueFailed, Goto, FinishAttempt
<1>5. ASSUME NEW a \in Attempts, ContinueFailedLead(a) PROVE CallSound(b)'
  BY <1>5 DEF ContinueFailedLead, Goto
<1>6. ASSUME NEW a \in Attempts, HandlerHangup(a) PROVE CallSound(b)'
  BY <1>6, HandlerHangupCalls
<1>7. ASSUME NEW a \in Attempts, AmdBegin(a) PROVE CallSound(b)'
  BY <1>7 DEF AmdBegin, Goto
<1>8. ASSUME NEW a \in Attempts, MachineFinish(a) PROVE CallSound(b)'
  BY <1>8 DEF MachineFinish, Verdict, FinishAttempt, Goto, VmEnabled, OrDefault
<1>9. ASSUME NEW a \in Attempts, MachineLead(a) PROVE CallSound(b)'
  BY <1>9 DEF MachineLead, VerdictLead, DropMaps, Goto
<1>10. ASSUME NEW a \in Attempts, ConsentFinish(a) PROVE CallSound(b)'
  BY <1>10 DEF ConsentFinish, Verdict, FinishAttempt, Goto
<1>11. ASSUME NEW a \in Attempts, ConsentLead(a) PROVE CallSound(b)'
  BY <1>11 DEF ConsentLead, VerdictLead, DropMaps, Goto
<1>12. ASSUME NEW a \in Attempts, HumanLead(a) PROVE CallSound(b)'
  BY <1>12 DEF HumanLead, Goto
<1>13. ASSUME NEW a \in Attempts, Bridge(a) PROVE CallSound(b)'
  BY <1>13, BridgeCalls
<1>14. ASSUME NEW a \in Attempts, SaveSession(a) PROVE CallSound(b)'
  BY <1>14 DEF SaveSession, Goto
<1>15. ASSUME NEW a \in Attempts, ReadCampaign(a) PROVE CallSound(b)'
  BY <1>15 DEF ReadCampaign, ReadVar, Goto
<1>16. ASSUME NEW a \in Attempts, ReadAttempt(a) PROVE CallSound(b)'
  BY <1>16 DEF ReadAttempt, ReadVar, Goto
<1>17. ASSUME NEW a \in Attempts, StartMedia(a) PROVE CallSound(b)'
  BY <1>17 DEF StartMedia, StartCleanup, Goto
<1>. QED  BY <1>1, <1>2, <1>3, <1>4, <1>5, <1>6, <1>7, <1>8, <1>9, <1>10, <1>11, <1>12,
    <1>13, <1>14, <1>15, <1>16, <1>17 DEF Handler

\* The other steps of the end of a call.
LEMMA TeardownCalls ==
  ASSUME TypeOK, NEW b \in Attempts, Sound(b), CallSound(b),
         \E a \in Attempts : Teardown(a)
  PROVE  CallSound(b)'
<1>. USE DEF TypeOK, StoreTypeOK, CallSound, Life, Lossless, Talked, Placed, Unrecorded,
    Setup, Placing, Real, Live
<1>1. ASSUME NEW a \in Attempts, CleanupHangup(a) PROVE CallSound(b)'
  BY <1>1, CleanupHangupCalls
<1>2. ASSUME NEW a \in Attempts, Persist(a) PROVE CallSound(b)'
  BY <1>2, PersistCalls
<1>3. ASSUME NEW a \in Attempts, PersistLead(a) PROVE CallSound(b)'
  BY <1>3 DEF PersistLead, DropMaps
<1>4. ASSUME NEW a \in Attempts, RemoveSession(a) PROVE CallSound(b)'
  BY <1>4 DEF RemoveSession
<1>5. ASSUME NEW a \in Attempts, StasisEnd(a) PROVE CallSound(b)'
  BY <1>5 DEF StasisEnd, Clean, CanClean, StartCleanup
<1>6. ASSUME NEW a \in Attempts, DestroyedBegin(a) PROVE CallSound(b)'
  BY <1>6 DEF DestroyedBegin, Untalked
<1>7. ASSUME NEW a \in Attempts, DestroyedFinish(a) PROVE CallSound(b)'
  BY <1>7 DEF DestroyedFinish, FinishAttempt
<1>8. ASSUME NEW a \in Attempts, DestroyedLead(a) PROVE CallSound(b)'
  BY <1>8 DEF DestroyedLead, DropMaps
<1>9. ASSUME NEW a \in Attempts, DestroyedCleanup(a) PROVE CallSound(b)'
  BY <1>9 DEF DestroyedCleanup, Clean, CanClean, StartCleanup
<1>. QED  BY <1>1, <1>2, <1>3, <1>4, <1>5, <1>6, <1>7, <1>8, <1>9 DEF Teardown

\* Channels, lease expiry, crashes, restarts and connection drops.
LEMMA EnvironmentCalls ==
  ASSUME TypeOK, NEW b \in Attempts, Sound(b), CallSound(b),
         \/ \E a \in Attempts : Answer(a) \/ AmdReturns(a) \/ HangUp(a)
         \/ LeaseTimeout \/ Crash \/ Start \/ WsDrop \/ WsReconnect
  PROVE  CallSound(b)'
<1>. USE DEF TypeOK, StoreTypeOK, CallSound, Life, Lossless, Talked, Placed, Unrecorded,
    Setup, Placing, Real, Live
<1>1. ASSUME NEW a \in Attempts, Answer(a) PROVE CallSound(b)'
  BY <1>1 DEF Answer, Goto, ChannelGone
<1>2. ASSUME NEW a \in Attempts, AmdReturns(a) PROVE CallSound(b)'
  BY <1>2, DialerAssumption DEF AmdReturns, Goto, ChannelGone
<1>3. ASSUME NEW a \in Attempts, HangUp(a) PROVE CallSound(b)'
  BY <1>3 DEF HangUp, ChannelGone
<1>4. CASE LeaseTimeout
  BY <1>4 DEF LeaseTimeout, LeaseExpires
<1>5. CASE Crash
  BY <1>5 DEF Crash
<1>6. CASE Start
  BY <1>6 DEF Start, CleanupStale, Open
<1>7. CASE WsDrop
  BY <1>7 DEF WsDrop
<1>8. CASE WsReconnect
  BY <1>8 DEF WsReconnect
<1>. QED  BY <1>1, <1>2, <1>3, <1>4, <1>5, <1>6, <1>7, <1>8

\* The operator touches no channel, task, session or meta.
LEMMA OperatorCalls ==
  ASSUME TypeOK, NEW b \in Attempts, CallSound(b), Operator
  PROVE  CallSound(b)'
BY DEF CallSound, Life, Lossless, Talked, Placed, Unrecorded, Setup, Placing, Real, Live,
    Operator, RequestStart, RequestArchive, RequestDelete, Request, OpStart, OpArchive,
    OpStatus, OpAsked, OpPlain, Op, SetCampaignStatus, OpCancel, CancelLead, OpIgnore,
    IgnoreLead, OpDelete, DeleteLead, OpRecycle, RecycleLead, OpImport, ImportLead

LEMMA StepCalls ==
  ASSUME IInv, \A b \in Attempts : CallSound(b), [Next]_vars
  PROVE  \A b \in Attempts : CallSound(b)'
<1>. SUFFICES ASSUME NEW b \in Attempts PROVE CallSound(b)'
  OBVIOUS
<1>. TypeOK /\ Sound(b) /\ CallSound(b)
  BY DEF IInv, Accounted
<1>1. CASE Scheduler  BY <1>1, SchedulerCalls
<1>2. CASE Operator   BY <1>2, OperatorCalls
<1>3. CASE \E a \in Attempts : Handler(a)   BY <1>3, HandlerCalls
<1>4. CASE \E a \in Attempts : Teardown(a)  BY <1>4, TeardownCalls
<1>5. CASE \/ \E a \in Attempts : Answer(a) \/ AmdReturns(a) \/ HangUp(a)
           \/ LeaseTimeout \/ Crash \/ Start \/ WsDrop \/ WsReconnect
  BY <1>5, EnvironmentCalls
<1>6. CASE UNCHANGED vars
  BY <1>6 DEF vars, CallSound, Life, Lossless, Talked, Placed, Unrecorded, Live
<1>. QED  BY <1>1, <1>2, <1>3, <1>4, <1>5, <1>6 DEF Next

THEOREM CallsSound == Spec => [](IInv /\ \A b \in Attempts : CallSound(b))
<1>. DEFINE Calls == \A b \in Attempts : CallSound(b)
<1>1. Init => Calls
  BY DEF Init, StoreInit, CallSound, Life, Lossless, Talked, Placed, Unrecorded, Setup, Live
<1>2. IInv /\ Calls /\ [Next]_vars => Calls'
  BY StepCalls
<1>. QED  BY <1>1, <1>2, InductiveInvariant, PTL DEF Spec

\* A channel that exists while no request was lost and the engine was not restarted is in
\* flight, has a session, or is about to be hung up by the handler that gave it up:
\* whatever drops a meta or a session hangs the channel up before, or does so next.
THEOREM LiveIsAccountedHolds == Spec => []LiveIsAccounted
<1>1. ASSUME NEW a \in Attempts, CallSound(a), nCrashes = 0, nFaults = 0, Live(a)
      PROVE  a \in InFlight \cup stored \/ h[a] = "hang"
  BY <1>1 DEF CallSound, Placed, InFlight
<1>2. (\A b \in Attempts : CallSound(b)) => LiveIsAccounted
  BY <1>1 DEF LiveIsAccounted
<1>. QED  BY <1>2, CallsSound, PTL

\* Of all steps that finish an attempt only the watchdog's, on a stale copy, may follow
\* the recording of a conversation.
LEMMA OutcomeStays ==
  ASSUME TypeOK, NEW b \in Attempts, CallSound(b), [Next]_vars,
         outcome[b] = "answered_human", nFaults = 0, ~StaleCopy(b)
  PROVE  outcome'[b] = "answered_human"
<1>. USE DEF TypeOK, StoreTypeOK
<1>1. /\ chan[b] = "gone" /\ h[b] \in Setup \cup {"idle"}
      /\ c[b] # "persist" /\ d[b] # "finish"
      /\ spc \in {"unmark", "origFail"} => b \notin satt
      /\ spc = "staleFinish" => b \notin satt
  BY DEF CallSound, Life, Lossless, Talked, StaleCopy, InFlight
<1>2. CASE Scheduler
  <2>1. ASSUME NEW a \in Attempts, StaleFinish(a) \/ Unmark(a) \/ OriginateFailed(a)
        PROVE  outcome'[b] = "answered_human"
    <3>1. a # b  BY <1>1, <2>1 DEF StaleFinish, Unmark, OriginateFailed
    <3>. QED  BY <2>1, <3>1 DEF StaleFinish, Unmark, OriginateFailed, FinishAttempt
  <2>2. ASSUME NEW a \in Attempts, NEW kind \in Real, StaleProbe(a, kind) \/ StaleLead(a, kind)
        PROVE  UNCHANGED outcome
    BY <2>2 DEF StaleProbe, StaleLead
  <2>3. ASSUME NEW a \in Attempts, \/ Create(a) \/ Originate(a) \/ SetChannel(a)
                                   \/ OriginateFailedLead(a)
        PROVE  UNCHANGED outcome
    BY <2>3 DEF Create, CreateAttempt, Originate, SetChannel, OriginateFailedLead
  <2>4. CASE \/ BeginTick \/ LeaseNothing \/ ReadStats \/ MarkCompleted \/ Mark
             \/ \E l \in Leads : Lease(l)
    BY <2>4 DEF BeginTick, LeaseNothing, ReadStats, MarkCompleted, SetCampaignStatus, Mark,
         Lease
  <2>. QED  BY <1>2, <2>1, <2>2, <2>3, <2>4 DEF Scheduler
<1>3. CASE Operator
  BY <1>3 DEF Operator, RequestStart, RequestArchive, RequestDelete, Request, OpStart,
       OpArchive, OpStatus, OpAsked, OpPlain, SetCampaignStatus, OpCancel, CancelLead,
       OpIgnore, IgnoreLead, OpDelete, DeleteLead, OpRecycle, RecycleLead, OpImport,
       ImportLead
<1>4. ASSUME NEW a \in Attempts, Handler(a) PROVE outcome'[b] = "answered_human"
  BY <1>1, <1>4 DEF Setup, Handler, AnsweredBegin, AnsweredLead, AnsweredContinue,
       ContinueFailed, ContinueFailedLead, HandlerHangup, AmdBegin, MachineFinish,
       ConsentFinish, Verdict, FinishAttempt, MachineLead, ConsentLead, VerdictLead,
       HumanLead, Bridge, SaveSession, ReadCampaign, ReadAttempt, ReadVar, StartMedia
<1>5. ASSUME NEW a \in Attempts, Teardown(a) PROVE outcome'[b] = "answered_human"
  BY <1>1, <1>5 DEF Teardown, CleanupHangup, Persist, FinishAttempt, PersistLead,
       RemoveSession, StasisEnd, DestroyedBegin, DestroyedFinish, DestroyedLead,
       DestroyedCleanup
<1>6. ASSUME NEW a \in Attempts, Answer(a) \/ AmdReturns(a) \/ HangUp(a)
      PROVE  outcome'[b] = "answered_human"
  BY <1>6 DEF Answer, AmdReturns, HangUp
<1>7. CASE LeaseTimeout \/ Crash \/ Start \/ WsDrop \/ WsReconnect
  BY <1>7 DEF LeaseTimeout, LeaseExpires, Crash, Start, CleanupStale, WsDrop, WsReconnect
<1>8. CASE UNCHANGED vars
  BY <1>8 DEF vars
<1>. QED  BY <1>2, <1>3, <1>4, <1>5, <1>6, <1>7, <1>8 DEF Next

\* What a conversation recorded stays recorded, unless a request was lost or the watchdog
\* walks a copy of its metas: no interleaving of hang-ups, verdicts, failed originates,
\* cleanups of one call and restarts of the engine finishes the attempt a second time.
THEOREM HumanOutcomeKeptHolds == Spec => HumanOutcomeKept
<1>1. IInv /\ (\A b \in Attempts : CallSound(b)) /\ [Next]_vars
        => [\A a \in Attempts : outcome[a] = "answered_human" /\ nFaults = 0 /\ ~StaleCopy(a)
              => outcome'[a] = "answered_human"]_vars
  BY OutcomeStays DEF IInv
<1>. QED  BY <1>1, CallsSound, PTL DEF Spec, HumanOutcomeKept
-----------------------------------------------------------------------------
(* Nobody is called twice by the dialer itself *)

\* The lead may still be taken in hand to be called.
Waiting(l) == leadState[l] \in {"absent", "pending", "leased"}
\* A tick has it in hand.
Calling(l) == spc = "originate" /\ slead = l
One(p) == IF p THEN 1 ELSE 0

\* Each call, the one being placed and the one that may come use up the first and one
\* more for every time the lead was recycled.
Chances(l) == Cardinality(Dialed(l)) + One(Waiting(l)) + One(Calling(l)) <= 1 + recycled[l]

\* A step that calls nobody and lets no lead wait again.
NobodyCalled ==
  \A l \in Leads : /\ Waiting(l)' => Waiting(l)
                   /\ Calling(l)' => Calling(l)
                   /\ recycled'[l] = recycled[l]

LEMMA DialedFinite ==
  ASSUME NEW l \in Leads
  PROVE  IsFiniteSet(Dialed(l)) /\ Cardinality(Dialed(l)) \in Nat
<1>1. Dialed(l) \subseteq Attempts  BY DEF Dialed
<1>. QED  BY <1>1, StoreAssumption, FS_Subset, FS_CardinalityType

\* A hangup request creates no channel and forgets none.
LEMMA HangupStays ==
  ASSUME TypeOK, NEW a \in Attempts, HangupChannel(a) \/ UNCHANGED <<chan, evVars>>
  PROVE  \A b \in Attempts : chan'[b] = "none" <=> chan[b] = "none"
BY DEF TypeOK, HangupChannel, ChannelGone, Live

\* A channel is created by Originate only, and a row gets its lead before that.
Kept(b) == /\ chan'[b] = "none" <=> chan[b] = "none"
           /\ chan[b] # "none" => leadOf'[b] = leadOf[b]

LEMMA ChannelsKept ==
  ASSUME TypeOK, \A b \in Attempts : Sound(b), Next, \A a \in Attempts : ~Originate(a)
  PROVE  \A b \in Attempts : Kept(b)
<1>1. ASSUME NEW a \in Attempts, NEW kind \in Real, StaleProbe(a, kind)
      PROVE  \A b \in Attempts : Kept(b)
  <2>1. (HangupChannel(a) \/ UNCHANGED <<chan, evVars>>) /\ UNCHANGED leadOf
    BY <1>1 DEF StaleProbe
  <2>. QED  BY <2>1, HangupStays DEF Kept
<1>2. ASSUME NEW a \in Attempts, Create(a) PROVE \A b \in Attempts : Kept(b)
  <2>1. chan[a] = "none"  BY <1>2 DEF Create, CreateAttempt, Unused, Sound, Untouched
  <2>. QED  BY <1>2, <2>1 DEF Create, CreateAttempt, Kept, TypeOK, StoreTypeOK
<1>3. CASE Scheduler
  BY ZenonT(60), <1>1, <1>2, <1>3 DEF Kept, Scheduler, BeginTick, LeaseNothing, ReadStats, MarkCompleted,
       SetCampaignStatus, Mark, Lease, StaleLead, StaleFinish, Unmark, SetChannel,
       OriginateFailed, OriginateFailedLead, FinishAttempt
<1>4. CASE Operator
  BY <1>4 DEF Kept, Operator, RequestStart, RequestArchive, RequestDelete, Request, OpStart,
       OpArchive, OpStatus, OpAsked, OpPlain, Op, SetCampaignStatus, OpCancel, CancelLead,
       OpIgnore, IgnoreLead, OpDelete, DeleteLead, OpRecycle, RecycleLead, OpImport,
       ImportLead
<1>5. ASSUME NEW a \in Attempts, AnsweredContinue(a) PROVE \A b \in Attempts : Kept(b)
  <2>1. /\ \/ chan[a] = "stasis" /\ chan' = [chan EXCEPT ![a] = "dialplan"]
           \/ chan' = chan
        /\ UNCHANGED leadOf
    BY <1>5 DEF AnsweredContinue
  <2>. QED  BY <2>1 DEF Kept, TypeOK
<1>6. ASSUME NEW a \in Attempts, HandlerHangup(a) \/ CleanupHangup(a)
      PROVE  \A b \in Attempts : Kept(b)
  <2>1. (HangupChannel(a) \/ UNCHANGED <<chan, evVars>>) /\ UNCHANGED leadOf
    BY <1>6 DEF HandlerHangup, CleanupHangup
  <2>. QED  BY <2>1, HangupStays DEF Kept
<1>7. ASSUME NEW a \in Attempts, Handler(a) PROVE \A b \in Attempts : Kept(b)
  BY <1>5, <1>6, <1>7 DEF Kept, Handler, AnsweredBegin, AnsweredLead, ContinueFailed,
       ContinueFailedLead, AmdBegin, MachineFinish, Verdict, MachineLead, VerdictLead,
       ConsentFinish, ConsentLead, HumanLead, Bridge, SaveSession, ReadCampaign, ReadVar,
       ReadAttempt, StartMedia, FinishAttempt
<1>8. ASSUME NEW a \in Attempts, Teardown(a) PROVE \A b \in Attempts : Kept(b)
  BY <1>6, <1>8 DEF Kept, Teardown, Persist, PersistLead, RemoveSession, StasisEnd,
       DestroyedBegin, DestroyedFinish, DestroyedLead, DestroyedCleanup, FinishAttempt
<1>9. ASSUME NEW a \in Attempts, Answer(a) \/ AmdReturns(a) \/ HangUp(a)
      PROVE  \A b \in Attempts : Kept(b)
  BY <1>9 DEF Kept, Answer, AmdReturns, HangUp, ChannelGone, Live, TypeOK
<1>10. CASE LeaseTimeout \/ Crash \/ Start \/ WsDrop \/ WsReconnect
  BY <1>10 DEF Kept, LeaseTimeout, LeaseExpires, Crash, Start, CleanupStale, WsDrop,
       WsReconnect
<1>. QED  BY <1>3, <1>4, <1>7, <1>8, <1>9, <1>10 DEF Next

\* Only Mark takes a lead in hand to be called, and only a recycling lets it wait again:
\* no handler, cleanup or restart sets a lead back to "pending" or "leased".
LEMMA MostStepsCallNobody ==
  ASSUME TypeOK, Next, ~Mark, \A l \in Leads : ~OpRecycle(l),
         \A a \in Attempts : ~Originate(a)
  PROVE  NobodyCalled
<1>. USE DEF TypeOK, StoreTypeOK, NobodyCalled, Waiting, Calling
<1>1. CASE Scheduler
  <2>1. CASE BeginTick \/ LeaseNothing \/ ReadStats
    BY <2>1 DEF BeginTick, LeaseNothing, ReadStats, NextAt, EndTick
  <2>2. CASE MarkCompleted
    BY <2>2 DEF MarkCompleted, SetCampaignStatus, EndTick
  <2>3. ASSUME NEW l \in Leads, Lease(l) PROVE NobodyCalled
    BY <2>3 DEF Lease, LeasePendingLead, Leasable
  <2>4. ASSUME NEW a \in Attempts, NEW kind \in Real, StaleProbe(a, kind) PROVE NobodyCalled
    <3>1. UNCHANGED <<leadState, recycled>> /\ spc' = "staleFinish"
      BY <2>4 DEF StaleProbe
    <3>. QED  BY <3>1
  <2>5. ASSUME NEW a \in Attempts, NEW kind \in Real, StaleLead(a, kind) PROVE NobodyCalled
    BY <2>5 DEF StaleLead, SetLeadState
  <2>6. ASSUME NEW a \in Attempts,
               StaleFinish(a) \/ Create(a) \/ Unmark(a) \/ SetChannel(a) \/ OriginateFailed(a)
        PROVE  NobodyCalled
    BY <2>6 DEF StaleFinish, Create, Unmark, SetChannel, OriginateFailed, EndTick
  <2>7. ASSUME NEW a \in Attempts, OriginateFailedLead(a) PROVE NobodyCalled
    BY <2>7 DEF OriginateFailedLead, SetLeadState, EndTick
  <2>. QED  BY <1>1, <2>1, <2>2, <2>3, <2>4, <2>5, <2>6, <2>7 DEF Scheduler
<1>2. CASE Operator
  BY <1>2 DEF Operator, RequestStart, RequestArchive, RequestDelete, Request, OpStart,
       OpArchive, OpStatus, OpAsked, OpPlain, Op, SetCampaignStatus, OpCancel, CancelLead,
       OpIgnore, IgnoreLead, OpDelete, DeleteLead, OpImport, ImportLead
<1>3. ASSUME NEW a \in Attempts, Handler(a) PROVE NobodyCalled
  BY <1>3 DEF Handler, AnsweredBegin, AnsweredLead, AnsweredContinue, ContinueFailed,
       ContinueFailedLead, HandlerHangup, AmdBegin, MachineFinish, Verdict, MachineLead,
       VerdictLead, ConsentFinish, ConsentLead, HumanLead, Bridge, SaveSession,
       ReadCampaign, ReadVar, ReadAttempt, StartMedia, SetLeadState
<1>4. ASSUME NEW a \in Attempts, Teardown(a) PROVE NobodyCalled
  BY <1>4 DEF Teardown, CleanupHangup, Persist, PersistLead, RemoveSession, StasisEnd,
       DestroyedBegin, DestroyedFinish, DestroyedLead, DestroyedCleanup, SetLeadState
<1>5. ASSUME NEW a \in Attempts, Answer(a) \/ AmdReturns(a) \/ HangUp(a) PROVE NobodyCalled
  BY <1>5 DEF Answer, AmdReturns, HangUp
<1>6. CASE LeaseTimeout \/ Crash \/ Start \/ WsDrop \/ WsReconnect
  BY <1>6 DEF LeaseTimeout, LeaseExpires, Crash, Start, CleanupStale, WsDrop, WsReconnect
<1>. QED  BY <1>1, <1>2, <1>3, <1>4, <1>5, <1>6 DEF Next

\* A step that creates no channel leaves the dialed attempts of every lead alone.
LEMMA DialedStays ==
  ASSUME NEW l \in Leads, \A b \in Attempts : Kept(b)
  PROVE  Dialed(l)' = Dialed(l)
BY DEF Dialed, Kept

LEMMA StepChances ==
  ASSUME TypeOK, \A b \in Attempts : Sound(b) /\ Life(b), [Next]_vars,
         NEW l \in Leads, Chances(l)
  PROVE  Chances(l)'
<1>. DEFINE Size == Cardinality(Dialed(l))
<1>1. Size \in Nat /\ recycled[l] \in Nat
  BY DialedFinite DEF TypeOK
<1>2. One(Waiting(l)) \in 0..1 /\ One(Waiting(l)') \in 0..1
  BY DEF One
<1>3. One(Calling(l)) \in 0..1 /\ One(Calling(l)') \in 0..1
  BY DEF One
<1>4. ASSUME NEW a \in Attempts, Originate(a) PROVE Chances(l)'
  <2>1. /\ spc = "originate" /\ leadOf' = leadOf /\ leadState' = leadState
        /\ recycled' = recycled /\ spc' # "originate"
        /\ chan' = [chan EXCEPT ![a] = "ringing"] \/ chan' = chan
        /\ leadOf[a] = slead /\ chan[a] = "none"
    BY <1>4 DEF Originate, PlaceCall, NextAt, EndTick, Life
  <2>2. One(Waiting(l)') = One(Waiting(l)) /\ ~Calling(l)'
    BY <2>1 DEF Waiting, Calling
  <2>3. CASE Dialed(l)' = Dialed(l)
    BY <1>1, <1>2, <1>3, <2>1, <2>2, <2>3 DEF Chances, One
  <2>4. CASE Dialed(l)' = Dialed(l) \cup {a} /\ slead = l /\ a \notin Dialed(l)
    <3>1. Cardinality(Dialed(l)') = Size + 1
      BY <2>4, DialedFinite, FS_AddElement
    <3>. QED  BY <1>1, <1>2, <2>1, <2>2, <2>4, <3>1 DEF Chances, One, Calling
  <2>. QED  BY <2>1, <2>3, <2>4 DEF Dialed, TypeOK
<1>5. CASE Next /\ \A a \in Attempts : ~Originate(a)
  <2>1. Dialed(l)' = Dialed(l)
    BY <1>5, ChannelsKept, DialedStays
  <2>2. CASE Mark
    <3>1. Calling(l)' => Waiting(l) /\ ~Waiting(l)'
      BY <2>2 DEF Mark, MarkLeadDialing, NextAt, Calling, Waiting, TypeOK, StoreTypeOK
    <3>2. Waiting(l)' => Waiting(l)
      BY <2>2 DEF Mark, MarkLeadDialing, Waiting, TypeOK, StoreTypeOK
    <3>3. recycled' = recycled  BY <2>2 DEF Mark
    <3>. QED  BY <1>1, <2>1, <3>1, <3>2, <3>3 DEF Chances, One
  <2>3. ASSUME NEW k \in Leads, OpRecycle(k) PROVE Chances(l)'
    <3>1. /\ recycled' = [recycled EXCEPT ![k] = @ + 1] /\ spc' = spc /\ slead' = slead
          /\ leadState' = [leadState EXCEPT ![k] = "pending"]
      BY <2>3 DEF OpRecycle, OpPlain, Op, RecycleLead
    <3>2. One(Calling(l)') = One(Calling(l))  BY <3>1 DEF Calling
    <3>3. CASE k = l
      <4>1. recycled'[l] = recycled[l] + 1  BY <3>1, <3>3 DEF TypeOK
      <4>. QED  BY <1>1, <1>2, <1>3, <2>1, <3>2, <4>1 DEF Chances
    <3>4. CASE k # l
      <4>1. recycled'[l] = recycled[l] /\ One(Waiting(l)') = One(Waiting(l))
        BY <3>1, <3>4 DEF Waiting, TypeOK, StoreTypeOK
      <4>. QED  BY <2>1, <3>2, <4>1 DEF Chances
    <3>. QED  BY <3>3, <3>4
  <2>4. CASE ~Mark /\ \A k \in Leads : ~OpRecycle(k)
    <3>1. NobodyCalled  BY <1>5, <2>4, MostStepsCallNobody
    <3>. QED  BY <1>1, <2>1, <3>1 DEF NobodyCalled, Chances, One
  <2>. QED  BY <2>2, <2>3, <2>4
<1>6. CASE UNCHANGED vars
  BY <1>6 DEF vars, Chances, Dialed, Waiting, Calling
<1>. QED  BY <1>4, <1>5, <1>6

\* A lead is called once, and once more for each time the operator recycled it: leases
\* that expire, failed originates, lost answers, restarts and the stale walk never make
\* the dialer call somebody again by itself.
THEOREM NoAutomaticRetryHolds == Spec => []NoAutomaticRetry
<1>1. Init => \A l \in Leads : Chances(l)
  <2>. SUFFICES ASSUME Init, NEW l \in Leads PROVE Chances(l)  OBVIOUS
  <2>1. Dialed(l) = {}  BY DEF Init, Dialed
  <2>2. Cardinality(Dialed(l)) = 0 /\ recycled[l] = 0 /\ ~Calling(l)
    BY <2>1, FS_EmptySet DEF Init, Calling
  <2>. QED  BY <2>2 DEF Chances, One
<1>2. IInv /\ (\A b \in Attempts : CallSound(b)) /\ (\A l \in Leads : Chances(l)) /\ [Next]_vars
        => (\A l \in Leads : Chances(l))'
  BY StepChances DEF IInv, Accounted, CallSound
<1>3. IInv /\ (\A l \in Leads : Chances(l)) => NoAutomaticRetry
  <2>. SUFFICES ASSUME TypeOK, NEW l \in Leads, Chances(l)
                PROVE  Cardinality(Dialed(l)) <= 1 + recycled[l]
    BY DEF IInv, NoAutomaticRetry
  <2>. QED  BY DialedFinite DEF Chances, One, TypeOK
<1>. QED  BY <1>1, <1>2, <1>3, CallsSound, PTL DEF Spec
=============================================================================
