--------------------------- MODULE OutboundStore ---------------------------
(***************************************************************************)
(* The outbound tables of src/core/outbound_store.py for ONE campaign: its *)
(* status, its leads and the attempts made on them.  Every action below is *)
(* one SQL transaction of the store, so one atomic step of its caller.     *)
(*                                                                         *)
(* Abstracted: wall-clock columns (a lease is live or expired, never a     *)
(* date), the order in which pending leads are taken (created_at ties are  *)
(* common, an import stamps a whole file), phone numbers, names, context,  *)
(* AMD and consent columns, and the ari_channel_id column, which only the  *)
(* Admin UI reads.                                                         *)
(***************************************************************************)
EXTENDS FiniteSets

CONSTANTS
  Leads,     (* ids of the rows a campaign may have in outbound_leads       *)
  Attempts,  (* ids of the rows outbound_attempts may ever get              *)
  NoLead     (* "no lead": the lead of an attempt id not used yet           *)

ASSUME StoreAssumption ==
  /\ NoLead \notin Leads
  /\ IsFiniteSet(Attempts)

VARIABLES
  status,     (* outbound_campaigns.status                                  *)
  leadState,  (* outbound_leads.state; "absent" before the row is imported, *)
              (* "deleted" after it has been removed                        *)
  lease,      (* outbound_leads.leased_until_utc: "null", "live", "expired" *)
  attempt,    (* "none" (id unused), "open" (ended_at NULL), "ended",       *)
              (* "deleted" (row removed with its lead or by a reset)        *)
  outcome,    (* outbound_attempts.outcome                                  *)
  leadOf      (* outbound_attempts.lead_id; kept after the row is deleted   *)

storeVars == <<status, leadState, lease, attempt, outcome, leadOf>>
leadVars  == <<leadState, lease>>
rowVars   == <<attempt, outcome, leadOf>>

Statuses   == {"draft", "running", "paused", "stopped", "archived", "completed"}
InHand     == {"leased", "dialing", "amd_pending", "in_progress"}
Closed     == {"completed", "failed", "canceled"}
NoRow      == {"absent", "deleted"}
LeadStates == NoRow \cup {"pending"} \cup InHand \cup Closed
Outcomes   == {"voicemail_dropped", "machine_detected", "consent_denied",
               "answered_human", "no_answer", "hangup", "error", "canceled"}

StoreInit ==
  /\ status    = "draft"
  /\ leadState \in [Leads -> {"absent", "pending"}]
  /\ lease     = [l \in Leads |-> "null"]
  /\ attempt   = [a \in Attempts |-> "none"]
  /\ outcome   = [a \in Attempts |-> "null"]
  /\ leadOf    = [a \in Attempts |-> NoLead]

StoreTypeOK ==
  /\ status    \in Statuses
  /\ leadState \in [Leads -> LeadStates]
  /\ lease     \in [Leads -> {"null", "live", "expired"}]
  /\ attempt   \in [Attempts -> {"none", "open", "ended", "deleted"}]
  /\ outcome   \in [Attempts -> Outcomes \cup {"null"}]
  /\ leadOf    \in [Attempts -> Leads \cup {NoLead}]
-----------------------------------------------------------------------------
(* Leads *)

\* Leads lease_pending_leads may take: pending, or leased and past the lease.
Leasable == {l \in Leads : \/ leadState[l] = "pending"
                           \/ leadState[l] = "leased" /\ lease[l] = "expired"}

LeasePendingLead(l) ==
  /\ l \in Leasable
  /\ leadState' = [leadState EXCEPT ![l] = "leased"]
  /\ lease'     = [lease EXCEPT ![l] = "live"]

\* The 60 s of a lease pass.
LeaseExpires(l) ==
  /\ lease[l] = "live"
  /\ lease' = [lease EXCEPT ![l] = "expired"]
  /\ UNCHANGED <<status, leadState, rowVars>>

\* The UPDATE of mark_lead_dialing; it reports a row only for a leased lead.
MarkLeadDialing(l) ==
  /\ leadState[l] = "leased"
  /\ leadState' = [leadState EXCEPT ![l] = "dialing"]
  /\ lease'     = [lease EXCEPT ![l] = "null"]

\* set_lead_state writes whatever the row holds; no row, no write.
SetLeadState(l, s) ==
  /\ leadState' = [k \in Leads |-> IF k = l /\ leadState[k] \notin NoRow
                                   THEN s ELSE leadState[k]]
  /\ lease'     = [k \in Leads |-> IF k = l THEN "null" ELSE lease[k]]

ImportLead(l) ==
  /\ leadState[l] = "absent"
  /\ leadState' = [leadState EXCEPT ![l] = "pending"]
  /\ UNCHANGED <<status, lease, rowVars>>

\* cancel_lead leaves leased_until_utc as it was.
CancelLead(l) ==
  /\ leadState[l] \in {"pending", "leased", "dialing", "amd_pending"}
  /\ leadState' = [leadState EXCEPT ![l] = "canceled"]
  /\ UNCHANGED <<status, lease, rowVars>>

IgnoreLead(l) ==
  /\ leadState[l] \notin NoRow \cup {"in_progress", "amd_pending"}
  /\ leadState' = [leadState EXCEPT ![l] = "canceled"]
  /\ lease'     = [lease EXCEPT ![l] = "null"]
  /\ UNCHANGED <<status, rowVars>>

RowsOf(l) == {a \in Attempts : leadOf[a] = l /\ attempt[a] \in {"open", "ended"}}

DropRows(l) == attempt' = [a \in Attempts |-> IF a \in RowsOf(l)
                                              THEN "deleted" ELSE attempt[a]]

\* recycle_lead looks at no state: any existing lead goes back to pending.
RecycleLead(l, reset) ==
  /\ leadState[l] \notin NoRow
  /\ leadState' = [leadState EXCEPT ![l] = "pending"]
  /\ lease'     = [lease EXCEPT ![l] = "null"]
  /\ IF reset THEN DropRows(l) ELSE UNCHANGED attempt
  /\ UNCHANGED <<status, outcome, leadOf>>

\* delete_lead reads first whether the campaign runs; the engine is another
\* process, and nothing ties that read to the deletion.
MayDelete == status # "running"

DeleteLead(l) ==
  /\ leadState[l] \notin NoRow
  /\ leadState' = [leadState EXCEPT ![l] = "deleted"]
  /\ lease'     = [lease EXCEPT ![l] = "null"]
  /\ DropRows(l)
  /\ UNCHANGED <<status, outcome, leadOf>>
-----------------------------------------------------------------------------
(* Campaign status *)

Present == {l \in Leads : leadState[l] \notin NoRow}

\* set_campaign_status accepts any valid status from any status.
SetCampaignStatus(s, cancelPending) ==
  /\ status' = s
  /\ leadState' = [l \in Leads |->
        IF s = "stopped" /\ cancelPending /\ leadState[l] = "pending"
        THEN "canceled" ELSE leadState[l]]
  /\ UNCHANGED <<lease, rowVars>>
-----------------------------------------------------------------------------
(* Attempts *)

Unused == {a \in Attempts : attempt[a] = "none"}
Open   == {a \in Attempts : attempt[a] = "open"}

CreateAttempt(a, l) ==
  /\ a \in Unused
  /\ attempt' = [attempt EXCEPT ![a] = "open"]
  /\ leadOf'  = [leadOf EXCEPT ![a] = l]
  /\ UNCHANGED outcome

\* finish_attempt does not look whether the attempt has ended already.
FinishAttempt(a, o) ==
  /\ attempt' = [attempt EXCEPT ![a] = IF @ = "open" THEN "ended" ELSE @]
  /\ outcome' = [outcome EXCEPT ![a] = IF attempt[a] \in {"open", "ended"}
                                       THEN o ELSE @]
  /\ UNCHANGED leadOf

\* cleanup_stale_attempts_and_leads, S being the open attempts past the cutoff.
CleanupStale(S) ==
  /\ attempt' = [a \in Attempts |-> IF a \in S THEN "ended" ELSE attempt[a]]
  /\ outcome' = [a \in Attempts |-> IF a \in S /\ outcome[a] = "null"
                                    THEN "error" ELSE outcome[a]]
  /\ LET hit == {leadOf[a] : a \in S} IN
     /\ leadState' = [l \in Leads |-> IF l \in hit /\ leadState[l] \in InHand
                                      THEN "failed" ELSE leadState[l]]
     /\ lease'     = [l \in Leads |-> IF l \in hit /\ leadState[l] \in InHand
                                      THEN "null" ELSE lease[l]]
  /\ UNCHANGED <<status, leadOf>>
=============================================================================
