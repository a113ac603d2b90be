------------------------------ MODULE CallSlots ------------------------------
(***************************************************************************)
(* What the pacing of a campaign promises, without saying how: a call      *)
(* takes one of Max slots once and gives it back for good.  The dialer's   *)
(* in-flight attempts (OutboundDialer) are shown to implement this.        *)
(***************************************************************************)
EXTENDS Integers, FiniteSets

CONSTANTS
  Calls,  (* the calls a campaign may ever make                             *)
  Max     (* the number of slots: max_concurrent                            *)

VARIABLE slot   \* slot[a] is "unused" before, "busy" during, "free" after call a

Busy == {a \in Calls : slot[a] = "busy"}

Init == slot = [a \in Calls |-> "unused"]

Acquire(a) ==
  /\ slot[a] = "unused"
  /\ Cardinality(Busy) < Max
  /\ slot' = [slot EXCEPT ![a] = "busy"]

\* Several slots come back at once when the engine restarts.
Release(S) ==
  /\ S # {}
  /\ slot' = [a \in Calls |-> IF a \in S THEN "free" ELSE slot[a]]

Next == \/ \E a \in Calls : Acquire(a)
        \/ \E S \in SUBSET Busy : Release(S)

Spec == Init /\ [][Next]_slot
=============================================================================
