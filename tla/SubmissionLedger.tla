-------------------------- MODULE SubmissionLedger --------------------------
(***************************************************************************)
(* What the submission protocol promises, without its mechanism: one       *)
(* submission at a time is open; its writes take effect one by one; it is  *)
(* settled once, either by the transition it asked for, by accepting       *)
(* partial work, or by a correction; and nothing else moves the workflow   *)
(* while a submission is open.                                             *)
(***************************************************************************)
EXTENDS Naturals

CONSTANTS Caps, MaxWrites

VARIABLES
  version,   \* the workflow's epoch
  outcome,   \* what is on record for each capability
  effects    \* writes of each capability that are in place

ledger == <<version, outcome, effects>>

Outcomes == {"unused", "open", "moved", "partial", "corrected"}

Init ==
  /\ version = 0
  /\ outcome = [c \in Caps |-> "unused"]
  /\ effects = [c \in Caps |-> 0]

Open(c) ==
  /\ \A d \in Caps : outcome[d] # "open"
  /\ outcome[c] = "unused"
  /\ outcome' = [outcome EXCEPT ![c] = "open"]
  /\ UNCHANGED <<version, effects>>

Write(c) ==
  /\ outcome[c] = "open"
  /\ effects[c] < MaxWrites
  /\ effects' = [effects EXCEPT ![c] = @ + 1]
  /\ UNCHANGED <<version, outcome>>

Move(c) ==
  /\ outcome[c] = "open"
  /\ outcome' = [outcome EXCEPT ![c] = "moved"]
  /\ version' = version + 1
  /\ UNCHANGED effects

Settle(c, verdict) ==
  /\ outcome[c] = "open"
  /\ outcome' = [outcome EXCEPT ![c] = verdict]
  /\ UNCHANGED <<version, effects>>

\* A mechanical step or a cancellation.
Advance ==
  /\ \A c \in Caps : outcome[c] # "open"
  /\ version' = version + 1
  /\ UNCHANGED <<outcome, effects>>

Next ==
  \/ Advance
  \/ \E c \in Caps : Open(c) \/ Write(c) \/ Move(c)
                     \/ Settle(c, "partial") \/ Settle(c, "corrected")

Spec == Init /\ [][Next]_ledger
=============================================================================
