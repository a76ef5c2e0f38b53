----------------------------- MODULE MCSettling -----------------------------
(***************************************************************************)
(* The components in which something must eventually happen and that share *)
(* no state, side by side: run creation, host commands, submissions.       *)
(* `part' says which of them a behaviour is of; the others do not move.    *)
(***************************************************************************)
EXTENDS Creation, Commands, TLC

CONSTANTS Handlers, Caps, Payloads, Writes, MaxWrites, MaxEpoch, p1

VARIABLES part, epoch, stage, cap, expired, receipts, check, journal, store,
          sidecars, holder, task, done, advanced, installed

\* One append, then an identical replacement.
MCShortRequests == { [payload |-> p1, writes |-> <<"memory">>],
                     [payload |-> p1, writes |-> <<"same">>] }

Submission ==
  INSTANCE Submission WITH Threads <- Handlers, Requests <- Writes, receipt <- receipts,
                           files <- store, lock <- holder, job <- task

submissionVars == <<epoch, stage, cap, expired, receipts, check, journal, store,
                    sidecars, holder, task, done, advanced, installed>>
settlingVars == <<part, vars, commandsVars, submissionVars>>

SettlingInit == /\ part \in {"submission", "commands", "creation"}
                /\ Init /\ CommandsInit /\ Submission!Init
                /\ part # "submission" => stage = "mechanical"

SettlingNext ==
  /\ \/ part = "submission" /\ Submission!Next /\ UNCHANGED <<commandsVars, vars>>
     \/ part = "commands" /\ CommandsNext /\ UNCHANGED <<vars, submissionVars>>
     \/ part = "creation" /\ Next /\ UNCHANGED <<submissionVars, commandsVars>>
  /\ UNCHANGED part

\* No fair step of a component is enabled in its initial states, so that its
\* fairness asks nothing of the behaviours of the others.
SettlingSpec == /\ SettlingInit /\ [][SettlingNext]_settlingVars
                /\ Fairness /\ CommandsFairness /\ Submission!Fairness

PendingSettles == Submission!PendingSettles
=============================================================================
