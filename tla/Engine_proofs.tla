---------------------------- MODULE Engine_proofs ----------------------------
(***************************************************************************)
(* What a finished run publishes, for any number of handlers, proof texts, *)
(* branches and epochs; and what the research history behind its tasks     *)
(* tells a client, for any decompositions and any reports.                 *)
(*                                                                         *)
(* The argument for the run: a report that is clean was written about the  *)
(* draft as it is, for the draft changes in no phase a clean report        *)
(* survives into; a prepared plan fixes both until it is committed or      *)
(* settled; and a handler that has copied the draft did so when nothing    *)
(* could change it any more.                                               *)
(*                                                                         *)
(* And what holds with one handler at a time: the gate judges the draft as *)
(* it is, what it has not passed does not go on, and branches are worked   *)
(* on in their own phase only, by capabilities of branches that run.       *)
(*                                                                         *)
(* The argument for the research: what is collected from a node is the     *)
(* least set that holds it and all its members need; what nothing refuted  *)
(* is needed by is one too; and some claims of a plan, being ordered, have *)
(* a first and a last.                                                     *)
(***************************************************************************)
EXTENDS WorkflowRun, Research, SequenceTheorems, FiniteSetTheorems, WellFoundedInduction, TLAPS

Ended == {"finalize", "done", "cancelled"}

RunShape ==
  /\ DOMAIN run = {"state", "epoch", "round", "latex", "verdict", "meta"} /\ run.state \in States
  /\ DOMAIN work = Threads
  /\ \A t \in Threads : DOMAIN work[t] = {"pc", "row", "proof", "dom", "branch"}
  /\ pending # None => DOMAIN pending = {"cap", "plan"}
  /\ report # None => DOMAIN report = {"clean", "of"} /\ report.clean \in BOOLEAN

\* Submissions belong to a phase that has tasks.
TasksOnly ==
  /\ \A c \in caps : c.state \in TaskStates
  /\ pending # None => run.state \in TaskStates

\* A clean report is about the draft, and is on record in no earlier phase.
ReportIsCurrent ==
  /\ run.state \notin Ended \cup {"verify"} /\ report # None => ~ report.clean
  /\ run.state = "verify" /\ report # None /\ report.clean => report.of = draft

\* What a prepared plan may still count on when it is committed.
Verified == /\ report.clean /\ report.of = draft
            /\ draft \in Cited => audited # None
PlanHolds(p) ==
  /\ <<run.state, p.after>> \in AllowedTransitions
  /\ p.after = "finalize" => Verified
  /\ run.state = "verify" /\ p.after # "finalize" /\ report # None => ~ report.clean
PlanIsCurrent == pending # None /\ pending.plan # None => PlanHolds(pending.plan)

\* A handler that is about to publish, or has, does so in a phase that is final.
Publishing(w) == w.pc = "loop" /\ w.row.state = "finalize"
HandlersCurrent ==
  \A t \in Threads :
    /\ Publishing(work[t]) => run.state \in Ended
    /\ work[t].pc = "copied" => run.state \in Ended /\ (run.state = "finalize" => final = draft)

RunInv ==
  /\ RunShape /\ TasksOnly /\ ReportIsCurrent /\ PlanIsCurrent /\ HandlersCurrent
  /\ FinalIsSound

----------------------------------------------------------------------------
(* Phases.                                                                 *)

LEMMA PhasesDiffer ==
  /\ TaskStates \cap (Ended \cup Mechanical) = {}
  /\ Mechanical \subseteq States /\ TaskStates \subseteq States /\ Ended \subseteq States
  /\ "verify" \in TaskStates
  BY DEF TaskStates, GeneratorStates, Ended, Mechanical, States, Terminal

LEMMA TaskTransitions ==
  ASSUME NEW s \in TaskStates, NEW a, <<s, a>> \in AllowedTransitions
  PROVE  /\ a \in States /\ a \notin {"verify", "done", "cancelled"}
         /\ a = "finalize" => s = "verify"
  BY DEF AllowedTransitions, TaskStates, GeneratorStates, States, Mechanical, Terminal

\* What a submission leads to is in the transition table, in every phase.
LEMMA OutcomesAllowed ==
  ASSUME run.state \in TaskStates, NEW p \in Outcomes
  PROVE  <<run.state, p.after>> \in AllowedTransitions
<1>1. CASE run.state = "assess"
  <2>1. Outcomes = AssessmentComplete
    BY <1>1 DEF Outcomes
  <2> QED BY <1>1, <2>1 DEF AssessmentComplete, Plan, AllowedTransitions
<1>2. CASE run.state = "explore"
  <2>1. Outcomes = { Plan("propose_plans", run.meta) }
    BY <1>2 DEF Outcomes
  <2> QED BY <1>2, <2>1 DEF Plan, AllowedTransitions
<1>3. CASE run.state = "propose_plans"
  <2>1. Outcomes = { Plan("direct_proving", run.meta) }
    BY <1>3 DEF Outcomes
  <2> QED BY <1>3, <2>1 DEF Plan, AllowedTransitions
<1>4. CASE run.state = "direct_proving"
  <2>1. Outcomes = DirectProvingComplete
    BY <1>4 DEF Outcomes
  <2> QED BY <1>4, <2>1 DEF DirectProvingComplete, Plan, AllowedTransitions
<1>5. CASE run.state = "branch_run"
  <2>1. Outcomes = BranchComplete
    BY <1>5 DEF Outcomes
  <2> QED BY <1>5, <2>1 DEF BranchComplete, Plan, AllowedTransitions
<1>6. CASE run.state = "branch_join"
  <2>1. Outcomes = JoinComplete
    BY <1>6 DEF Outcomes
  <2> QED BY <1>6, <2>1 DEF JoinComplete, Plan, AllowedTransitions
<1>7. CASE run.state = "identify_failures"
  <2>1. Outcomes = { Plan("replan", run.meta) }
    BY <1>7 DEF Outcomes
  <2> QED BY <1>7, <2>1 DEF Plan, AllowedTransitions
<1>8. CASE run.state = "replan"
  <2>1. Outcomes = { Plan("propose_plans", run.meta) }
    BY <1>8 DEF Outcomes
  <2> QED BY <1>8, <2>1 DEF Plan, AllowedTransitions
<1>9. CASE run.state = "assemble"
  <2>1. Outcomes = ProofSubmitted
    BY <1>9 DEF Outcomes
  <2> QED BY <1>9, <2>1 DEF ProofSubmitted, Plan, AllowedTransitions
<1>10. CASE run.state = "verify"
  <2>1. Outcomes = VerificationSubmitted
    BY <1>10 DEF Outcomes
  <2> QED BY <1>10, <2>1 DEF VerificationSubmitted, Plan, AllowedTransitions
<1>11. CASE run.state = "repair"
  <2>1. Outcomes = RepairSubmitted
    BY <1>11 DEF Outcomes
  <2> QED BY <1>11, <2>1 DEF RepairSubmitted, Plan, AllowedTransitions
<1> QED BY <1>1, <1>2, <1>3, <1>4, <1>5, <1>6, <1>7, <1>8, <1>9, <1>10, <1>11 DEF TaskStates, GeneratorStates

----------------------------------------------------------------------------
(* Steps that leave the run where it is.                                   *)

\* What a step may do to the handlers: none begins to publish or has published
\* unless it was about to, or the run has just been read in `finalize`.
HandlersKept ==
  /\ DOMAIN work' = Threads
  /\ \A t \in Threads :
       /\ DOMAIN work'[t] = {"pc", "row", "proof", "dom", "branch"}
       /\ Publishing(work'[t]) => Publishing(work[t]) \/ run'.state = "finalize"
       /\ work'[t].pc = "copied" => work[t].pc = "copied"

StateKept == run' = run /\ \A c \in caps' : c.state \in TaskStates

LEMMA HandlersStay ==
  ASSUME RunInv, work' = work
  PROVE  HandlersKept
  BY DEF RunInv, RunShape, HandlersKept

LEMMA HandlerLeaves ==
  ASSUME RunInv, NEW t \in Threads, Leave(t)
  PROVE  HandlersKept
  BY DEF RunInv, RunShape, HandlersKept, Leave, Idle, Handler, Publishing

LEMMA HandlerReloads ==
  ASSUME RunInv, NEW t \in Threads, (Reload(t, run) /\ run' = run) \/ Reload(t, run')
  PROVE  HandlersKept
<1>1. PICK row \in {run, run'} : row.state = run'.state /\ Reload(t, row)
  OBVIOUS
<1> DEFINE w == IF row.state \in Terminal THEN Idle ELSE Handler("loop", Copy(row))
<1>2. /\ DOMAIN w = {"pc", "row", "proof", "dom", "branch"} /\ w.pc # "copied"
      /\ Publishing(w) => row.state = "finalize"
  <2>1. /\ Copy(row).state = row.state
    BY DEF Copy, Phase
  <2> QED BY <2>1 DEF Idle, Handler, Publishing
<1>3. work' = [work EXCEPT ![t] = w]
  BY <1>1 DEF Reload
<1> HIDE DEF w
<1> QED BY <1>1, <1>2, <1>3 DEF RunInv, RunShape, HandlersKept

\* A handler that goes on, to somewhere other than publication.
LEMMA HandlerGoesOn ==
  ASSUME RunInv, NEW t \in Threads, NEW w, DOMAIN w = {"pc", "row", "proof", "dom", "branch"},
         w.pc \notin {"loop", "copied"}, work' = [work EXCEPT ![t] = w]
  PROVE  HandlersKept
  BY DEF RunInv, RunShape, HandlersKept, Publishing

LEMMA QuietStep ==
  ASSUME RunInv, StateKept, HandlersKept, UNCHANGED <<pending, draft, final, report, audited>>
  PROVE  RunInv'
<1> USE DEF RunInv
<1>1. RunShape' /\ TasksOnly'
  BY DEF RunShape, TasksOnly, StateKept, HandlersKept
<1>2. ReportIsCurrent' /\ PlanIsCurrent' /\ FinalIsSound'
  BY DEF ReportIsCurrent, PlanIsCurrent, PlanHolds, Verified, FinalIsSound, FinalIsVerified,
     ReferencesAudited, StateKept
<1>3. HandlersCurrent'
  BY DEF HandlersCurrent, HandlersKept, StateKept, Ended
<1> QED BY <1>1, <1>2, <1>3

LEMMA IssuingKeeps ==
  ASSUME RunInv, NEW t \in Threads, Issuing(t)
  PROVE  RunInv'
<1>1. /\ run' = run /\ UNCHANGED <<pending, draft, final, report, audited>>
      /\ DOMAIN work[t] = {"pc", "row", "proof", "dom", "branch"}
  BY DEF Issuing, FindDomain, CreateDomain, FindBranch, MarkRunning, Issue, files, RunInv, RunShape
<1>2. StateKept
  BY DEF Issuing, FindDomain, CreateDomain, FindBranch, MarkRunning, Issue, files, RunInv, TasksOnly,
     StateKept, MayIssue
<1>3. HandlersKept
  <2>1. CASE Leave(t)
    BY <2>1, HandlerLeaves
  <2>2. CASE ~ Leave(t)
    <3>1. PICK w : /\ DOMAIN w = {"pc", "row", "proof", "dom", "branch"} /\ w.pc \notin {"loop", "copied"}
                   /\ work' = [work EXCEPT ![t] = w]
      <4>1. CASE FindDomain(t)
        <5> DEFINE found == OpenDomains(work[t].row.state)
                   w == [work[t] EXCEPT !.pc = IF found = {} THEN "create" ELSE "issue",
                                        !.dom = IF found = {} THEN 0 ELSE Max(found)]
        <5>1. work' = [work EXCEPT ![t] = w]
          BY <4>1 DEF FindDomain, RunInv, RunShape
        <5>2. DOMAIN w = {"pc", "row", "proof", "dom", "branch"} /\ w.pc \notin {"loop", "copied"}
          BY <1>1
        <5> HIDE DEF w
        <5> QED BY <5>1, <5>2
      <4>2. CASE CreateDomain(t)
        <5> DEFINE w == [work[t] EXCEPT !.pc = "issue", !.dom = Len(domains) + 1]
        <5>1. work' = [work EXCEPT ![t] = w]
          BY <4>2 DEF CreateDomain, RunInv, RunShape
        <5>2. DOMAIN w = {"pc", "row", "proof", "dom", "branch"} /\ w.pc \notin {"loop", "copied"}
          BY <1>1
        <5> HIDE DEF w
        <5> QED BY <5>1, <5>2
      <4>3. CASE FindBranch(t)
        <5>1. PICK b \in BranchIds :
                \/ work' = [work EXCEPT ![t].pc = "issue", ![t].dom = branches[b].dom]
                \/ work' = [work EXCEPT ![t].pc = "mark", ![t].branch = b]
          BY <2>2, <4>3 DEF FindBranch, Earliest, InStatus
        <5> DEFINE w == [work[t] EXCEPT !.pc = "issue", !.dom = branches[b].dom]
                   v == [work[t] EXCEPT !.pc = "mark", !.branch = b]
        <5>2. work' = [work EXCEPT ![t] = w] \/ work' = [work EXCEPT ![t] = v]
          BY <5>1 DEF RunInv, RunShape
        <5>3. /\ DOMAIN w = {"pc", "row", "proof", "dom", "branch"} /\ w.pc \notin {"loop", "copied"}
              /\ DOMAIN v = {"pc", "row", "proof", "dom", "branch"} /\ v.pc \notin {"loop", "copied"}
          BY <1>1
        <5> HIDE DEF w, v
        <5> QED BY <5>2, <5>3
      <4>4. CASE MarkRunning(t)
        <5> DEFINE w == [work[t] EXCEPT !.pc = "issue", !.dom = branches[work[t].branch].dom]
        <5>1. work' = [work EXCEPT ![t] = w]
          BY <4>4 DEF MarkRunning, RunInv, RunShape
        <5>2. DOMAIN w = {"pc", "row", "proof", "dom", "branch"} /\ w.pc \notin {"loop", "copied"}
          BY <1>1
        <5> HIDE DEF w
        <5> QED BY <5>1, <5>2
      <4> QED BY <2>2, <4>1, <4>2, <4>3, <4>4 DEF Issuing, Issue
    <3> QED BY <3>1, HandlerGoesOn
  <2> QED BY <2>1, <2>2
<1> QED BY <1>1, <1>2, <1>3, QuietStep

----------------------------------------------------------------------------
(* Transitions outside a submission.                                       *)

LEMMA MoveStep ==
  ASSUME RunInv, pending = None, HandlersKept, caps' = {},
         UNCHANGED <<pending, draft, final, report, audited>>,
         DOMAIN run' = DOMAIN run,
         \/ run.state = "branch_prepare" /\ run'.state = "branch_run"
         \/ run.state = "latex_validate" /\ run'.state \in {"verify", "repair"}
         \/ run.state = "finalize" /\ run'.state = "done" /\ final = draft
         \/ run'.state = "cancelled"
  PROVE  RunInv'
<1> USE DEF RunInv
<1>1. RunShape' /\ TasksOnly' /\ PlanIsCurrent'
  BY DEF RunShape, HandlersKept, TasksOnly, PlanIsCurrent, States, TaskStates, GeneratorStates, Terminal
<1>2. ReportIsCurrent'
  BY DEF ReportIsCurrent, Ended
<1>3. HandlersCurrent'
  BY DEF HandlersCurrent, HandlersKept, Ended
<1>4. FinalIsSound'
  BY DEF FinalIsSound, FinalIsVerified, ReferencesAudited
<1> QED BY <1>1, <1>2, <1>3, <1>4

LEMMA MovedState ==
  ASSUME RunShape, NEW after
  PROVE  DOMAIN Moved(after) = DOMAIN run /\ Moved(after).state = after
  BY DEF RunShape, Moved

LEMMA RoundKeeps ==
  ASSUME RunInv, NEW t \in Threads, PrepareBranchRound(t)
  PROVE  RunInv'
<1>1. UNCHANGED <<pending, draft, final, report, audited>>
  BY DEF PrepareBranchRound, files
<1>2. CASE Reload(t, run) /\ UNCHANGED <<run, caps>>
  <2>1. HandlersKept
    BY <1>2, HandlerReloads
  <2>2. StateKept
    BY <1>2 DEF StateKept, RunInv, TasksOnly
  <2> QED BY <1>1, <2>1, <2>2, QuietStep
<1>3. CASE /\ MayMove("branch_prepare") /\ Reload(t, run')
           /\ Transition([Moved("branch_run") EXCEPT !.round = @ + 1])
  <2>1. HandlersKept
    BY <1>3, HandlerReloads
  <2>2. /\ run' = [Moved("branch_run") EXCEPT !.round = @ + 1] /\ caps' = {}
        /\ run.state = "branch_prepare" /\ pending = None
    BY <1>3 DEF Transition, MayMove
  <2>3. DOMAIN run' = DOMAIN run /\ run'.state = "branch_run"
    BY <2>2, MovedState DEF RunInv, RunShape
  <2> QED BY <1>1, <2>1, <2>2, <2>3, MoveStep
<1> QED BY <1>2, <1>3 DEF PrepareBranchRound

LEMMA BeginKeeps ==
  ASSUME RunInv, NEW t \in Threads, Begin(t)
  PROVE  RunInv'
<1>1. UNCHANGED <<run, caps, pending, draft, final, report, audited>> /\ Reload(t, run)
  BY DEF Begin, files
<1>2. HandlersKept /\ StateKept
  BY <1>1, HandlerReloads DEF StateKept, RunInv, TasksOnly
<1> QED BY <1>1, <1>2, QuietStep

LEMMA ReadKeeps ==
  ASSUME RunInv, NEW t \in Threads, ReadProof(t)
  PROVE  RunInv'
<1> DEFINE w == [work[t] EXCEPT !.pc = "gate", !.proof = draft]
<1>1. /\ UNCHANGED <<run, caps, pending, draft, final, report, audited>>
      /\ work' = [work EXCEPT ![t] = w]
  BY DEF ReadProof, files, RunInv, RunShape
<1>2. DOMAIN w = {"pc", "row", "proof", "dom", "branch"} /\ w.pc = "gate"
  BY DEF RunInv, RunShape
<1> HIDE DEF w
<1>3. HandlersKept /\ StateKept
  BY <1>1, <1>2, HandlerGoesOn DEF StateKept, RunInv, TasksOnly
<1> QED BY <1>1, <1>3, QuietStep

LEMMA GateKeeps ==
  ASSUME RunInv, NEW t \in Threads, CompleteGate(t)
  PROVE  RunInv'
<1>1. UNCHANGED <<pending, draft, final, report, audited>>
  BY DEF CompleteGate, files
<1>2. CASE Leave(t) /\ UNCHANGED <<run, caps>>
  <2>1. HandlersKept /\ StateKept
    BY <1>2, HandlerLeaves DEF StateKept, RunInv, TasksOnly
  <2> QED BY <1>1, <2>1, QuietStep
<1>3. CASE ~ Leave(t) \/ ~ UNCHANGED <<run, caps>>
  <2> DEFINE passed == work[t].proof \in Clean
             after == IF passed THEN "verify" ELSE "repair"
             gate == IF passed THEN "pass" ELSE "fail"
  <2>1. /\ after \in {"verify", "repair"}
        /\ Transition([Moved(after) EXCEPT !.latex = passed, !.meta.gate = gate])
        /\ MayMove("latex_validate") /\ Reload(t, run')
    BY <1>3 DEF CompleteGate, GateOpen
  <2> HIDE DEF passed, after, gate
  <2>2. HandlersKept
    BY <2>1, HandlerReloads
  <2>3. /\ caps' = {} /\ run.state = "latex_validate" /\ pending = None
        /\ run' = [Moved(after) EXCEPT !.latex = passed, !.meta.gate = gate]
    BY <2>1 DEF Transition, MayMove
  <2>4. DOMAIN run' = DOMAIN run /\ run'.state = after
    BY <2>3, MovedState DEF RunInv, RunShape
  <2> QED BY <1>1, <2>1, <2>2, <2>3, <2>4, MoveStep
<1> QED BY <1>2, <1>3

\* The draft is copied where the phase is final, so it is the verified one.
LEMMA CopyKeeps ==
  ASSUME RunInv, NEW t \in Threads, CopyFinal(t)
  PROVE  RunInv'
<1> USE DEF RunInv
<1>1. /\ UNCHANGED <<run, caps, pending, draft, report, audited>> /\ Publishing(work[t])
  BY DEF CopyFinal, At, Publishing
<1>2. CASE final' = final /\ Leave(t)
  <2>1. HandlersKept /\ StateKept
    BY <1>1, <1>2, HandlerLeaves DEF StateKept, TasksOnly
  <2> QED BY <1>1, <1>2, <2>1, QuietStep
<1>3. CASE final' = draft /\ Goto(t, "copied")
  <2> DEFINE w == [work[t] EXCEPT !.pc = "copied"]
  <2>1. work' = [work EXCEPT ![t] = w]
    BY <1>3 DEF Goto
  <2>2. DOMAIN w = {"pc", "row", "proof", "dom", "branch"} /\ w.pc = "copied"
    BY DEF RunShape
  <2> HIDE DEF w
  <2>3. run.state \in Ended
    BY <1>1 DEF HandlersCurrent
  <2>4. RunShape' /\ TasksOnly' /\ ReportIsCurrent' /\ PlanIsCurrent'
    BY <1>1, <2>1, <2>2 DEF RunShape, TasksOnly, ReportIsCurrent, PlanIsCurrent, PlanHolds, Verified
  <2>5. HandlersCurrent'
    BY <1>1, <1>3, <2>1, <2>2, <2>3 DEF HandlersCurrent, Publishing, RunShape
  <2>6. FinalIsSound'
    BY <1>1, <1>3 DEF FinalIsSound, FinalIsVerified, ReferencesAudited
  <2> QED BY <2>4, <2>5, <2>6
<1> QED BY <1>2, <1>3 DEF CopyFinal

LEMMA FinalKeeps ==
  ASSUME RunInv, NEW t \in Threads, CompleteFinal(t)
  PROVE  RunInv'
<1>1. UNCHANGED <<pending, draft, final, report, audited>> /\ work[t].pc = "copied"
  BY DEF CompleteFinal, files, At
<1>2. CASE Leave(t) /\ UNCHANGED <<run, caps>>
  <2>1. HandlersKept /\ StateKept
    BY <1>2, HandlerLeaves DEF StateKept, RunInv, TasksOnly
  <2> QED BY <1>1, <2>1, QuietStep
<1>3. CASE MayMove("finalize") /\ Transition(Moved("done")) /\ Reload(t, run')
  <2>1. HandlersKept
    BY <1>3, HandlerReloads
  <2>2. /\ run' = Moved("done") /\ caps' = {} /\ run.state = "finalize" /\ pending = None
    BY <1>3 DEF Transition, MayMove
  <2>3. final = draft
    BY <1>1, <2>2 DEF RunInv, HandlersCurrent
  <2>4. DOMAIN run' = DOMAIN run /\ run'.state = "done"
    BY <2>2, MovedState DEF RunInv
  <2> QED BY <1>1, <2>1, <2>2, <2>3, <2>4, MoveStep
<1> QED BY <1>2, <1>3 DEF CompleteFinal

LEMMA CancelKeeps ==
  ASSUME RunInv, Cancel
  PROVE  RunInv'
<1>1. UNCHANGED <<pending, draft, final, report, audited, work>>
  BY DEF Cancel, files
<1>2. /\ run' = Moved("cancelled") /\ caps' = {} /\ pending = None
  BY DEF Cancel, Transition, MayMove
<1>3. DOMAIN run' = DOMAIN run /\ run'.state = "cancelled"
  BY <1>2, MovedState DEF RunInv
<1>4. HandlersKept
  BY <1>1, HandlersStay
<1> QED BY <1>1, <1>2, <1>3, <1>4, MoveStep

----------------------------------------------------------------------------
(* Submissions.                                                            *)

LEMMA OpenKeeps ==
  ASSUME RunInv, NEW c \in caps, Open(c)
  PROVE  RunInv'
<1> USE DEF RunInv
<1>1. /\ UNCHANGED <<run, caps, draft, final, report, audited, work>>
      /\ pending' = [cap |-> c, plan |-> None] /\ run.state = c.state
  BY DEF Open, files, Usable
<1>2. run.state \in TaskStates
  BY <1>1 DEF TasksOnly
<1>3. DOMAIN pending' = {"cap", "plan"} /\ pending'.plan = None
  BY <1>1
<1>4. RunShape' /\ TasksOnly'
  BY <1>1, <1>2, <1>3 DEF RunShape, TasksOnly
<1>5. ReportIsCurrent' /\ PlanIsCurrent' /\ HandlersCurrent' /\ FinalIsSound'
  BY <1>1, <1>3 DEF ReportIsCurrent, PlanIsCurrent, HandlersCurrent, FinalIsSound, FinalIsVerified,
     ReferencesAudited
<1> QED BY <1>4, <1>5

LEMMA WriteKeeps ==
  ASSUME RunInv,
         \/ \E p \in Proofs : WriteProof(p)
         \/ \E clean \in BOOLEAN : WriteReport(clean)
         \/ \E resolved \in BOOLEAN : WriteAudit(resolved)
  PROVE  RunInv'
<1> USE DEF RunInv
<1>1. UNCHANGED <<run, caps, pending, final, work>> /\ pending # None /\ pending.plan = None
  BY DEF WriteProof, WriteReport, WriteAudit, Writing
<1>2. run.state \in {"assemble", "repair", "verify"} /\ run.state \notin Ended
  BY DEF WriteProof, WriteReport, WriteAudit, Ended
<1>3. TasksOnly' /\ PlanIsCurrent' /\ FinalIsSound'
  BY <1>1, <1>2 DEF TasksOnly, PlanIsCurrent, FinalIsSound, FinalIsVerified, ReferencesAudited, Ended
<1>4. HandlersCurrent'
  BY <1>1, <1>2 DEF HandlersCurrent, Ended
<1>5. RunShape' /\ ReportIsCurrent'
  <2>1. ASSUME NEW p \in Proofs, WriteProof(p) PROVE RunShape' /\ ReportIsCurrent'
    BY <1>1, <2>1 DEF WriteProof, RunShape, ReportIsCurrent
  <2>2. ASSUME NEW clean \in BOOLEAN, WriteReport(clean) PROVE RunShape' /\ ReportIsCurrent'
    <3>1. /\ report' = [clean |-> clean, of |-> draft] /\ draft' = draft /\ run.state = "verify"
      BY <2>2 DEF WriteReport
    <3>2. DOMAIN report' = {"clean", "of"} /\ report'.clean \in BOOLEAN /\ report'.of = draft'
      BY <3>1
    <3> QED BY <1>1, <3>1, <3>2 DEF RunShape, ReportIsCurrent
  <2>3. ASSUME NEW resolved \in BOOLEAN, WriteAudit(resolved) PROVE RunShape' /\ ReportIsCurrent'
    BY <1>1, <2>3 DEF WriteAudit, RunShape, ReportIsCurrent
  <2> QED BY <2>1, <2>2, <2>3
<1> QED BY <1>3, <1>4, <1>5

\* A plan is made for the draft and the report as they are stored with it.
LEMMA PrepareKeeps ==
  ASSUME RunInv, NEW p \in Outcomes, NEW result, Prepare(p, result)
  PROVE  RunInv'
<1> USE DEF RunInv
<1> DEFINE now == IF run.state = "verify" THEN Normalized ELSE report
<1>1. /\ UNCHANGED <<run, caps, draft, final, audited, work>> /\ pending # None
      /\ pending' = [pending EXCEPT !.plan = p] /\ report' = now
  BY DEF Prepare, Writing, Certificate
<1>2. run.state \in TaskStates /\ run.state \notin Ended
  BY <1>1, PhasesDiffer DEF TasksOnly
<1>3. DOMAIN pending' = {"cap", "plan"} /\ pending'.plan = p
  BY <1>1 DEF RunShape
<1>4. TasksOnly'
  BY <1>1 DEF TasksOnly
<1>5. <<run.state, p.after>> \in AllowedTransitions
  BY <1>2, OutcomesAllowed
<1>6. HandlersCurrent' /\ FinalIsSound'
  BY <1>1, <1>2 DEF HandlersCurrent, FinalIsSound, FinalIsVerified, ReferencesAudited, Ended
<1>7. CASE run.state # "verify"
  <2>1. report' = report
    BY <1>1, <1>7
  <2>2. RunShape' /\ ReportIsCurrent'
    BY <1>1, <1>3, <2>1 DEF RunShape, ReportIsCurrent
  <2>3. p.after # "finalize"
    BY <1>2, <1>5, <1>7, TaskTransitions
  <2>4. PlanIsCurrent'
    BY <1>1, <1>3, <1>5, <1>7, <2>3 DEF PlanIsCurrent, PlanHolds
  <2> QED BY <1>4, <1>6, <2>2, <2>4
<1>8. CASE run.state = "verify"
  <2>1. p \in VerificationSubmitted
    BY <1>8 DEF Outcomes
  <2>2. report # None /\ DOMAIN report = {"clean", "of"} /\ report.clean \in BOOLEAN
    BY <2>1 DEF VerificationSubmitted, RunShape
  <2>3. report' = [report EXCEPT !.clean = Correct]
    BY <1>1, <1>8 DEF Normalized
  <2>4. DOMAIN report' = {"clean", "of"} /\ report'.of = report.of
    BY <2>2, <2>3
  <2>5. CASE Correct
    <3>1. report'.clean = TRUE /\ report.clean /\ (draft \in Cited => audited # None)
      BY <2>2, <2>3, <2>5 DEF Correct, ReferenceGap
    <3>2. report.of = draft
      BY <1>8, <2>2, <3>1 DEF ReportIsCurrent
    <3>3. p.after = "finalize"
      BY <2>1, <2>2, <2>5 DEF VerificationSubmitted, Plan
    <3>4. RunShape' /\ ReportIsCurrent'
      BY <1>1, <1>3, <1>8, <2>4, <3>1, <3>2 DEF RunShape, ReportIsCurrent
    <3>5. PlanIsCurrent'
      BY <1>1, <1>3, <1>5, <2>4, <3>1, <3>2, <3>3 DEF PlanIsCurrent, PlanHolds, Verified
    <3> QED BY <1>4, <1>6, <3>4, <3>5
  <2>6. CASE ~ Correct
    <3>1. report'.clean = FALSE
      BY <2>2, <2>3, <2>6
    <3>2. p.after # "finalize"
      BY <2>1, <2>2, <2>6 DEF VerificationSubmitted, Plan
    <3>3. RunShape' /\ ReportIsCurrent'
      BY <1>1, <1>3, <1>8, <2>4, <3>1 DEF RunShape, ReportIsCurrent
    <3>4. PlanIsCurrent'
      BY <1>1, <1>3, <1>5, <3>1, <3>2 DEF PlanIsCurrent, PlanHolds
    <3> QED BY <1>4, <1>6, <3>3, <3>4
  <2> QED BY <2>5, <2>6
<1> QED BY <1>7, <1>8

LEMMA CommitKeeps ==
  ASSUME RunInv, Commit
  PROVE  RunInv' /\ <<run.state, run'.state>> \in AllowedTransitions
<1> USE DEF RunInv
<1> DEFINE p == pending.plan
<1>1. /\ UNCHANGED <<draft, final, report, audited, work>> /\ pending # None /\ p # None
      /\ run' = [Moved(p.after) EXCEPT !.verdict = p.verdict, !.meta = p.meta]
      /\ caps' = {} /\ pending' = None
  BY DEF Commit, Transition
<1>2. PlanHolds(p) /\ run.state \in TaskStates /\ run.state \notin Ended
  BY <1>1, PhasesDiffer DEF PlanIsCurrent, TasksOnly
<1>3. DOMAIN run' = DOMAIN run /\ run'.state = p.after
  BY <1>1, MovedState DEF RunShape
<1> HIDE DEF p
<1>4. <<run.state, run'.state>> \in AllowedTransitions
  BY <1>2, <1>3 DEF PlanHolds
<1>5. /\ run'.state \in States /\ run'.state \notin {"verify", "done", "cancelled"}
      /\ run'.state = "finalize" => run.state = "verify"
  BY <1>2, <1>4, TaskTransitions
<1>6. RunShape' /\ TasksOnly' /\ PlanIsCurrent'
  BY <1>1, <1>3, <1>5 DEF RunShape, TasksOnly, PlanIsCurrent
<1>7. ReportIsCurrent'
  BY <1>1, <1>2, <1>3, <1>5 DEF ReportIsCurrent, PlanHolds, Ended
<1>8. HandlersCurrent'
  BY <1>1, <1>2 DEF HandlersCurrent
<1>9. FinalIsSound'
  BY <1>1, <1>2, <1>3, <1>5 DEF FinalIsSound, FinalIsVerified, ReferencesAudited, PlanHolds, Verified
<1> QED BY <1>4, <1>6, <1>7, <1>8, <1>9

LEMMA SettleKeeps ==
  ASSUME RunInv, Settle
  PROVE  RunInv'
<1> USE DEF RunInv
<1>1. /\ UNCHANGED <<run, draft, final, report, audited, work>> /\ caps' \subseteq caps /\ pending' = None
  BY DEF Settle, files
<1> QED
  BY <1>1 DEF RunShape, TasksOnly, ReportIsCurrent, PlanIsCurrent, HandlersCurrent, FinalIsSound,
     FinalIsVerified, ReferencesAudited

LEMMA CrashKeeps ==
  ASSUME RunInv, NEW t \in Threads, Crash(t)
  PROVE  RunInv'
<1>1. UNCHANGED <<run, caps, pending, draft, final, report, audited>> /\ Leave(t)
  BY DEF Crash, files
<1>2. HandlersKept /\ StateKept
  BY <1>1, HandlerLeaves DEF StateKept, RunInv, TasksOnly
<1> QED BY <1>1, <1>2, QuietStep

----------------------------------------------------------------------------
(* The theorems.                                                           *)

LEMMA RunStarts == Init => RunInv
<1> SUFFICES ASSUME Init PROVE RunInv
  OBVIOUS
<1>1. /\ DOMAIN run = {"state", "epoch", "round", "latex", "verdict", "meta"}
      /\ run.state \in {"assess", "branch_prepare", "assemble"}
  BY DEF Init, StartRows, Row
<1>2. /\ pending = None /\ report = None /\ caps = {}
      /\ work = [t \in Threads |-> Idle]
  BY DEF Init
<1>3. DOMAIN Idle = {"pc", "row", "proof", "dom", "branch"} /\ Idle.pc = "idle"
  BY DEF Idle, Handler
<1> QED
  BY <1>1, <1>2, <1>3 DEF RunInv, RunShape, TasksOnly, ReportIsCurrent, PlanIsCurrent, HandlersCurrent,
     Publishing, FinalIsSound, FinalIsVerified, ReferencesAudited, States, TaskStates, GeneratorStates,
     Mechanical

LEMMA RunKeeps == RunInv /\ [Next]_vars => RunInv'
<1> SUFFICES ASSUME RunInv, [Next]_vars PROVE RunInv'
  OBVIOUS
<1>1. CASE UNCHANGED vars
  <2>1. UNCHANGED <<run, caps, pending, draft, final, report, audited, work>>
    BY <1>1 DEF vars, files
  <2> QED BY <2>1, HandlersStay, QuietStep DEF StateKept, RunInv, TasksOnly
<1>2. ASSUME NEW t \in Threads, NextTask(t) \/ Crash(t) PROVE RunInv'
  BY <1>2, BeginKeeps, RoundKeeps, ReadKeeps, GateKeeps, CopyKeeps, FinalKeeps, IssuingKeeps, CrashKeeps
     DEF NextTask, Mechanics
<1>3. CASE Submitted
  BY <1>3, OpenKeeps, WriteKeeps, PrepareKeeps, CommitKeeps, SettleKeeps DEF Submitted
<1> QED BY <1>1, <1>2, <1>3, CancelKeeps DEF Next

\* What a finished run publishes is the text the clean report on record is
\* about, its references audited, however many handlers and interruptions
\* there were on the way.
THEOREM RunIsSound == Spec => []FinalIsSound
<1>1. RunInv => FinalIsSound
  BY DEF RunInv
<1> QED BY RunStarts, RunKeeps, <1>1, PTL DEF Spec

\* No submission, gate, cancellation or race takes a run along an edge the
\* transition table does not have.
THEOREM TableHolds == Spec => OnlyAllowedTransitions
<1> DEFINE Edge == \/ run'.state = run.state
                   \/ run'.state = "cancelled"
                   \/ <<run.state, run'.state>> \in AllowedTransitions
<1>1. RunInv /\ [Next]_vars => [Edge]_run
  <2> SUFFICES ASSUME RunInv, [Next]_vars, run' # run PROVE Edge
    OBVIOUS
  <2>1. CASE Commit
    BY <2>1, CommitKeeps
  <2>2. ASSUME NEW t \in Threads, PrepareBranchRound(t) PROVE Edge
    <3>1. run.state = "branch_prepare" /\ run' = [Moved("branch_run") EXCEPT !.round = @ + 1]
      BY <2>2 DEF PrepareBranchRound, MayMove, Transition
    <3>2. run'.state = "branch_run"
      BY <3>1, MovedState DEF RunInv, RunShape
    <3> QED BY <3>1, <3>2 DEF AllowedTransitions
  <2>3. ASSUME NEW t \in Threads, CompleteGate(t) PROVE Edge
    <3> DEFINE passed == work[t].proof \in Clean
               after == IF passed THEN "verify" ELSE "repair"
               gate == IF passed THEN "pass" ELSE "fail"
    <3>1. /\ after \in {"verify", "repair"}
          /\ run' = [Moved(after) EXCEPT !.latex = passed, !.meta.gate = gate]
      BY <2>3 DEF CompleteGate, Transition
    <3> HIDE DEF passed, after, gate
    <3>2. run.state = "latex_validate" /\ run'.state = after
      BY <2>3, <3>1, MovedState DEF RunInv, RunShape, CompleteGate, GateOpen, MayMove
    <3> QED BY <3>1, <3>2 DEF AllowedTransitions
  <2>4. ASSUME NEW t \in Threads, CompleteFinal(t) PROVE Edge
    <3>1. run.state = "finalize" /\ run' = Moved("done")
      BY <2>4 DEF CompleteFinal, MayMove, Transition
    <3> QED BY <3>1, MovedState DEF RunInv, AllowedTransitions
  <2>5. CASE Cancel
    BY <2>5, MovedState DEF RunInv, Cancel, Transition
  <2>6. \/ Commit \/ Cancel
        \/ \E t \in Threads : PrepareBranchRound(t) \/ CompleteGate(t) \/ CompleteFinal(t)
    BY DEF vars, Next, NextTask, Begin, Mechanics, ReadProof, CopyFinal, Issuing, FindDomain, CreateDomain,
       FindBranch, MarkRunning, Issue, Crash, Submitted, Open, WriteProof, WriteReport, WriteAudit,
       Prepare, Settle
  <2> HIDE DEF Edge
  <2> QED BY <2>1, <2>2, <2>3, <2>4, <2>5, <2>6
<1> QED BY RunStarts, RunKeeps, <1>1, PTL DEF Spec, OnlyAllowedTransitions

----------------------------------------------------------------------------
(* What is known of the gate and of the branches.                          *)

\* One handler at a time.
OneHandler == \A t, u \in Threads : t = u

\* The gate judges the draft as it is, and only what it passed goes on.
GateCurrent ==
  \A t \in Threads :
    /\ work[t].pc = "gate" \/ (work[t].pc = "loop" /\ work[t].row.state = "latex_validate") =>
         run.state \in {"latex_validate", "cancelled"}
    /\ work[t].pc = "gate" /\ run.state = "latex_validate" => work[t].proof = draft
Gated == run.state \in {"verify", "finalize", "done"} => draft \in Clean

GateInv == GateCurrent /\ Gated

JoinShape ==
  /\ run.round \in Nat
  /\ DOMAIN branches = BranchIds
  /\ \A b \in BranchIds : /\ DOMAIN branches[b] = {"status", "dom", "result"}
                          /\ branches[b].status \in {"none", "pending", "running", "sealed"}
  /\ domains \in Seq([state : TaskStates, branch : BranchIds \cup {None}, open : BOOLEAN])

\* A branch and its domain belong together.
BranchHasDomain ==
  \A b \in BranchIds : IF branches[b].status = "none" THEN branches[b].result = "none"
                       ELSE branches[b].dom \in DOMAIN domains /\ domains[branches[b].dom].branch = b
DomainHasBranch ==
  \A d \in DOMAIN domains :
    /\ domains[d].state = "branch_run" <=> domains[d].branch # None
    /\ domains[d].branch # None => /\ branches[domains[d].branch].dom = d
                                   /\ domains[d].branch[1] <= run.round

\* Branches are worked on in their own phase only.
SealedOutside ==
  run.state \notin {"branch_run", "cancelled"} => \A b \in BranchIds : branches[b].status \in {"none", "sealed"}

\* A domain whose branch is being worked on.
Worked(d) == /\ d \in DOMAIN domains /\ domains[d].branch # None
             /\ branches[domains[d].branch].status = "running"
\* Capabilities are for the phase the run is in, and for branches that run.
CapsCurrent ==
  /\ \A c \in caps : c.state = run.state /\ (run.state = "branch_run" => Worked(c.dom))
  /\ pending # None /\ run.state = "branch_run" => Worked(pending.cap.dom)

\* What a handler has found is still so when it goes on.
HandlerCurrent ==
  \A t \in Threads :
    /\ work[t].pc = "create" => work[t].row.state \in TaskStates \ {"branch_run"}
    /\ work[t].pc = "issue" => /\ work[t].dom \in DOMAIN domains
                               /\ domains[work[t].dom].branch # None /\ domains[work[t].dom].open
                                    => Worked(work[t].dom)
    /\ work[t].pc = "mark" =>
         /\ work[t].branch \in BranchIds /\ run.state \in {"branch_run", "cancelled"}
         /\ run.state = "branch_run" => /\ branches[work[t].branch].status = "pending"
                                        /\ InStatus("running") = {} /\ pending = None
         /\ branches[work[t].branch].status # "none"

\* What a prepared plan knows of the branches.
BranchPlan ==
  pending # None /\ pending.plan # None =>
    /\ pending.plan.branch = IF run.state = "branch_run" THEN domains[pending.cap.dom].branch ELSE None
    /\ run.state = "branch_join" /\ pending.plan.after = "identify_failures" => SolvedBranches = {}

JoinInv == /\ JoinShape /\ BranchHasDomain /\ DomainHasBranch /\ SealedOutside /\ CapsCurrent
           /\ HandlerCurrent /\ BranchPlan

----------------------------------------------------------------------------
(* With one handler at a time.                                             *)

\* Where a handler is after its step.
LEMMA HandlerStep ==
  ASSUME RunShape, NEW t \in Threads
  PROVE  /\ Leave(t) => work'[t].pc = "idle"
         /\ \A pc : Goto(t, pc) => work'[t].pc = pc
         /\ \A row : Reload(t, row) =>
              work'[t].pc = "idle" \/ (work'[t].pc = "loop" /\ work'[t].row.state = row.state)
<1>1. Leave(t) => work'[t].pc = "idle"
  BY DEF RunShape, Leave, Idle, Handler
<1>2. \A pc : Goto(t, pc) => work'[t].pc = pc
  BY DEF RunShape, Goto
<1>3. ASSUME NEW row, Reload(t, row)
      PROVE  work'[t].pc = "idle" \/ (work'[t].pc = "loop" /\ work'[t].row.state = row.state)
  <2>1. Copy(row).state = row.state
    BY DEF Copy, Phase
  <2>2. work'[t] = Idle \/ work'[t] = Handler("loop", Copy(row))
    BY <1>3 DEF RunShape, Reload
  <2> QED BY <2>1, <2>2 DEF Idle, Handler
<1> QED BY <1>1, <1>2, <1>3

\* A handler that only looks on, or reads the draft in the phase of the gate.
LEMMA LooksOn ==
  ASSUME OneHandler, GateInv, NEW t \in Threads, run' = run, draft' = draft,
         \/ work'[t].pc \notin {"gate", "loop"}
         \/ work'[t].pc = "loop" /\ work'[t].row.state = run.state
         \/ /\ work'[t].pc = "gate" /\ work'[t].proof = draft
            /\ work[t].pc = "loop" /\ work[t].row.state = "latex_validate"
  PROVE  GateInv'
  BY DEF GateInv, GateCurrent, Gated, OneHandler

LEMMA HandlerGate ==
  ASSUME OneHandler, RunInv, GateInv, NEW t \in Threads, NextTask(t) \/ Crash(t)
  PROVE  GateInv'
<1>1. RunShape /\ DOMAIN work[t] = {"pc", "row", "proof", "dom", "branch"} /\ DOMAIN work = Threads
  BY DEF RunInv, RunShape
<1>2. draft' = draft
  BY DEF NextTask, Begin, Mechanics, PrepareBranchRound, ReadProof, CompleteGate, CopyFinal, CompleteFinal, Issuing,
     FindDomain, CreateDomain, FindBranch, MarkRunning, Issue, Crash, files
<1>3. \A u \in Threads : u = t
  BY DEF OneHandler
<1>4. CASE run' = run /\ (Leave(t) \/ Reload(t, run) \/ Goto(t, "copied"))
  <2>1. \/ work'[t].pc \notin {"gate", "loop"}
        \/ work'[t].pc = "loop" /\ work'[t].row.state = run.state
    BY <1>1, <1>4, HandlerStep
  <2> QED BY <1>2, <1>4, <2>1, LooksOn
<1>5. CASE ReadProof(t)
  <2>1. /\ run' = run /\ work[t].pc = "loop" /\ work[t].row.state = "latex_validate"
        /\ work' = [work EXCEPT ![t].pc = "gate", ![t].proof = draft]
    BY <1>5 DEF ReadProof, At
  <2>2. work'[t].pc = "gate" /\ work'[t].proof = draft
    BY <1>1, <2>1
  <2> QED BY <1>2, <2>1, <2>2, LooksOn
<1>6. CASE CompleteGate(t) /\ ~ (run' = run /\ Leave(t))
  <2> DEFINE passed == work[t].proof \in Clean
             after == IF passed THEN "verify" ELSE "repair"
             gate == IF passed THEN "pass" ELSE "fail"
  <2>1. /\ run' = [Moved(after) EXCEPT !.latex = passed, !.meta.gate = gate]
        /\ run.state = "latex_validate" /\ Reload(t, run') /\ work[t].pc = "gate"
    BY <1>6 DEF CompleteGate, GateOpen, MayMove, Transition, At
  <2>2. /\ after \in {"repair", "verify"}
        /\ after = "verify" => work[t].proof \in Clean
    OBVIOUS
  <2> HIDE DEF passed, after, gate
  <2>3. run'.state = after
    BY <1>1, <2>1, MovedState DEF RunShape
  <2>4. work[t].proof = draft
    BY <2>1 DEF GateInv, GateCurrent
  <2>5. \/ work'[t].pc \notin {"gate", "loop"}
        \/ work'[t].pc = "loop" /\ work'[t].row.state = after
    BY <1>1, <2>1, <2>3, HandlerStep
  <2> QED BY <1>2, <1>3, <2>2, <2>3, <2>4, <2>5 DEF GateInv, GateCurrent, Gated
<1>7. CASE \/ PrepareBranchRound(t) /\ ~ (run' = run /\ Reload(t, run))
           \/ CompleteFinal(t) /\ ~ (run' = run /\ Leave(t))
  <2>1. PICK after \in {"branch_run", "done"} :
          /\ run'.state = after /\ Reload(t, run') /\ (after = "done" => run.state = "finalize")
    <3>1. CASE PrepareBranchRound(t) /\ ~ (run' = run /\ Reload(t, run))
      <4>1. run' = [Moved("branch_run") EXCEPT !.round = @ + 1] /\ Reload(t, run')
        BY <3>1 DEF PrepareBranchRound, Transition
      <4>2. run'.state = "branch_run"
        BY <1>1, <4>1, MovedState DEF RunShape
      <4> QED BY <4>1, <4>2
    <3>2. CASE CompleteFinal(t) /\ ~ (run' = run /\ Leave(t))
      <4>1. run' = Moved("done") /\ Reload(t, run') /\ run.state = "finalize"
        BY <3>2 DEF CompleteFinal, Transition, MayMove
      <4> QED BY <1>1, <4>1, MovedState
    <3> QED BY <1>7, <3>1, <3>2
  <2>2. \/ work'[t].pc \notin {"gate", "loop"}
        \/ work'[t].pc = "loop" /\ work'[t].row.state = after
    BY <1>1, <2>1, HandlerStep
  <2> QED BY <1>2, <1>3, <2>1, <2>2 DEF GateInv, GateCurrent, Gated
<1>8. CASE Issuing(t) /\ ~ Leave(t)
  <2>1. run' = run /\ work'[t].pc \in {"create", "issue", "mark"}
    <3>1. CASE FindDomain(t)
      BY <1>1, <3>1 DEF FindDomain
    <3>2. CASE CreateDomain(t)
      BY <1>1, <3>2 DEF CreateDomain
    <3>3. CASE FindBranch(t)
      <4>1. PICK b : \/ work' = [work EXCEPT ![t].pc = "issue", ![t].dom = branches[b].dom]
                     \/ work' = [work EXCEPT ![t].pc = "mark", ![t].branch = b]
        BY <1>8, <3>3 DEF FindBranch
      <4> QED BY <1>1, <3>3, <4>1 DEF FindBranch
    <3>4. CASE MarkRunning(t)
      BY <1>1, <3>4 DEF MarkRunning
    <3> QED BY <1>8, <3>1, <3>2, <3>3, <3>4 DEF Issuing, Issue
  <2> QED BY <1>2, <2>1, LooksOn
<1>9. \/ run' = run /\ (Leave(t) \/ Reload(t, run) \/ Goto(t, "copied"))
      \/ ReadProof(t)
      \/ CompleteGate(t) /\ ~ (run' = run /\ Leave(t))
      \/ PrepareBranchRound(t) /\ ~ (run' = run /\ Reload(t, run))
      \/ CompleteFinal(t) /\ ~ (run' = run /\ Leave(t))
      \/ Issuing(t) /\ ~ Leave(t)
  <2>1. Issuing(t) => run' = run
    BY DEF Issuing, FindDomain, CreateDomain, FindBranch, MarkRunning, Issue
  <2>2. CopyFinal(t) => run' = run /\ (Leave(t) \/ Goto(t, "copied"))
    BY DEF CopyFinal
  <2>3. Begin(t) => run' = run /\ Reload(t, run)
    BY DEF Begin
  <2>4. Crash(t) => run' = run /\ Leave(t)
    BY DEF Crash
  <2> QED BY <2>1, <2>2, <2>3, <2>4 DEF NextTask, Mechanics
<1> QED BY <1>4, <1>5, <1>6, <1>7, <1>8, <1>9

LEMMA GateStands == OneHandler /\ RunInv /\ GateInv /\ [Next]_vars => GateInv'
<1> SUFFICES ASSUME OneHandler, RunInv, GateInv, [Next]_vars PROVE GateInv'
  OBVIOUS
<1>1. CASE UNCHANGED vars
  BY <1>1 DEF vars, files, GateInv, GateCurrent, Gated
<1>2. ASSUME NEW t \in Threads, NextTask(t) \/ Crash(t) PROVE GateInv'
  BY <1>2, HandlerGate
<1>3. CASE Cancel
  <2>1. run'.state = "cancelled" /\ UNCHANGED <<draft, work>>
    BY <1>3, MovedState DEF Cancel, Transition, files, RunInv
  <2> QED BY <2>1 DEF GateInv, GateCurrent, Gated
<1>4. CASE Commit
  <2>1. /\ UNCHANGED <<draft, work>> /\ run.state \in TaskStates
        /\ <<run.state, run'.state>> \in AllowedTransitions
    BY <1>4, CommitKeeps DEF Commit, RunInv, TasksOnly
  <2>2. /\ run'.state \notin {"verify", "done", "cancelled"}
        /\ run'.state = "finalize" => run.state = "verify"
    BY <2>1, TaskTransitions
  <2>3. run.state \notin {"latex_validate", "cancelled"}
    BY <2>1 DEF TaskStates, GeneratorStates
  <2> QED BY <2>1, <2>2, <2>3 DEF GateInv, GateCurrent, Gated
<1>5. CASE Submitted /\ ~ Commit
  <2>1. run' = run /\ work' = work
    BY <1>5 DEF Submitted, Open, WriteProof, WriteReport, WriteAudit, Prepare, Settle
  <2>2. draft' = draft \/ run.state \in {"assemble", "repair"}
    BY <1>5 DEF Submitted, Open, WriteProof, WriteReport, WriteAudit, Prepare, Settle, files
  <2> QED BY <2>1, <2>2 DEF GateInv, GateCurrent, Gated
<1> QED BY <1>1, <1>2, <1>3, <1>4, <1>5 DEF Next

----------------------------------------------------------------------------
(* Branches: handlers and transitions outside a submission.                *)

\* A handler that is about to do nothing it has prepared.
Free(w) == w.pc \notin {"create", "issue", "mark"}

LEMMA JoinRests ==
  ASSUME OneHandler, JoinInv, NEW t \in Threads, Free(work'[t]),
         UNCHANGED <<run, branches, domains, pending>>, caps' \subseteq caps
  PROVE  JoinInv'
<1>1. JoinShape' /\ BranchHasDomain' /\ DomainHasBranch' /\ SealedOutside'
  BY DEF JoinInv, JoinShape, BranchHasDomain, DomainHasBranch, SealedOutside
<1>2. CapsCurrent'
  BY DEF JoinInv, CapsCurrent, Worked
<1>3. HandlerCurrent'
  BY DEF OneHandler, HandlerCurrent, Free
<1>4. BranchPlan'
  BY DEF JoinInv, BranchPlan, SolvedBranches, InStatus
<1> QED BY <1>1, <1>2, <1>3, <1>4 DEF JoinInv

\* A transition outside the phases of the branches, or a cancellation.
LEMMA JoinMoves ==
  ASSUME OneHandler, JoinInv, NEW t \in Threads,
         UNCHANGED <<branches, domains, pending>>, caps' = {}, pending = None, run'.round = run.round,
         \/ run.state \notin {"branch_run", "cancelled"} /\ Free(work'[t])
         \/ run'.state = "cancelled" /\ work' = work
  PROVE  JoinInv'
<1>1. JoinShape' /\ BranchHasDomain' /\ DomainHasBranch' /\ SealedOutside'
  BY DEF JoinInv, JoinShape, BranchHasDomain, DomainHasBranch, SealedOutside
<1>2. CapsCurrent' /\ BranchPlan'
  BY DEF CapsCurrent, BranchPlan
<1>3. HandlerCurrent'
  <2>1. CASE Free(work'[t])
    BY <2>1 DEF OneHandler, HandlerCurrent, Free
  <2>2. CASE run'.state = "cancelled" /\ work' = work
    BY <2>2 DEF JoinInv, HandlerCurrent, Worked
  <2> QED BY <2>1, <2>2
<1> QED BY <1>1, <1>2, <1>3 DEF JoinInv

\* A new round: its branches and their domains are made together.
LEMMA RoundJoins ==
  ASSUME OneHandler, RunInv, JoinInv, NEW t \in Threads, PrepareBranchRound(t),
         ~ (run' = run /\ Reload(t, run))
  PROVE  JoinInv'
<1> DEFINE n == Len(domains)
           row(i) == [state |-> "branch_run", branch |-> <<run.round + 1, i>>, open |-> TRUE]
           rows == [i \in 1..BranchCount |-> row(i)]
<1>1. /\ run' = [Moved("branch_run") EXCEPT !.round = @ + 1]
      /\ caps' = {} /\ pending = None /\ pending' = pending /\ Reload(t, run')
      /\ run.state = "branch_prepare" /\ run.round < MaxRounds
      /\ domains' = domains \o rows
      /\ branches' = [b \in BranchIds |->
                        IF b \in NewRound
                        THEN [status |-> "pending", dom |-> n + b[2], result |-> "none"]
                        ELSE branches[b]]
  BY DEF PrepareBranchRound, Transition, MayMove
<1>2. run.round \in Nat /\ run'.round = run.round + 1 /\ run'.state = "branch_run"
  BY <1>1 DEF Moved, RunInv, RunShape, JoinInv, JoinShape
<1>3. BranchCount \in Nat \ {0} /\ MaxRounds \in Nat /\ None \notin BranchIds
  BY ConstantAssumption
<1>4. \A i \in 1..BranchCount : <<run.round + 1, i>> \in BranchIds /\ <<run.round + 1, i>> \in NewRound
  BY <1>1, <1>2, <1>3 DEF BranchIds, NewRound
<1>5. /\ rows \in Seq([state : TaskStates, branch : BranchIds \cup {None}, open : BOOLEAN])
      /\ Len(rows) = BranchCount
  BY <1>3, <1>4 DEF TaskStates
<1> DEFINE D == [state : TaskStates, branch : BranchIds \cup {None}, open : BOOLEAN]
<1>6. domains \in Seq(D) /\ n \in Nat
  BY DEF JoinInv, JoinShape
<1>7. /\ domains' \in Seq(D) /\ Len(domains') = n + BranchCount
      /\ \A d \in DOMAIN domains : d \in DOMAIN domains' /\ domains'[d] = domains[d]
      /\ \A i \in 1..BranchCount : n + i \in DOMAIN domains' /\ domains'[n + i] = row(i)
      /\ \A d \in DOMAIN domains' : d \in DOMAIN domains \/ \E i \in 1..BranchCount : d = n + i
  <2> HIDE DEF D
  <2>1. domains' \in Seq(D) /\ Len(domains') = n + BranchCount
    BY <1>1, <1>5, <1>6, ConcatProperties DEF D
  <2>2. \A d \in 1..(n + BranchCount) : domains'[d] = IF d <= n THEN domains[d] ELSE rows[d - n]
    <3> HIDE DEF rows
    <3> QED BY <1>1, <1>3, <1>5, <1>6, ConcatProperties DEF D
  <2>3. DOMAIN domains = 1..n /\ DOMAIN domains' = 1..(n + BranchCount)
    BY <1>6, <2>1
  <2> HIDE DEF n
  <2>4. \A i \in 1..BranchCount : n + i \in DOMAIN domains' /\ domains'[n + i] = row(i)
    <3> SUFFICES ASSUME NEW i \in 1..BranchCount PROVE n + i \in DOMAIN domains' /\ domains'[n + i] = row(i)
      OBVIOUS
    <3>1. n + i \in 1..(n + BranchCount) /\ ~ (n + i <= n) /\ (n + i) - n = i
      BY <1>3, <1>6
    <3> QED BY <2>2, <2>3, <3>1
  <2>5. \A d \in DOMAIN domains' : d \in DOMAIN domains \/ \E i \in 1..BranchCount : d = n + i
    <3> SUFFICES ASSUME NEW d \in 1..(n + BranchCount), ~ (d \in 1..n)
                 PROVE  \E i \in 1..BranchCount : d = n + i
      BY <2>3
    <3>1. d - n \in 1..BranchCount /\ d = n + (d - n)
      BY <1>3, <1>6
    <3> QED BY <3>1
  <2>6. \A d \in 1..n : d \in 1..(n + BranchCount) /\ d <= n
    BY <1>3, <1>6
  <2> QED BY <2>1, <2>2, <2>3, <2>4, <2>5, <2>6
<1> HIDE DEF D, n
<1>8. \A b \in BranchIds :
        \/ /\ b \notin NewRound /\ branches'[b] = branches[b]
        \/ /\ b \in NewRound /\ b[2] \in 1..BranchCount /\ b = <<run.round + 1, b[2]>>
           /\ branches'[b] = [status |-> "pending", dom |-> n + b[2], result |-> "none"]
  BY <1>1 DEF NewRound
<1>8a. \A b \in BranchIds :
        b \in NewRound => /\ DOMAIN branches'[b] = {"status", "dom", "result"}
                          /\ branches'[b].status = "pending" /\ branches'[b].dom = n + b[2]
  <2> SUFFICES ASSUME NEW b \in NewRound, b \in BranchIds
               PROVE  /\ DOMAIN branches'[b] = {"status", "dom", "result"}
                      /\ branches'[b].status = "pending" /\ branches'[b].dom = n + b[2]
    OBVIOUS
  <2>1. branches'[b] = [status |-> "pending", dom |-> n + b[2], result |-> "none"]
    BY <1>8
  <2> QED BY <2>1
<1>9. JoinShape'
  <2>1. DOMAIN branches' = BranchIds
    BY <1>1
  <2>2. \A b \in BranchIds : /\ DOMAIN branches'[b] = {"status", "dom", "result"}
                             /\ branches'[b].status \in {"none", "pending", "running", "sealed"}
    BY <1>8, <1>8a DEF JoinInv, JoinShape
  <2> QED BY <1>2, <1>7, <2>1, <2>2 DEF JoinShape, D
<1>10. BranchHasDomain'
  <2> SUFFICES ASSUME NEW b \in BranchIds
               PROVE  IF branches'[b].status = "none" THEN branches'[b].result = "none"
                      ELSE branches'[b].dom \in DOMAIN domains' /\ domains'[branches'[b].dom].branch = b
    BY DEF BranchHasDomain
  <2>1. CASE b \notin NewRound
    BY <1>7, <1>8, <2>1 DEF JoinInv, BranchHasDomain
  <2>2. CASE b \in NewRound
    <3>1. /\ b[2] \in 1..BranchCount /\ b = <<run.round + 1, b[2]>>
          /\ branches'[b].status = "pending" /\ branches'[b].dom = n + b[2]
      BY <1>8, <1>8a, <2>2
    <3>2. n + b[2] \in DOMAIN domains' /\ domains'[n + b[2]].branch = <<run.round + 1, b[2]>>
      <4>1. n + b[2] \in DOMAIN domains' /\ domains'[n + b[2]] = row(b[2])
        BY <1>7, <3>1
      <4> QED BY <4>1
    <3> QED BY <3>1, <3>2
  <2> QED BY <2>1, <2>2
<1>11. DomainHasBranch'
  <2> SUFFICES ASSUME NEW d \in DOMAIN domains'
               PROVE  /\ domains'[d].state = "branch_run" <=> domains'[d].branch # None
                      /\ domains'[d].branch # None => /\ branches'[domains'[d].branch].dom = d
                                                      /\ domains'[d].branch[1] <= run'.round
    BY DEF DomainHasBranch
  <2>1. CASE d \in DOMAIN domains
    <3>1. domains'[d] = domains[d] /\ domains[d] \in D
      BY <1>6, <1>7, <2>1
    <3>2. CASE domains[d].branch = None
      BY <2>1, <3>1, <3>2 DEF JoinInv, DomainHasBranch
    <3>3. CASE domains[d].branch # None
      <4> DEFINE b == domains[d].branch
      <4>1. b \in BranchIds /\ branches[b].dom = d /\ b[1] <= run.round /\ domains[d].state = "branch_run"
        BY <2>1, <3>1, <3>3 DEF JoinInv, DomainHasBranch, D
      <4>2. b[1] \in Nat
        BY <4>1 DEF BranchIds
      <4> HIDE DEF b
      <4>3. b \notin NewRound /\ b[1] <= run'.round
        BY <1>2, <4>1, <4>2 DEF NewRound
      <4>4. branches'[b] = branches[b] /\ b[1] <= run'.round
        BY <1>8, <4>1, <4>3
      <4> QED BY <3>1, <4>1, <4>4, <3>3 DEF b
    <3> QED BY <3>2, <3>3
  <2>2. CASE d \notin DOMAIN domains
    <3>1. PICK i \in 1..BranchCount : d = n + i
      BY <1>7, <2>2
    <3>2. /\ domains'[d].state = "branch_run" /\ domains'[d].branch = <<run.round + 1, i>>
      <4>1. domains'[d] = row(i)
        BY <1>7, <3>1
      <4> QED BY <4>1
    <3>3. branches'[<<run.round + 1, i>>].dom = n + i
      <4>1. <<run.round + 1, i>> \in BranchIds /\ <<run.round + 1, i>> \in NewRound
        BY <1>4
      <4> QED BY <1>8a, <4>1
    <3>4. <<run.round + 1, i>> # None /\ <<run.round + 1, i>>[1] <= run'.round
      BY <1>2, <1>3, <1>4
    <3> QED BY <3>1, <3>2, <3>3, <3>4
  <2> QED BY <2>1, <2>2
<1>12. SealedOutside' /\ CapsCurrent' /\ BranchPlan'
  BY <1>1, <1>2 DEF SealedOutside, CapsCurrent, BranchPlan
<1>13. HandlerCurrent'
  <2>1. Free(work'[t])
    BY <1>1, HandlerStep DEF RunInv, Free
  <2> QED BY <2>1 DEF OneHandler, HandlerCurrent, Free
<1> QED BY <1>9, <1>10, <1>11, <1>12, <1>13 DEF JoinInv

\* The last of some domains is one of them.
LEMMA MaxIsIn ==
  ASSUME NEW n \in Nat, NEW S \in SUBSET (1..n), S # {}
  PROVE  Max(S) \in S
<1> DEFINE Bounds == { u \in Nat : \A x \in S : x <= u }
<1>1. PICK m \in Bounds : \A u \in Bounds : ~ (<<u, m>> \in OpToRel(<, Nat))
  <2>1. n \in Bounds /\ Bounds \subseteq Nat
    OBVIOUS
  <2> HIDE DEF Bounds
  <2> QED BY <2>1, NatLessThanWellFounded, WFMin
<1>2. m \in S
  <2> SUFFICES ASSUME m \notin S PROVE FALSE
    OBVIOUS
  <2>1. m \in Nat /\ \A x \in S : x <= m
    OBVIOUS
  <2>2. \A x \in S : x \in Nat /\ x # 0 /\ x # m
    OBVIOUS
  <2>3. m - 1 \in Nat /\ \A x \in S : x <= m - 1
    <3>1. \A x \in S : m # 0 /\ x <= m - 1
      BY <2>1, <2>2
    <3>2. PICK x : x \in S
      OBVIOUS
    <3> QED BY <2>1, <3>1, <3>2
  <2>4. <<m - 1, m>> \in OpToRel(<, Nat)
    BY <2>1, <2>3 DEF OpToRel
  <2> QED BY <1>1, <2>3, <2>4
<1>3. \A y \in S : m >= y
  OBVIOUS
<1> QED BY <1>2, <1>3 DEF Max

LEMMA FoundIsOpen ==
  ASSUME JoinInv, NEW s, OpenDomains(s) # {}
  PROVE  /\ Max(OpenDomains(s)) \in DOMAIN domains
         /\ domains[Max(OpenDomains(s))].state = s
<1>1. Len(domains) \in Nat /\ DOMAIN domains = 1..Len(domains)
  BY DEF JoinInv, JoinShape
<1>2. OpenDomains(s) \in SUBSET (1..Len(domains))
  BY <1>1 DEF OpenDomains
<1>3. Max(OpenDomains(s)) \in OpenDomains(s)
  BY <1>1, <1>2, MaxIsIn
<1> QED BY <1>3 DEF OpenDomains

\* A handler that goes on; no row changes.
LEMMA HandlerJoins ==
  ASSUME OneHandler, JoinInv, NEW t \in Threads,
         UNCHANGED <<run, branches, domains, pending, caps>>,
         work'[t].pc = "create" => work'[t].row.state \in TaskStates \ {"branch_run"},
         work'[t].pc = "issue" => /\ work'[t].dom \in DOMAIN domains
                                  /\ domains[work'[t].dom].branch # None => Worked(work'[t].dom),
         work'[t].pc = "mark" => /\ work'[t].branch \in BranchIds
                                 /\ run.state \in {"branch_run", "cancelled"}
                                 /\ branches[work'[t].branch].status = "pending"
                                 /\ InStatus("running") = {}
                                 /\ run.state = "branch_run" => pending = None
  PROVE  JoinInv'
<1>1. JoinShape' /\ BranchHasDomain' /\ DomainHasBranch' /\ SealedOutside' /\ CapsCurrent' /\ BranchPlan'
  BY DEF JoinInv, JoinShape, BranchHasDomain, DomainHasBranch, SealedOutside, CapsCurrent, Worked,
     BranchPlan, SolvedBranches, InStatus
<1>2. HandlerCurrent'
  BY DEF OneHandler, HandlerCurrent, Worked, InStatus
<1> QED BY <1>1, <1>2 DEF JoinInv

LEMMA DomainTyped ==
  ASSUME JoinShape, NEW d \in DOMAIN domains
  PROVE  domains[d].branch \in BranchIds \cup {None}
<1> DEFINE D == [state : TaskStates, branch : BranchIds \cup {None}, open : BOOLEAN]
<1>1. domains \in Seq(D)
  BY DEF JoinShape
<1> HIDE DEF D
<1>2. domains[d] \in D
  BY <1>1
<1> QED BY <1>2 DEF D

\* While no branch runs, nothing has been submitted in the phase of the branches.
LEMMA NoneRuns ==
  ASSUME JoinInv, InStatus("running") = {}, run.state = "branch_run"
  PROVE  pending = None
<1> SUFFICES ASSUME pending # None PROVE FALSE
  OBVIOUS
<1>1. Worked(pending.cap.dom)
  BY DEF JoinInv, CapsCurrent
<1>2. domains[pending.cap.dom].branch \in BranchIds
  BY <1>1, DomainTyped DEF JoinInv, Worked
<1> QED BY <1>1, <1>2 DEF Worked, InStatus

\* A branch that is not sealed is worked on in this phase.
LEMMA UnsealedPhase ==
  ASSUME JoinInv, NEW b \in BranchIds, branches[b].status \in {"pending", "running"}
  PROVE  run.state \in {"branch_run", "cancelled"}
  BY DEF JoinInv, SealedOutside

LEMMA FindJoins ==
  ASSUME OneHandler, RunInv, JoinInv, NEW t \in Threads, FindDomain(t) \/ FindBranch(t), ~ Leave(t)
  PROVE  JoinInv'
<1>1. /\ UNCHANGED <<run, branches, domains, pending, caps>>
      /\ DOMAIN work[t] = {"pc", "row", "proof", "dom", "branch"} /\ DOMAIN work = Threads
  BY DEF FindDomain, FindBranch, RunInv, RunShape
<1>2. CASE FindDomain(t)
  <2> DEFINE found == OpenDomains(work[t].row.state)
             dom == IF found = {} THEN 0 ELSE Max(found)
             pc == IF found = {} THEN "create" ELSE "issue"
  <2>1. /\ work' = [work EXCEPT ![t].pc = pc, ![t].dom = dom]
        /\ work[t].row.state \in TaskStates \ {"branch_run"}
    BY <1>2 DEF FindDomain
  <2>2. pc = "issue" => dom \in DOMAIN domains /\ domains[dom].state = work[t].row.state
    BY FoundIsOpen
  <2>3. pc \in {"create", "issue"}
    OBVIOUS
  <2> HIDE DEF pc, dom
  <2>4. work'[t].pc = pc /\ work'[t].dom = dom /\ work'[t].row = work[t].row
    BY <1>1, <2>1
  <2>5. pc = "issue" => domains[dom].branch = None
    BY <2>1, <2>2 DEF JoinInv, DomainHasBranch
  <2> QED BY <1>1, <2>1, <2>2, <2>3, <2>4, <2>5, HandlerJoins
<1>3. CASE FindBranch(t)
  <2>1. CASE \E b \in Earliest(InStatus("running")) :
               work' = [work EXCEPT ![t].pc = "issue", ![t].dom = branches[b].dom]
    <3>1. PICK b \in BranchIds : /\ branches[b].status = "running"
                                 /\ work' = [work EXCEPT ![t].pc = "issue", ![t].dom = branches[b].dom]
      BY <2>1 DEF Earliest, InStatus
    <3>2. work'[t].pc = "issue" /\ work'[t].dom = branches[b].dom
      BY <1>1, <3>1
    <3>3. branches[b].dom \in DOMAIN domains /\ domains[branches[b].dom].branch = b
      BY <3>1 DEF JoinInv, BranchHasDomain
    <3>4. domains[branches[b].dom].branch # None => Worked(branches[b].dom)
      BY <3>1, <3>3 DEF Worked
    <3> QED BY <1>1, <3>2, <3>3, <3>4, HandlerJoins
  <2>2. CASE /\ InStatus("running") = {}
             /\ \E b \in Earliest(InStatus("pending")) :
                  work' = [work EXCEPT ![t].pc = "mark", ![t].branch = b]
    <3>1. PICK b \in BranchIds : /\ branches[b].status = "pending"
                                 /\ work' = [work EXCEPT ![t].pc = "mark", ![t].branch = b]
      BY <2>2 DEF Earliest, InStatus
    <3>2. work'[t].pc = "mark" /\ work'[t].branch = b
      BY <1>1, <3>1
    <3>3. run.state \in {"branch_run", "cancelled"}
      BY <3>1, UnsealedPhase
    <3> QED BY <1>1, <2>2, <3>1, <3>2, <3>3, NoneRuns, HandlerJoins
  <2> QED BY <1>3, <2>1, <2>2 DEF FindBranch
<1> QED BY <1>2, <1>3

LEMMA CreateJoins ==
  ASSUME OneHandler, RunInv, JoinInv, NEW t \in Threads, CreateDomain(t)
  PROVE  JoinInv'
<1> DEFINE n == Len(domains)
           D == [state : TaskStates, branch : BranchIds \cup {None}, open : BOOLEAN]
           new == [state |-> work[t].row.state, branch |-> None, open |-> TRUE]
<1>1. /\ UNCHANGED <<run, branches, pending, caps>> /\ domains' = Append(domains, new)
      /\ work' = [work EXCEPT ![t].pc = "issue", ![t].dom = n + 1] /\ work[t].pc = "create"
      /\ DOMAIN work[t] = {"pc", "row", "proof", "dom", "branch"} /\ DOMAIN work = Threads
  BY DEF CreateDomain, At, RunInv, RunShape
<1>2. work[t].row.state \in TaskStates \ {"branch_run"} /\ new \in D
  BY <1>1 DEF JoinInv, HandlerCurrent
<1>3. /\ new.branch = None /\ new.state # "branch_run" /\ new.open = TRUE
  BY <1>2
<1>4. domains \in Seq(D) /\ n \in Nat
  BY DEF JoinInv, JoinShape
<1> HIDE DEF new, D
<1>5. /\ domains' \in Seq(D) /\ n + 1 \in DOMAIN domains' /\ domains'[n + 1] = new
      /\ \A d \in DOMAIN domains : d \in DOMAIN domains' /\ domains'[d] = domains[d]
      /\ \A d \in DOMAIN domains' : d \in DOMAIN domains \/ d = n + 1
  BY <1>1, <1>2, <1>4
<1> HIDE DEF n
<1>6. JoinShape' /\ SealedOutside'
  BY <1>1, <1>5 DEF JoinInv, JoinShape, SealedOutside, D
<1>7. BranchHasDomain'
  BY <1>1, <1>5 DEF JoinInv, BranchHasDomain
<1>8. DomainHasBranch'
  <2> SUFFICES ASSUME NEW d \in DOMAIN domains'
               PROVE  /\ domains'[d].state = "branch_run" <=> domains'[d].branch # None
                      /\ domains'[d].branch # None => /\ branches[domains'[d].branch].dom = d
                                                      /\ domains'[d].branch[1] <= run.round
    BY <1>1 DEF DomainHasBranch
  <2>1. CASE d \in DOMAIN domains
    BY <1>5, <2>1 DEF JoinInv, DomainHasBranch
  <2>2. CASE d = n + 1
    BY <1>3, <1>5, <2>2
  <2> QED BY <1>5, <2>1, <2>2
<1>9. \A d : Worked(d) => d \in DOMAIN domains /\ Worked(d)'
  BY <1>1, <1>5 DEF Worked
<1>10. CapsCurrent' /\ BranchPlan'
  BY <1>1, <1>5, <1>9 DEF JoinInv, CapsCurrent, BranchPlan, SolvedBranches, InStatus
<1>11. HandlerCurrent'
  <2>1. work'[t].pc = "issue" /\ work'[t].dom = n + 1
    BY <1>1
  <2> QED BY <1>3, <1>5, <2>1 DEF OneHandler, HandlerCurrent
<1> QED BY <1>6, <1>7, <1>8, <1>10, <1>11 DEF JoinInv

\* A branch is marked before its domain is issued.
LEMMA MarkJoins ==
  ASSUME OneHandler, RunInv, JoinInv, NEW t \in Threads, MarkRunning(t)
  PROVE  JoinInv'
<1> DEFINE b == work[t].branch
<1>1. /\ UNCHANGED <<run, domains, pending, caps>> /\ branches' = [branches EXCEPT ![b].status = "running"]
      /\ work' = [work EXCEPT ![t].pc = "issue", ![t].dom = branches[b].dom] /\ work[t].pc = "mark"
      /\ DOMAIN work[t] = {"pc", "row", "proof", "dom", "branch"} /\ DOMAIN work = Threads
  BY DEF MarkRunning, At, RunInv, RunShape
<1>2. /\ b \in BranchIds /\ run.state \in {"branch_run", "cancelled"}
      /\ run.state = "branch_run" => pending = None
      /\ branches[b].status # "none"
  BY <1>1 DEF JoinInv, HandlerCurrent
<1>3. pending = None
  BY <1>2, PhasesDiffer DEF RunInv, TasksOnly, Ended
<1>4. work'[t].pc = "issue" /\ work'[t].dom = branches[b].dom
  BY <1>1
<1> HIDE DEF b
<1>5. /\ DOMAIN branches' = BranchIds /\ branches'[b].status = "running"
      /\ \A c \in BranchIds : /\ DOMAIN branches'[c] = {"status", "dom", "result"}
                              /\ branches'[c].dom = branches[c].dom /\ branches'[c].result = branches[c].result
                              /\ c # b => branches'[c] = branches[c]
  BY <1>1, <1>2 DEF JoinInv, JoinShape
<1>6. JoinShape'
  BY <1>1, <1>5 DEF JoinInv, JoinShape
<1>7. BranchHasDomain'
  BY <1>1, <1>2, <1>5 DEF JoinInv, BranchHasDomain
<1>8. \A d \in DOMAIN domains : domains[d].branch \in BranchIds \cup {None}
  BY DomainTyped DEF JoinInv
<1>9. DomainHasBranch'
  BY <1>1, <1>5, <1>8 DEF JoinInv, DomainHasBranch
<1>10. \A d : Worked(d) => Worked(d)'
  BY <1>1, <1>5, <1>8 DEF Worked
<1>11. SealedOutside' /\ CapsCurrent' /\ BranchPlan'
  BY <1>1, <1>2, <1>3, <1>10 DEF JoinInv, SealedOutside, CapsCurrent, BranchPlan
<1>12. HandlerCurrent'
  <2>1. branches[b].dom \in DOMAIN domains /\ domains[branches[b].dom].branch = b
    BY <1>2 DEF JoinInv, BranchHasDomain
  <2>2. PICK d : d = branches[b].dom
    OBVIOUS
  <2>3. d \in DOMAIN domains' /\ (b # None => Worked(d)')
    BY <1>1, <1>5, <2>1, <2>2 DEF Worked
  <2> QED BY <1>1, <1>4, <2>1, <2>2, <2>3 DEF OneHandler, HandlerCurrent
<1> QED BY <1>6, <1>7, <1>9, <1>11, <1>12 DEF JoinInv

LEMMA IssueJoins ==
  ASSUME OneHandler, RunInv, JoinInv, NEW t \in Threads, Issue(t)
  PROVE  JoinInv'
<1> DEFINE cap == [dom |-> work[t].dom, epoch |-> run.epoch, state |-> run.state]
<1>1. /\ UNCHANGED <<run, branches, domains, pending>> /\ Leave(t) /\ work[t].pc = "issue"
      /\ caps' = IF MayIssue(t) THEN caps \cup {cap} ELSE caps
  BY DEF Issue, At
<1>2. Free(work'[t])
  BY <1>1, HandlerStep DEF RunInv, Free
<1>3. CASE caps' = caps
  BY <1>1, <1>2, <1>3, JoinRests
<1>4. CASE caps' = caps \cup {cap} /\ MayIssue(t)
  <2>1. JoinShape' /\ BranchHasDomain' /\ DomainHasBranch' /\ SealedOutside' /\ BranchPlan'
    BY <1>1 DEF JoinInv, JoinShape, BranchHasDomain, DomainHasBranch, SealedOutside, BranchPlan,
       SolvedBranches, InStatus
  <2>2. HandlerCurrent'
    BY <1>2 DEF OneHandler, HandlerCurrent, Free
  <2>3. run.state = "branch_run" => Worked(work[t].dom)
    <3> SUFFICES ASSUME run.state = "branch_run" PROVE Worked(work[t].dom)
      OBVIOUS
    <3>1. /\ domains[work[t].dom].open /\ Role(domains[work[t].dom].state) = "branch_run"
      BY <1>4 DEF MayIssue, Role, GeneratorStates
    <3>2. domains[work[t].dom].state = "branch_run" /\ work[t].dom \in DOMAIN domains
      BY <1>1, <3>1 DEF Role, JoinInv, HandlerCurrent
    <3>3. domains[work[t].dom].branch # None
      BY <3>2 DEF JoinInv, DomainHasBranch
    <3> QED BY <1>1, <3>1, <3>3 DEF JoinInv, HandlerCurrent
  <2>4. \A c \in caps' : c.state = run.state /\ (run.state = "branch_run" => Worked(c.dom))
    <3> SUFFICES ASSUME NEW c \in caps'
                 PROVE  c.state = run.state /\ (run.state = "branch_run" => Worked(c.dom))
      OBVIOUS
    <3>1. CASE c \in caps
      BY <3>1 DEF JoinInv, CapsCurrent
    <3>2. CASE c = cap
      BY <2>3, <3>2
    <3> QED BY <1>4, <3>1, <3>2
  <2>5. CapsCurrent'
    BY <1>1, <2>4 DEF JoinInv, CapsCurrent, Worked
  <2> QED BY <2>1, <2>2, <2>5 DEF JoinInv
<1> QED BY <1>1, <1>3, <1>4

\* Every step of a handler.
LEMMA HandlerJoin ==
  ASSUME OneHandler, RunInv, JoinInv, NEW t \in Threads, NextTask(t) \/ Crash(t)
  PROVE  JoinInv'
<1>1. CASE UNCHANGED <<run, branches, domains, pending, caps>> /\ Free(work'[t])
  BY <1>1, JoinRests
<1>2. CASE Leave(t) \/ Reload(t, run) \/ Reload(t, run') \/ Goto(t, "copied") \/ ReadProof(t)
  <2>1. Free(work'[t])
    <3>1. CASE Reload(t, run) \/ Reload(t, run')
      BY <3>1, HandlerStep DEF RunInv, Free
    <3>2. CASE Leave(t) \/ Goto(t, "copied")
      BY <3>2, HandlerStep DEF RunInv, Free
    <3>3. CASE ReadProof(t)
      BY <3>3 DEF ReadProof, Free, RunInv, RunShape
    <3> QED BY <1>2, <3>1, <3>2, <3>3
  <2>2. CASE PrepareBranchRound(t)
    <3>1. CASE run' = run /\ Reload(t, run)
      <4>1. ~ (run' = [Moved("branch_run") EXCEPT !.round = @ + 1] /\ run.state = "branch_prepare")
        BY <3>1, MovedState DEF RunInv, RunShape
      <4>2. UNCHANGED <<run, branches, domains, caps, pending>>
        BY <2>2, <4>1 DEF PrepareBranchRound, MayMove, Transition
      <4> QED BY <2>1, <4>2, JoinRests
    <3> QED BY <2>2, <3>1, RoundJoins
  <2>3. CASE (CompleteGate(t) \/ CompleteFinal(t)) /\ UNCHANGED <<run, caps>>
    BY <2>1, <2>3, JoinRests DEF CompleteGate, CompleteFinal
  <2>4. CASE CompleteGate(t) /\ ~ UNCHANGED <<run, caps>>
    <3> DEFINE passed == work[t].proof \in Clean
               after == IF passed THEN "verify" ELSE "repair"
               gate == IF passed THEN "pass" ELSE "fail"
    <3>1. /\ run' = [Moved(after) EXCEPT !.latex = passed, !.meta.gate = gate] /\ caps' = {}
          /\ run.state = "latex_validate" /\ pending = None /\ UNCHANGED <<branches, domains, pending>>
      BY <2>4 DEF CompleteGate, GateOpen, MayMove, Transition
    <3> HIDE DEF passed, after, gate
    <3>2. run'.round = run.round
      BY <3>1 DEF Moved, RunInv, RunShape
    <3> QED BY <2>1, <3>1, <3>2, JoinMoves
  <2>5. CASE CompleteFinal(t) /\ ~ UNCHANGED <<run, caps>>
    <3>1. /\ run' = Moved("done") /\ caps' = {} /\ run.state = "finalize" /\ pending = None
          /\ UNCHANGED <<branches, domains, pending>>
      BY <2>5 DEF CompleteFinal, MayMove, Transition
    <3>2. run'.round = run.round
      BY <3>1 DEF Moved, RunInv, RunShape
    <3> QED BY <2>1, <3>1, <3>2, JoinMoves
  <2>6. CASE Begin(t) \/ ReadProof(t) \/ CopyFinal(t) \/ Crash(t)
    BY <2>1, <2>6, JoinRests DEF Begin, ReadProof, CopyFinal, Crash
  <2>7. CASE Issuing(t) /\ Leave(t)
    <3>1. CASE Issue(t)
      BY <3>1, IssueJoins
    <3>2. CASE FindDomain(t) \/ FindBranch(t)
      BY <2>1, <3>2, JoinRests DEF FindDomain, FindBranch
    <3>3. CASE CreateDomain(t) \/ MarkRunning(t)
      BY <3>3, CreateJoins, MarkJoins
    <3> QED BY <2>7, <3>1, <3>2, <3>3 DEF Issuing
  <2>8. CASE Issuing(t) /\ ~ Leave(t)
    BY <2>8, FindJoins, CreateJoins, MarkJoins, IssueJoins DEF Issuing
  <2> QED BY <2>2, <2>3, <2>4, <2>5, <2>6, <2>7, <2>8 DEF NextTask, Mechanics
<1>3. CASE Issuing(t) /\ ~ Leave(t)
  BY <1>3, FindJoins, CreateJoins, MarkJoins, IssueJoins DEF Issuing
<1>4. \/ Leave(t) \/ Reload(t, run) \/ Reload(t, run') \/ Goto(t, "copied") \/ ReadProof(t)
      \/ Issuing(t) /\ ~ Leave(t)
  BY DEF NextTask, Mechanics, Begin, PrepareBranchRound, CompleteGate, CopyFinal, CompleteFinal, Crash
<1> QED BY <1>2, <1>3, <1>4

----------------------------------------------------------------------------
(* Branches: submissions.                                                  *)

LEMMA OpenJoins ==
  ASSUME OneHandler, RunInv, JoinInv, NEW c \in caps, Open(c)
  PROVE  JoinInv'
<1>1. /\ UNCHANGED <<run, branches, domains, caps, work>>
      /\ pending' = [cap |-> c, plan |-> None]
  BY DEF Open
<1>2. pending'.cap = c /\ pending'.plan = None
  BY <1>1
<1>3. JoinShape' /\ BranchHasDomain' /\ DomainHasBranch' /\ SealedOutside' /\ BranchPlan'
  BY <1>1, <1>2 DEF JoinInv, JoinShape, BranchHasDomain, DomainHasBranch, SealedOutside, BranchPlan
<1>4. run.state = "branch_run" => Worked(c.dom)
  BY DEF JoinInv, CapsCurrent
<1>5. CapsCurrent'
  BY <1>1, <1>2, <1>4 DEF JoinInv, CapsCurrent, Worked
<1>6. run.state = "branch_run" => InStatus("running") # {}
  BY <1>4, DomainTyped DEF JoinInv, Worked, InStatus
<1>7. HandlerCurrent'
  BY <1>1, <1>6 DEF JoinInv, HandlerCurrent, Worked, InStatus
<1> QED BY <1>3, <1>5, <1>7 DEF JoinInv

LEMMA WriteJoins ==
  ASSUME JoinInv,
         \/ \E p \in Proofs : WriteProof(p)
         \/ \E clean \in BOOLEAN : WriteReport(clean)
         \/ \E resolved \in BOOLEAN : WriteAudit(resolved)
  PROVE  JoinInv'
<1>1. UNCHANGED <<run, branches, domains, caps, pending, work>>
  BY DEF WriteProof, WriteReport, WriteAudit
<1> QED
  BY <1>1 DEF JoinInv, JoinShape, BranchHasDomain, DomainHasBranch, SealedOutside, CapsCurrent,
     HandlerCurrent, BranchPlan, Worked, SolvedBranches, InStatus

LEMMA SettleJoins ==
  ASSUME RunInv, JoinInv, Settle
  PROVE  JoinInv'
<1>1. UNCHANGED <<run, branches, domains, work>> /\ caps' \subseteq caps /\ pending' = None
  BY DEF Settle
<1> QED
  BY <1>1 DEF JoinInv, JoinShape, BranchHasDomain, DomainHasBranch, SealedOutside, CapsCurrent,
     HandlerCurrent, BranchPlan, Worked, InStatus

\* The branch a plan is about is its domain's, and a join that fails has looked.
LEMMA OutcomeBranch ==
  ASSUME run.state \in TaskStates, NEW p \in Outcomes
  PROVE  /\ p.branch = IF run.state = "branch_run" THEN domains[pending.cap.dom].branch ELSE None
         /\ run.state = "branch_join" /\ p.after = "identify_failures" => SolvedBranches = {}
<1>1. CASE run.state = "assess"
  <2>1. Outcomes = AssessmentComplete
    BY <1>1 DEF Outcomes
  <2> QED BY <1>1, <2>1 DEF AssessmentComplete, Plan
<1>2. CASE run.state = "explore"
  <2>1. Outcomes = { Plan("propose_plans", run.meta) }
    BY <1>2 DEF Outcomes
  <2> QED BY <1>2, <2>1 DEF Plan
<1>3. CASE run.state = "propose_plans"
  <2>1. Outcomes = { Plan("direct_proving", run.meta) }
    BY <1>3 DEF Outcomes
  <2> QED BY <1>3, <2>1 DEF Plan
<1>4. CASE run.state = "direct_proving"
  <2>1. Outcomes = DirectProvingComplete
    BY <1>4 DEF Outcomes
  <2> QED BY <1>4, <2>1 DEF DirectProvingComplete, Plan
<1>5. CASE run.state = "branch_run"
  <2>1. Outcomes = BranchComplete
    BY <1>5 DEF Outcomes
  <2> QED BY <1>5, <2>1 DEF BranchComplete, Plan
<1>6. CASE run.state = "branch_join"
  <2>1. Outcomes = JoinComplete
    BY <1>6 DEF Outcomes
  <2> QED BY <1>6, <2>1 DEF JoinComplete, Plan
<1>7. CASE run.state = "identify_failures"
  <2>1. Outcomes = { Plan("replan", run.meta) }
    BY <1>7 DEF Outcomes
  <2> QED BY <1>7, <2>1 DEF Plan
<1>8. CASE run.state = "replan"
  <2>1. Outcomes = { Plan("propose_plans", run.meta) }
    BY <1>8 DEF Outcomes
  <2> QED BY <1>8, <2>1 DEF Plan
<1>9. CASE run.state = "assemble"
  <2>1. Outcomes = ProofSubmitted
    BY <1>9 DEF Outcomes
  <2> QED BY <1>9, <2>1 DEF ProofSubmitted, Plan
<1>10. CASE run.state = "verify"
  <2>1. Outcomes = VerificationSubmitted
    BY <1>10 DEF Outcomes
  <2> QED BY <1>10, <2>1 DEF VerificationSubmitted, Plan
<1>11. CASE run.state = "repair"
  <2>1. Outcomes = RepairSubmitted
    BY <1>11 DEF Outcomes
  <2> QED BY <1>11, <2>1 DEF RepairSubmitted, Plan
<1> QED BY <1>1, <1>2, <1>3, <1>4, <1>5, <1>6, <1>7, <1>8, <1>9, <1>10, <1>11 DEF TaskStates, GeneratorStates

\* A prepared plan: the result of its branch, which runs, is on file.
LEMMA PrepareJoins ==
  ASSUME RunInv, JoinInv, NEW p \in Outcomes, NEW result, Prepare(p, result)
  PROVE  JoinInv'
<1>1. /\ UNCHANGED <<run, domains, caps, work>> /\ pending # None
      /\ pending' = [pending EXCEPT !.plan = p]
      /\ branches' = IF p.branch = None THEN branches ELSE [branches EXCEPT ![p.branch].result = result]
  BY DEF Prepare, Writing
<1>2. run.state \in TaskStates
  BY <1>1 DEF RunInv, TasksOnly
<1>3. /\ p.branch = IF run.state = "branch_run" THEN domains[pending.cap.dom].branch ELSE None
      /\ run.state = "branch_join" /\ p.after = "identify_failures" => SolvedBranches = {}
  BY <1>2, OutcomeBranch
<1>4. pending'.cap = pending.cap /\ pending'.plan = p
  BY <1>1 DEF RunInv, RunShape
<1>5. /\ DOMAIN branches' = BranchIds
      /\ \A b \in BranchIds : /\ DOMAIN branches'[b] = {"status", "dom", "result"}
                              /\ branches'[b].dom = branches[b].dom /\ branches'[b].status = branches[b].status
                              /\ b # p.branch => branches'[b].result = branches[b].result
  <2>1. CASE p.branch = None
    BY <1>1, <2>1 DEF JoinInv, JoinShape
  <2>2. CASE p.branch # None
    <3> DEFINE b == p.branch
    <3>1. branches' = [branches EXCEPT ![b].result = result]
      BY <1>1, <2>2
    <3> HIDE DEF b
    <3>2. /\ DOMAIN branches' = BranchIds
          /\ \A c \in BranchIds : /\ DOMAIN branches'[c] = {"status", "dom", "result"}
                                  /\ branches'[c].dom = branches[c].dom /\ branches'[c].status = branches[c].status
                                  /\ c # b => branches'[c].result = branches[c].result
      BY <3>1 DEF JoinInv, JoinShape
    <3> QED BY <3>2 DEF b
  <2> QED BY <2>1, <2>2
<1>6. p.branch # None => branches[p.branch].status = "running"
  BY <1>1, <1>3 DEF JoinInv, CapsCurrent, Worked
<1>7. \A b \in BranchIds : branches[b].status = "none" => branches'[b].result = branches[b].result
  BY <1>5, <1>6, ConstantAssumption
<1>8. \A d \in DOMAIN domains : domains[d].branch \in BranchIds \cup {None}
  BY DomainTyped DEF JoinInv
<1>9. \A d : Worked(d) => Worked(d)'
  BY <1>1, <1>5, <1>8 DEF Worked
<1>10. JoinShape' /\ BranchHasDomain' /\ DomainHasBranch' /\ SealedOutside'
  <2>1. JoinShape' /\ SealedOutside'
    BY <1>1, <1>5 DEF JoinInv, JoinShape, SealedOutside
  <2>2. BranchHasDomain'
    BY <1>1, <1>5, <1>7 DEF JoinInv, BranchHasDomain
  <2>3. DomainHasBranch'
    BY <1>1, <1>5, <1>8 DEF JoinInv, DomainHasBranch
  <2> QED BY <2>1, <2>2, <2>3
<1>11. CapsCurrent'
  BY <1>1, <1>4, <1>9 DEF JoinInv, CapsCurrent
<1>12. HandlerCurrent'
  BY <1>1, <1>5, <1>9 DEF JoinInv, HandlerCurrent
<1>13. BranchPlan'
  <2>1. run.state = "branch_join" => branches' = branches
    BY <1>1, <1>3
  <2> QED BY <1>1, <1>3, <1>4, <2>1 DEF BranchPlan, SolvedBranches, InStatus
<1> QED BY <1>10, <1>11, <1>12, <1>13 DEF JoinInv

\* A commit seals the branch of its domain, and only the last one leads to the join.
LEMMA CommitJoins ==
  ASSUME RunInv, JoinInv, Commit
  PROVE  JoinInv'
<1> DEFINE p == pending.plan
           d == pending.cap.dom
<1>1. /\ work' = work /\ pending # None /\ p # None /\ BarrierAgrees(p)
      /\ run' = [Moved(p.after) EXCEPT !.verdict = p.verdict, !.meta = p.meta]
      /\ caps' = {} /\ pending' = None
      /\ domains' = [domains EXCEPT ![d].open = FALSE]
      /\ branches' = IF p.branch = None THEN branches ELSE [branches EXCEPT ![p.branch].status = "sealed"]
  BY DEF Commit, Transition, SealDomain
<1>2. /\ run.state \in TaskStates /\ run.state # "cancelled"
      /\ p.branch = IF run.state = "branch_run" THEN domains[d].branch ELSE None
      /\ run.state = "branch_run" => Worked(d)
  BY <1>1, PhasesDiffer DEF RunInv, TasksOnly, JoinInv, BranchPlan, CapsCurrent, Ended
<1>3. run'.state = p.after /\ run'.round = run.round /\ <<run.state, run'.state>> \in AllowedTransitions
  <2>1. run'.state = p.after /\ run'.round = run.round
    BY <1>1 DEF Moved, RunInv, RunShape
  <2> QED BY <2>1, CommitKeeps
<1> DEFINE b == p.branch
<1>4. BarrierAgrees(p) => (b # None => (p.after = "branch_join" <=> Unsealed \subseteq {b}))
  BY DEF BarrierAgrees
<1> HIDE DEF p, d
<1>5. b # None => /\ run.state = "branch_run" /\ b \in BranchIds /\ branches[b].status = "running"
                  /\ d \in DOMAIN domains /\ domains[d].branch = b /\ branches[b].dom = d
  BY <1>2, DomainTyped DEF JoinInv, Worked, DomainHasBranch
<1>6. run.state = "branch_run" => b # None
  BY <1>2 DEF Worked
<1> HIDE DEF b
<1>7. /\ DOMAIN branches' = BranchIds
      /\ \A c \in BranchIds : /\ DOMAIN branches'[c] = {"status", "dom", "result"}
                              /\ branches'[c].dom = branches[c].dom /\ branches'[c].result = branches[c].result
                              /\ branches'[c].status = IF c = b /\ b # None THEN "sealed" ELSE branches[c].status
  <2>1. branches' = IF b = None THEN branches ELSE [branches EXCEPT ![b].status = "sealed"]
    BY <1>1 DEF b
  <2> QED BY <2>1, <1>5 DEF JoinInv, JoinShape
<1> DEFINE D == [state : TaskStates, branch : BranchIds \cup {None}, open : BOOLEAN]
<1>8. domains \in Seq(D)
  BY DEF JoinInv, JoinShape
<1>9. /\ domains' \in Seq(D) /\ DOMAIN domains' = DOMAIN domains
      /\ \A e \in DOMAIN domains : /\ domains'[e].state = domains[e].state
                                   /\ domains'[e].branch = domains[e].branch
                                   /\ e = d => domains'[e].open = FALSE
                                   /\ e # d => domains'[e] = domains[e]
  <2> DEFINE row == [domains[d] EXCEPT !.open = FALSE]
  <2>1. \A e \in DOMAIN domains : domains[e] \in D
    <3> HIDE DEF D
    <3> QED BY <1>8
  <2>2. d \in DOMAIN domains => /\ row \in D /\ row.open = FALSE
                                /\ row.state = domains[d].state /\ row.branch = domains[d].branch
    BY <2>1
  <2>3. domains' = [domains EXCEPT ![d] = row]
    BY <1>1
  <2> HIDE DEF D, row
  <2>4. DOMAIN domains' = DOMAIN domains
    BY <2>3
  <2>5. \A e \in DOMAIN domains : domains'[e] = IF e = d THEN row ELSE domains[e]
    BY <2>3
  <2>6. domains' \in Seq(D)
    <3>1. Len(domains) \in Nat /\ DOMAIN domains = 1..Len(domains)
      BY <1>8
    <3>2. \A e \in DOMAIN domains : domains'[e] \in D
      BY <2>1, <2>2, <2>5
    <3>3. domains' = [e \in 1..Len(domains) |-> domains'[e]]
      BY <2>3, <3>1
    <3>4. domains' \in [1..Len(domains) -> D]
      BY <3>1, <3>2, <3>3
    <3> QED BY <3>1, <3>4
  <2> QED BY <2>2, <2>4, <2>5, <2>6
<1> HIDE DEF D
<1>10. \A e \in DOMAIN domains : domains[e].branch \in BranchIds \cup {None}
  BY DomainTyped DEF JoinInv
<1>11. JoinShape'
  BY <1>3, <1>7, <1>9 DEF JoinInv, JoinShape, D
<1>12. BranchHasDomain'
  BY <1>5, <1>7, <1>9 DEF JoinInv, BranchHasDomain
<1>13. DomainHasBranch'
  <2> SUFFICES ASSUME NEW e \in DOMAIN domains
               PROVE  /\ domains'[e].state = "branch_run" <=> domains'[e].branch # None
                      /\ domains'[e].branch # None => /\ branches'[domains'[e].branch].dom = e
                                                      /\ domains'[e].branch[1] <= run'.round
    BY <1>9 DEF DomainHasBranch
  <2> QED BY <1>3, <1>7, <1>9, <1>10 DEF JoinInv, DomainHasBranch
<1>14. SealedOutside'
  <2> SUFFICES ASSUME run'.state # "branch_run", NEW c \in BranchIds
               PROVE  branches'[c].status \in {"none", "sealed"}
    BY DEF SealedOutside
  <2>1. CASE run.state = "branch_run"
    <3>1. run'.state = "branch_join" /\ b # None
      BY <1>3, <1>6, <2>1 DEF AllowedTransitions
    <3>2. Unsealed \subseteq {b}
      BY <1>1, <1>3, <1>4, <3>1
    <3>3. c # b => branches[c].status \notin {"pending", "running"}
      BY <3>2 DEF Unsealed, InStatus
    <3> QED BY <1>7, <3>1, <3>3 DEF JoinInv, JoinShape
  <2>2. CASE run.state # "branch_run"
    <3>1. b = None
      BY <1>5, <2>2
    <3> QED BY <1>2, <1>7, <2>2, <3>1 DEF JoinInv, SealedOutside
  <2> QED BY <2>1, <2>2
<1>15. CapsCurrent' /\ BranchPlan'
  BY <1>1 DEF CapsCurrent, BranchPlan
<1>16. HandlerCurrent'
  <2> SUFFICES ASSUME NEW t \in Threads
               PROVE  /\ work[t].pc = "create" => work[t].row.state \in TaskStates \ {"branch_run"}
                      /\ work[t].pc = "issue" => /\ work[t].dom \in DOMAIN domains'
                                                 /\ domains'[work[t].dom].branch # None /\ domains'[work[t].dom].open
                                                      => Worked(work[t].dom)'
                      /\ work[t].pc # "mark"
    BY <1>1 DEF HandlerCurrent
  <2>1. work[t].pc # "mark"
    BY <1>1, <1>2 DEF JoinInv, HandlerCurrent
  <2>2. work[t].pc = "create" => work[t].row.state \in TaskStates \ {"branch_run"}
    BY DEF JoinInv, HandlerCurrent
  <2>3. ASSUME work[t].pc = "issue"
        PROVE  /\ work[t].dom \in DOMAIN domains'
               /\ domains'[work[t].dom].branch # None /\ domains'[work[t].dom].open => Worked(work[t].dom)'
    <3> DEFINE e == work[t].dom
    <3>1. /\ e \in DOMAIN domains /\ e \in DOMAIN domains'
          /\ domains[e].branch # None /\ domains[e].open => Worked(e)
      BY <1>9, <2>3 DEF JoinInv, HandlerCurrent
    <3>2. work' = work
      BY <1>1
    <3> SUFFICES ASSUME domains'[e].branch # None, domains'[e].open PROVE Worked(work[t].dom)'
      BY <3>1
    <3>3. e # d /\ domains'[e] = domains[e] /\ Worked(e)
      BY <1>9, <3>1
    <3>4. domains[e].branch \in BranchIds /\ branches[domains[e].branch].dom = e
      BY <1>10, <3>1, <3>3 DEF JoinInv, DomainHasBranch, Worked
    <3>5. domains[e].branch = b => b = None
      BY <1>5, <3>3, <3>4
    <3>6. branches'[domains[e].branch].status = "running"
      BY <1>7, <3>3, <3>4, <3>5 DEF Worked
    <3> QED BY <3>1, <3>2, <3>3, <3>6 DEF Worked
  <2> QED BY <2>1, <2>2, <2>3
<1> QED BY <1>11, <1>12, <1>13, <1>14, <1>15, <1>16 DEF JoinInv

----------------------------------------------------------------------------
(* The theorems about one handler at a time.                               *)

LEMMA JoinStarts == Init => GateInv /\ JoinInv
<1> SUFFICES ASSUME Init PROVE GateInv /\ JoinInv
  OBVIOUS
<1>1. /\ run.state \in {"assess", "branch_prepare", "assemble"} /\ run.round = 0
      /\ pending = None /\ caps = {} /\ domains = <<>>
      /\ branches = [b \in BranchIds |-> [status |-> "none", dom |-> 0, result |-> "none"]]
      /\ \A t \in Threads : work[t].pc = "idle"
  BY DEF Init, StartRows, Row, Idle, Handler
<1>2. GateInv
  BY <1>1 DEF GateInv, GateCurrent, Gated
<1>3. /\ DOMAIN branches = BranchIds
      /\ \A b \in BranchIds : /\ DOMAIN branches[b] = {"status", "dom", "result"}
                              /\ branches[b].status = "none" /\ branches[b].result = "none"
  BY <1>1
<1>4. DOMAIN domains = {}
  BY <1>1
<1>5. JoinShape
  <2> DEFINE D == [state : TaskStates, branch : BranchIds \cup {None}, open : BOOLEAN]
  <2> HIDE DEF D
  <2>1. domains \in Seq(D)
    BY <1>1
  <2> QED BY <1>1, <1>3, <2>1 DEF JoinShape, D
<1>6. BranchHasDomain /\ DomainHasBranch /\ SealedOutside /\ CapsCurrent /\ HandlerCurrent /\ BranchPlan
  BY <1>1, <1>3, <1>4 DEF BranchHasDomain, DomainHasBranch, SealedOutside, CapsCurrent, HandlerCurrent, BranchPlan
<1> QED BY <1>2, <1>5, <1>6 DEF JoinInv

LEMMA JoinStands == OneHandler /\ RunInv /\ JoinInv /\ [Next]_vars => JoinInv'
<1> SUFFICES ASSUME OneHandler, RunInv, JoinInv, [Next]_vars PROVE JoinInv'
  OBVIOUS
<1>1. CASE UNCHANGED vars
  BY <1>1 DEF vars, files, JoinInv, JoinShape, BranchHasDomain, DomainHasBranch, SealedOutside, CapsCurrent,
     HandlerCurrent, BranchPlan, Worked, SolvedBranches, InStatus
<1>2. ASSUME NEW t \in Threads, NextTask(t) \/ Crash(t) PROVE JoinInv'
  BY <1>2, HandlerJoin
<1>3. CASE Submitted
  BY <1>3, OpenJoins, WriteJoins, PrepareJoins, CommitJoins, SettleJoins DEF Submitted
<1>4. CASE Cancel
  <2>1. /\ UNCHANGED <<branches, domains, pending, work>> /\ caps' = {} /\ pending = None
        /\ run' = Moved("cancelled")
    BY <1>4 DEF Cancel, Transition, MayMove
  <2>2. run'.state = "cancelled" /\ run'.round = run.round
    BY <2>1 DEF Moved, RunInv, RunShape
  <2>3. CASE Threads = {}
    BY <2>1, <2>2, <2>3 DEF JoinInv, JoinShape, BranchHasDomain, DomainHasBranch, SealedOutside, CapsCurrent,
       HandlerCurrent, BranchPlan
  <2>4. CASE Threads # {}
    <3>1. PICK t \in Threads : TRUE
      BY <2>4
    <3> QED BY <2>1, <2>2, <3>1, JoinMoves
  <2> QED BY <2>3, <2>4
<1> QED BY <1>1, <1>2, <1>3, <1>4 DEF Next

\* With one handler at a time: a finished run has published a proof that passed the
\* LaTeX gate, and a join finds every branch sealed (workflow.py, next_task), with any
\* number of branches, rounds and submissions, interrupted wherever they are.
THEOREM GatedAndJoined == OneHandler => (Spec => []GateAndJoinHold)
<1> SUFFICES ASSUME OneHandler PROVE Spec => []GateAndJoinHold
  OBVIOUS
<1>1. RunInv /\ GateInv /\ JoinInv => GateAndJoinHold
  <2> SUFFICES ASSUME RunInv, GateInv, JoinInv PROVE FinalWasGated /\ JoinSeesAllSealed
    BY DEF GateAndJoinHold
  <2>1. FinalWasGated
    BY DEF RunInv, FinalIsSound, FinalIsVerified, GateInv, Gated, FinalWasGated
  <2>2. JoinSeesAllSealed
    BY DEF JoinInv, SealedOutside, JoinSeesAllSealed
  <2> QED BY <2>1, <2>2
<1>2. RunInv /\ GateInv /\ [Next]_vars => GateInv'
  BY GateStands
<1>3. RunInv /\ JoinInv /\ [Next]_vars => JoinInv'
  BY JoinStands
<1> QED BY RunStarts, RunKeeps, JoinStarts, <1>1, <1>2, <1>3, PTL DEF Spec

\* With one handler at a time, a join fails only if no branch has produced a solution.
THEOREM SolvedIsUsed == OneHandler => (Spec => SolvedBranchIsUsed)
<1> SUFFICES ASSUME OneHandler PROVE Spec => SolvedBranchIsUsed
  OBVIOUS
<1> DEFINE Used == run.state = "branch_join" /\ run'.state = "identify_failures"
                     => \A b \in BranchIds : branches[b].result # "solved"
<1>1. RunInv /\ JoinInv /\ [Next]_vars => [Used]_vars
  <2> SUFFICES ASSUME RunInv, JoinInv, [Next]_vars, run.state = "branch_join", run'.state = "identify_failures",
                      NEW b \in BranchIds
               PROVE  branches[b].result # "solved"
    OBVIOUS
  <2>1. Commit
    <3>1. ASSUME NEW t \in Threads PROVE ~ PrepareBranchRound(t) /\ ~ CompleteGate(t) /\ ~ CompleteFinal(t)
      BY DEF PrepareBranchRound, CompleteGate, GateOpen, CompleteFinal, MayMove
    <3>2. ~ Cancel
      BY MovedState DEF RunInv, Cancel, Transition
    <3> QED BY <3>1, <3>2 DEF vars, Next, NextTask, Begin, Mechanics, ReadProof, CopyFinal, Issuing, FindDomain,
               CreateDomain, FindBranch, MarkRunning, Issue, Crash, Submitted, Open, WriteProof, WriteReport,
               WriteAudit, Prepare, Settle
  <2>2. /\ pending # None /\ pending.plan # None
        /\ run' = [Moved(pending.plan.after) EXCEPT !.verdict = pending.plan.verdict, !.meta = pending.plan.meta]
    BY <2>1 DEF Commit, Transition
  <2>3. pending.plan.after = "identify_failures"
    BY <2>2 DEF Moved, RunInv, RunShape
  <2>4. SolvedBranches = {}
    BY <2>2, <2>3 DEF JoinInv, BranchPlan
  <2>5. branches[b].status \in {"none", "sealed"}
    BY DEF JoinInv, SealedOutside
  <2> QED BY <2>4, <2>5 DEF JoinInv, BranchHasDomain, SolvedBranches, InStatus
<1>2. RunInv /\ JoinInv /\ [Next]_vars => JoinInv'
  BY JoinStands
<1>3. Init => JoinInv
  BY JoinStarts
<1> QED BY RunStarts, RunKeeps, <1>1, <1>2, <1>3, PTL DEF Spec, SolvedBranchIsUsed

----------------------------------------------------------------------------
(* What can be reached in a finite graph.                                  *)

\* Induction on a set of natural numbers.
LEMMA Induction ==
  ASSUME NEW S, 0 \in S, \A n \in Nat : n \in S => n + 1 \in S
  PROVE  Nat \subseteq S
<1> DEFINE T == Nat \ S
           Less == {pair \in Nat \X Nat : pair[1] < pair[2]}
<1>1. IsWellFoundedOn(Less, Nat)
  BY NatLessThanWellFounded, Zenon DEF OpToRel
<1>2. CASE T # {}
  <2>1. PICK n \in T : \A m \in T : <<m, n>> \notin Less
    BY <1>1, <1>2, WFMin
  <2>2. n # 0 /\ n - 1 \in Nat /\ n = (n - 1) + 1 /\ <<n - 1, n>> \in Less
    BY <2>1
  <2>3. n - 1 \in S
    BY <2>1, <2>2
  <2> QED BY <2>1, <2>2, <2>3
<1> QED BY <1>2

Grown(nodes, needs) == nodes \cup UNION {needs[n] : n \in nodes}
IsReached(f, from, needs) ==
  f = [k \in 0..Cardinality(DOMAIN needs) |->
         IF k = 0 THEN from
         ELSE LET before == f[k - 1] IN before \cup UNION {needs[n] : n \in before}]
Rests(nodes, needs) == \A n \in nodes : needs[n] \subseteq nodes

\* The recursion is one of a function.
LEMMA ReachedIsFunction ==
  ASSUME NEW from, NEW needs, Cardinality(DOMAIN needs) \in Nat
  PROVE  \E f : IsReached(f, from, needs)
<1> DEFINE size == Cardinality(DOMAIN needs)
           Upto(k, f) == /\ DOMAIN f = 0..k /\ f = [n \in 0..k |-> f[n]] /\ f[0] = from
                         /\ \A n \in 1..k : f[n] = Grown(f[n - 1], needs)
           Good == {k \in Nat : \E f : Upto(k, f)}
<1>1. 0 \in Good
  <2> DEFINE f == [n \in 0..0 |-> from]
  <2>1. Upto(0, f)
    OBVIOUS
  <2> QED BY <2>1
<1>2. ASSUME NEW k \in Nat, k \in Good PROVE k + 1 \in Good
  <2>1. PICK f : Upto(k, f)
    <3> HIDE DEF Upto
    <3> QED BY <1>2
  <2> DEFINE g == [n \in 0..(k + 1) |-> IF n = k + 1 THEN Grown(f[k], needs) ELSE f[n]]
  <2>2. DOMAIN g = 0..(k + 1) /\ g[k + 1] = Grown(f[k], needs) /\ \A n \in 0..k : g[n] = f[n]
    OBVIOUS
  <2>3. g = [n \in 0..(k + 1) |-> g[n]]
    OBVIOUS
  <2> HIDE DEF g
  <2>4. ASSUME NEW n \in 1..(k + 1) PROVE g[n] = Grown(g[n - 1], needs)
    <3>1. CASE n = k + 1
      BY <2>2, <3>1
    <3>2. CASE n \in 1..k
      <4>1. g[n] = f[n] /\ g[n - 1] = f[n - 1]
        BY <2>2, <3>2
      <4> QED BY <2>1, <3>2, <4>1
    <3> QED BY <3>1, <3>2
  <2>5. g[0] = from
    BY <2>1, <2>2
  <2>6. Upto(k + 1, g)
    BY <2>2, <2>3, <2>4, <2>5
  <2> HIDE DEF Upto
  <2> QED BY <2>6
<1>3. PICK f : Upto(size, f)
  <2>1. Nat \subseteq Good
    <3> HIDE DEF Good
    <3> QED BY <1>1, <1>2, Induction
  <2> HIDE DEF Upto
  <2> QED BY <2>1
<1>4. ASSUME NEW n \in 0..size
      PROVE  f[n] = IF n = 0 THEN from
                    ELSE LET before == f[n - 1] IN before \cup UNION {needs[m] : m \in before}
  <2>1. CASE n = 0
    BY <1>3, <2>1
  <2>2. CASE n \in 1..size
    BY <1>3, <2>2 DEF Grown
  <2> QED BY <2>1, <2>2
<1> QED BY <1>3, <1>4 DEF IsReached

\* What is reached holds what it is reached from, rests on nothing else, and is
\* part of whatever else does both.
LEMMA ReachIs ==
  ASSUME NEW all, IsFiniteSet(all), NEW needs, DOMAIN needs = all, Rests(all, needs),
         NEW from, from \subseteq all
  PROVE  /\ from \subseteq Reach(from, needs) /\ Reach(from, needs) \subseteq all
         /\ Rests(Reach(from, needs), needs)
         /\ \A nodes : from \subseteq nodes /\ Rests(nodes, needs) => Reach(from, needs) \subseteq nodes
<1> DEFINE size == Cardinality(all)
           reached == CHOOSE f : IsReached(f, from, needs)
<1>1. size \in Nat
  BY FS_CardinalityType
<1>2. Reach(from, needs) = reached[size]
  BY DEF Reach, IsReached
<1>3. reached[0] = from /\ \A k \in 0..size : k # 0 => reached[k] = Grown(reached[k - 1], needs)
  <2>1. IsReached(reached, from, needs)
    BY <1>1, ReachedIsFunction
  <2> HIDE DEF reached
  <2>2. \A k \in 0..size : reached[k] = IF k = 0 THEN from
                    ELSE LET before == reached[k - 1] IN before \cup UNION {needs[m] : m \in before}
    BY <2>1 DEF IsReached
  <2>3. 0 \in 0..size
    BY <1>1
  <2> QED BY <2>2, <2>3, Zenon DEF Grown
<1> HIDE DEF reached
<1> DEFINE Good == {k \in Nat : k <= size =>
                      /\ from \subseteq reached[k] /\ reached[k] \subseteq all
                      /\ \A nodes : from \subseteq nodes /\ Rests(nodes, needs) => reached[k] \subseteq nodes
                      /\ Rests(reached[k], needs) \/ Cardinality(reached[k]) >= k}
<1>4. 0 \in Good
  <2>1. Cardinality(from) >= 0
    BY FS_Subset, FS_CardinalityType
  <2> QED BY <1>3, <2>1
<1>5. ASSUME NEW k \in Nat, k \in Good PROVE k + 1 \in Good
  <2> SUFFICES ASSUME k + 1 <= size
               PROVE  /\ from \subseteq reached[k + 1] /\ reached[k + 1] \subseteq all
                      /\ \A nodes : from \subseteq nodes /\ Rests(nodes, needs)
                                      => reached[k + 1] \subseteq nodes
                      /\ Rests(reached[k + 1], needs) \/ Cardinality(reached[k + 1]) >= k + 1
    OBVIOUS
  <2> DEFINE r == reached[k]
             s == reached[k + 1]
  <2>1. /\ from \subseteq r /\ r \subseteq all
        /\ \A nodes : from \subseteq nodes /\ Rests(nodes, needs) => r \subseteq nodes
        /\ Rests(r, needs) \/ Cardinality(r) >= k
    BY <1>1, <1>5
  <2>2. s = Grown(r, needs)
    BY <1>1, <1>3
  <2> HIDE DEF r, s
  <2>3. from \subseteq s /\ r \subseteq s /\ s \subseteq all
    BY <2>1, <2>2 DEF Grown, Rests
  <2>4. ASSUME NEW nodes, from \subseteq nodes, Rests(nodes, needs) PROVE s \subseteq nodes
    <3>1. r \subseteq nodes
      BY <2>1, <2>4
    <3> QED BY <2>2, <2>4, <3>1 DEF Grown, Rests
  <2>5. CASE Rests(r, needs)
    <3>1. s = r
      BY <2>2, <2>5 DEF Grown, Rests
    <3> QED BY <2>3, <2>4, <2>5, <3>1 DEF r, s
  <2>6. CASE ~ Rests(r, needs)
    <3>1. s # r
      BY <2>2, <2>6 DEF Grown, Rests
    <3>2. IsFiniteSet(s) /\ Cardinality(s) \in Nat
      BY <2>3, FS_Subset, FS_CardinalityType
    <3>3. Cardinality(r) <= Cardinality(s) /\ Cardinality(s) # Cardinality(r) /\ Cardinality(r) \in Nat
      BY <2>3, <3>1, <3>2, FS_Subset, FS_CardinalityType
    <3>4. Cardinality(s) >= k + 1
      BY <2>1, <2>6, <3>2, <3>3
    <3> QED BY <2>3, <2>4, <3>4 DEF s
  <2> QED BY <2>5, <2>6
<1>6. /\ from \subseteq reached[size] /\ reached[size] \subseteq all
      /\ \A nodes : from \subseteq nodes /\ Rests(nodes, needs) => reached[size] \subseteq nodes
      /\ Rests(reached[size], needs) \/ Cardinality(reached[size]) >= size
  <2>1. Nat \subseteq Good
    <3> HIDE DEF Good
    <3> QED BY <1>4, <1>5, Induction
  <2> QED BY <1>1, <2>1
<1>7. Rests(reached[size], needs)
  <2> SUFFICES ASSUME Cardinality(reached[size]) >= size PROVE Rests(reached[size], needs)
    BY <1>6
  <2> DEFINE r == reached[size]
  <2>1. r \subseteq all /\ Cardinality(r) >= size
    BY <1>6
  <2> HIDE DEF r
  <2>2. Cardinality(r) <= Cardinality(all) /\ (Cardinality(all) = Cardinality(r) => all = r)
    BY <2>1, FS_Subset
  <2>3. Cardinality(r) \in Nat
    BY <2>1, FS_Subset, FS_CardinalityType
  <2>4. all = r
    BY <1>1, <2>1, <2>2, <2>3
  <2> QED BY <2>4 DEF r
<1> QED BY <1>2, <1>6, <1>7

----------------------------------------------------------------------------
(* The state: what was accepted and what is on record.                     *)

PlansShape ==
  /\ DOMAIN rsPlans = {"round", "goals"}
  /\ rsPlans.goals = <<>> \/ (rsPlans.goals \in Proposals /\ Acceptable(rsPlans.goals))
ProgressShape == \A node \in DOMAIN rsProgress : rsProgress[node].status \in Findings
HistoryShape ==
  /\ \E S : rsHistory \in Seq(S)
  /\ \A i \in DOMAIN rsHistory : rsHistory[i].channel = "counterexamples"
       => \E node : rsHistory[i].nodes = {node}
ResearchInv == PlansShape /\ ProgressShape /\ HistoryShape

\* A record more, of the channel it is of.
LEMMA Recorded ==
  ASSUME HistoryShape, NEW record, Record(record),
         record.channel = "counterexamples" => \E node : record.nodes = {node}
  PROVE  /\ HistoryShape'
         /\ \A i \in DOMAIN rsHistory : i \in DOMAIN rsHistory' /\ rsHistory'[i] = rsHistory[i]
<1>1. PICK S : rsHistory \in Seq(S)
  BY DEF HistoryShape
<1>2. rsHistory' = Append(rsHistory, record)
  BY DEF Record
<1>3. rsHistory \in Seq(S \cup {record})
  BY <1>1
<1> DEFINE T == S \cup {record}
<1> HIDE DEF T
<1>4. record \in T /\ rsHistory \in Seq(T)
  BY <1>3 DEF T
<1>5. /\ rsHistory' \in Seq(T) /\ Len(rsHistory') = Len(rsHistory) + 1
      /\ rsHistory'[Len(rsHistory) + 1] = record
      /\ \A i \in 1..Len(rsHistory) : rsHistory'[i] = rsHistory[i]
  BY <1>2, <1>4
<1>6. /\ DOMAIN rsHistory = 1..Len(rsHistory) /\ DOMAIN rsHistory' = 1..(Len(rsHistory) + 1)
      /\ Len(rsHistory) \in Nat
  BY <1>4, <1>5
<1>7. ASSUME NEW i \in DOMAIN rsHistory', rsHistory'[i].channel = "counterexamples"
      PROVE  \E node : rsHistory'[i].nodes = {node}
  <2>1. CASE i = Len(rsHistory) + 1
    BY <1>5, <1>7, <2>1
  <2>2. CASE i \in 1..Len(rsHistory)
    BY <1>5, <1>6, <1>7, <2>2 DEF HistoryShape
  <2>3. i = Len(rsHistory) + 1 \/ i \in 1..Len(rsHistory)
    BY <1>6
  <2> QED BY <2>1, <2>2, <2>3
<1>8. \A i \in DOMAIN rsHistory : i \in DOMAIN rsHistory' /\ rsHistory'[i] = rsHistory[i]
  BY <1>5, <1>6
<1>9. HistoryShape'
  BY <1>5, <1>7 DEF HistoryShape
<1> QED BY <1>8, <1>9

LEMMA ResearchStarts == ResearchInit => ResearchInv
<1> SUFFICES ASSUME ResearchInit PROVE ResearchInv
  OBVIOUS
<1>1. PlansShape /\ ProgressShape
  BY DEF ResearchInit, PlansShape, ProgressShape
<1>2. rsHistory \in Seq({}) /\ DOMAIN rsHistory = {}
  BY DEF ResearchInit
<1> QED BY <1>1, <1>2 DEF ResearchInv, HistoryShape

LEMMA MergedFindings ==
  ASSUME ProgressShape, NEW screening \in Screenings
  PROVE  \A node \in DOMAIN MergedScreening(screening) : MergedScreening(screening)[node].status \in Findings
<1> DEFINE named == {n \in Nodes : <<n[2], n[3]>> \in DOMAIN screening}
<1>1. MergedScreening(screening) =
        [n \in named \cup DOMAIN rsProgress |-> IF n \in named THEN screening[<<n[2], n[3]>>] ELSE rsProgress[n]]
  BY DEF MergedScreening
<1>2. \A n \in named : screening[<<n[2], n[3]>>].status \in Findings
  BY ScreeningAssumption
<1> HIDE DEF named
<1> QED BY <1>1, <1>2 DEF ProgressShape

\* History only grows.
Grows == \A i \in DOMAIN rsHistory : i \in DOMAIN rsHistory' /\ rsHistory'[i] = rsHistory[i]

LEMMA ResearchKeeps ==
  ResearchInv /\ [ResearchNext]_researchVars => ResearchInv' /\ Grows
<1> SUFFICES ASSUME ResearchInv, [ResearchNext]_researchVars PROVE ResearchInv' /\ Grows
  OBVIOUS
<1> USE DEF ResearchInv
<1>1. ASSUME UNCHANGED rsHistory PROVE HistoryShape' /\ Grows
  BY <1>1 DEF HistoryShape, Grows
<1>2. ASSUME UNCHANGED rsPlans PROVE PlansShape'
  BY <1>2 DEF PlansShape
<1>3. ASSUME UNCHANGED rsProgress PROVE ProgressShape'
  BY <1>3 DEF ProgressShape
<1>4. CASE UNCHANGED researchVars
  BY <1>1, <1>2, <1>3, <1>4 DEF researchVars
<1>5. CASE IssueTask
  BY <1>1, <1>2, <1>3, <1>5 DEF IssueTask
<1>6. ASSUME NEW node, NEW outcome, Probe(node, outcome) PROVE ResearchInv' /\ Grows
  <2> DEFINE record == [channel |-> "counterexamples", own |-> TRUE, nodes |-> {node}, outcome |-> outcome]
  <2>1. record.nodes = {node} /\ Record(record) /\ UNCHANGED <<rsPlans, rsProgress>>
    BY <1>6 DEF Probe
  <2> HIDE DEF record
  <2> QED BY <1>2, <1>3, <2>1, Recorded DEF Grows
<1>7. ASSUME NEW nodes, NEW outcome, Assess(nodes, outcome) PROVE ResearchInv' /\ Grows
  <2> DEFINE record == [channel |-> "events", own |-> TRUE, nodes |-> nodes, outcome |-> outcome]
  <2>1. record.channel = "events" /\ Record(record) /\ UNCHANGED <<rsPlans, rsProgress>>
    BY <1>7 DEF Assess
  <2> HIDE DEF record
  <2> QED BY <1>2, <1>3, <2>1, Recorded DEF Grows
<1>8. ASSUME NEW nodes, NoteFailure(nodes) PROVE ResearchInv' /\ Grows
  <2> DEFINE record == [channel |-> "failed_paths", own |-> TRUE, nodes |-> nodes]
  <2>1. record.channel = "failed_paths" /\ Record(record) /\ UNCHANGED <<rsPlans, rsProgress>>
    BY <1>8 DEF NoteFailure
  <2> HIDE DEF record
  <2> QED BY <1>2, <1>3, <2>1, Recorded DEF Grows
<1>9. ASSUME NEW proposal \in Proposals, Propose(proposal) PROVE ResearchInv' /\ Grows
  <2>1. PlansShape'
    <3>1. Acceptable(proposal) /\ rsPlans' = [round |-> rsRound + 1, goals |-> proposal]
      BY <1>9 DEF Propose
    <3>2. rsPlans'.goals = proposal /\ DOMAIN rsPlans' = {"round", "goals"}
      BY <3>1
    <3> QED BY <3>1, <3>2 DEF PlansShape, Acceptable, ValidLocalGraph
  <2>2. ProgressShape' /\ UNCHANGED rsHistory
    BY <1>9 DEF Propose, ProgressShape
  <2> QED BY <1>1, <2>1, <2>2
<1>10. ASSUME NEW screening \in Screenings, Screen(screening) PROVE ResearchInv' /\ Grows
  <2>1. UNCHANGED rsPlans /\ rsProgress' = MergedScreening(screening)
    BY <1>10 DEF Screen
  <2>2. ProgressShape'
    BY <2>1, MergedFindings DEF ProgressShape
  <2> DEFINE record == [channel |-> "proof_steps", entries |-> MergedScreening(screening)]
  <2>3. record.channel = "proof_steps" /\ (Record(record) \/ UNCHANGED rsHistory)
    BY <1>10 DEF Screen
  <2> HIDE DEF record
  <2>4. HistoryShape' /\ Grows
    BY <1>1, <2>3, Recorded DEF Grows
  <2> QED BY <1>2, <2>1, <2>2, <2>4
<1>11. ASSUME NEW plan, NEW sealed, SealBranch(plan, sealed) PROVE ResearchInv' /\ Grows
  <2> DEFINE record == [channel |-> "branch_results", round |-> rsPlans.round, plan |-> plan,
             status |-> sealed.status, proved |-> sealed.proved, unproved |-> sealed.unproved,
             obstructed |-> sealed.obstructed]
  <2>1. record.channel = "branch_results" /\ Record(record) /\ UNCHANGED <<rsPlans, rsProgress>>
    BY <1>11 DEF SealBranch
  <2> HIDE DEF record
  <2> QED BY <1>2, <1>3, <2>1, Recorded DEF Grows
<1>12. ASSUME NEW outcome, Join(outcome) PROVE ResearchInv' /\ Grows
  BY <1>1, <1>2, <1>3, <1>12 DEF Join
<1>13. ASSUME NEW nodes, IdentifyFailures(nodes) PROVE ResearchInv' /\ Grows
  <2> DEFINE record == [channel |-> "failed_paths", own |-> FALSE, nodes |-> nodes]
  <2>1. record.channel = "failed_paths" /\ Record(record) /\ UNCHANGED <<rsPlans, rsProgress>>
    BY <1>13 DEF IdentifyFailures
  <2> HIDE DEF record
  <2> QED BY <1>2, <1>3, <2>1, Recorded DEF Grows
<1>14. CASE Replan
  BY <1>1, <1>2, <1>3, <1>14 DEF Replan
<1> HIDE DEF ResearchInv
<1> QED BY <1>4, <1>5, <1>6, <1>7, <1>8, <1>9, <1>10, <1>11, <1>12, <1>13, <1>14 DEF ResearchNext

----------------------------------------------------------------------------
(* The graph of the active plans.                                          *)

LEMMA PlanIs ==
  ASSUME PlansShape, NEW plan \in ActivePlans
  PROVE  /\ plan \in Nat \ {0} /\ rsPlans.goals[plan] # <<>> /\ ValidLocalGraph(rsPlans.goals[plan])
         /\ DOMAIN rsPlans.goals[plan] = 1..Len(rsPlans.goals[plan])
         /\ Len(rsPlans.goals[plan]) \in Nat \ {0}
<1>1. rsPlans.goals \in Proposals /\ Acceptable(rsPlans.goals)
  BY DEF PlansShape, ActivePlans
<1> DEFINE Goals1 == [needs : SUBSET Nat, critical : BOOLEAN]
<1>2. rsPlans.goals \in Seq(Seq(Goals1))
  BY <1>1, ProposalAssumption
<1> HIDE DEF Goals1
<1>3. rsPlans.goals[plan] \in Seq(Goals1) /\ plan \in 1..Len(rsPlans.goals) /\ Len(rsPlans.goals) \in Nat
  BY <1>2 DEF ActivePlans
<1> QED BY <1>1, <1>3 DEF Acceptable, ActivePlans

LEMMA NodesAre ==
  ASSUME PlansShape, NEW plan \in ActivePlans
  PROVE  /\ NodesOf(plan) \subseteq Nodes /\ NodesOf(plan) # {} /\ Target \notin NodesOf(plan)
         /\ \A node \in NodesOf(plan) : Needs(node) \subseteq NodesOf(plan)
<1> DEFINE goals == rsPlans.goals[plan]
<1>1. plan \in Nat \ {0} /\ goals # <<>> /\ ValidLocalGraph(goals) /\ DOMAIN goals = 1..Len(goals)
  BY PlanIs
<1>2. NodesOf(plan) \subseteq Nodes
  BY DEF Nodes
<1>3. NodesOf(plan) # {}
  <2>1. DOMAIN goals # {}
    <3>1. goals # <<>> /\ DOMAIN goals = 1..Len(goals) /\ Len(goals) \in Nat /\ Len(goals) # 0
      BY PlanIs
    <3> HIDE DEF goals
    <3> QED BY <3>1
  <2> HIDE DEF goals
  <2>2. PICK g : g \in DOMAIN goals
    BY <2>1
  <2> QED BY <2>2 DEF NodesOf, goals
<1>4. Target \notin NodesOf(plan)
  BY <1>1 DEF Target, NodesOf
<1>5. ASSUME NEW node \in NodesOf(plan) PROVE Needs(node) \subseteq NodesOf(plan)
  <2>1. PICK g \in DOMAIN goals : node = <<rsPlans.round, plan, g>>
    BY DEF NodesOf
  <2>2. node[1] = rsPlans.round /\ node[2] = plan /\ node[3] = g
    BY <2>1
  <2>3. Needs(node) = {<<rsPlans.round, plan, h>> : h \in goals[g].needs}
    BY <1>4, <2>2 DEF Needs, Goal
  <2>4. goals[g].needs \subseteq DOMAIN goals
    BY <1>1 DEF ValidLocalGraph
  <2> QED BY <2>3, <2>4 DEF NodesOf
<1> QED BY <1>2, <1>3, <1>4, <1>5

LEMMA NeedsAreNodes ==
  ASSUME PlansShape, NEW node \in Nodes
  PROVE  Needs(node) \subseteq Nodes
<1>1. CASE node = Target
  BY <1>1 DEF Needs
<1>2. CASE node # Target
  BY <1>2, NodesAre DEF Nodes
<1> QED BY <1>1, <1>2

LEMMA NodesFinite == ASSUME PlansShape PROVE IsFiniteSet(Nodes)
<1>1. IsFiniteSet(ActivePlans)
  <2>1. CASE ActivePlans = {}
    BY <2>1, FS_EmptySet
  <2>2. CASE ActivePlans # {}
    <3>1. rsPlans.goals \in Seq(Seq([needs : SUBSET Nat, critical : BOOLEAN]))
      BY <2>2, ProposalAssumption DEF PlansShape, ActivePlans
    <3>2. ActivePlans = 1..Len(rsPlans.goals) /\ Len(rsPlans.goals) \in Nat
      BY <3>1 DEF ActivePlans
    <3> QED BY <3>2, FS_Interval
  <2> QED BY <2>1, <2>2
<1> DEFINE parts == {NodesOf(plan) : plan \in ActivePlans}
           part == [plan \in ActivePlans |-> NodesOf(plan)]
<1>2. IsFiniteSet(parts)
  <2>1. part \in Surjection(ActivePlans, parts)
    BY DEF Surjection
  <2> QED BY <1>1, <2>1, FS_Surjection
<1>3. ASSUME NEW plan \in ActivePlans PROVE IsFiniteSet(NodesOf(plan))
  <2> DEFINE goals == rsPlans.goals[plan]
             at == [g \in DOMAIN goals |-> <<rsPlans.round, plan, g>>]
  <2>1. IsFiniteSet(DOMAIN goals)
    <3>1. DOMAIN goals = 1..Len(goals) /\ Len(goals) \in Nat
      BY PlanIs
    <3> HIDE DEF goals
    <3> QED BY <3>1, FS_Interval
  <2>2. at \in Surjection(DOMAIN goals, NodesOf(plan))
    BY DEF Surjection, NodesOf
  <2> QED BY <2>1, <2>2, FS_Surjection
<1>4. IsFiniteSet(UNION parts)
  BY <1>2, <1>3, FS_UNION
<1>5. Nodes = {Target} \cup UNION parts
  BY DEF Nodes
<1> QED BY <1>4, <1>5, FS_Singleton, FS_Union

\* Some claims of a plan: one rests on none of them, and on one none of them rests.
LEMMA EndsExist ==
  ASSUME PlansShape, NEW plan \in ActivePlans, NEW S, S \subseteq NodesOf(plan), S # {}
  PROVE  /\ \E low \in S : \A node \in S : node \notin Needs(low)
         /\ \E high \in S : \A node \in S : high \notin Needs(node)
<1> DEFINE goals == rsPlans.goals[plan]
           size == Len(goals)
<1>1. /\ plan \in Nat \ {0} /\ ValidLocalGraph(goals) /\ DOMAIN goals = 1..size /\ size \in Nat
  BY PlanIs
<1>2. PICK rank \in [DOMAIN goals -> DOMAIN goals] :
        \A key \in DOMAIN goals : \A need \in goals[key].needs :
          need \in DOMAIN goals /\ rank[need] < rank[key]
  BY <1>1 DEF ValidLocalGraph
<1> DEFINE Rank(node) == rank[node[3]]
<1>3. ASSUME NEW node \in S
      PROVE  Rank(node) \in 1..size /\ \A need \in Needs(node) : need[3] \in goals[node[3]].needs
  <2>1. PICK g \in DOMAIN goals : node = <<rsPlans.round, plan, g>>
    BY DEF NodesOf
  <2>2. node[1] = rsPlans.round /\ node[2] = plan /\ node[3] = g
    BY <2>1
  <2>3. Needs(node) = {<<rsPlans.round, plan, h>> : h \in goals[g].needs}
    BY <2>2, NodesAre DEF Needs, Goal
  <2> QED BY <1>1, <2>2, <2>3
<1>4. \A node \in S : node[3] \in DOMAIN goals
  BY DEF NodesOf
<1>5. ASSUME NEW n \in S, NEW node \in S, n \in Needs(node) PROVE Rank(n) < Rank(node)
  BY <1>2, <1>3, <1>4, <1>5
<1>6. \A node \in S : Rank(node) \in Nat
  BY <1>1, <1>3
<1> HIDE DEF Rank
<1>7. \E low \in S : \A node \in S : Rank(low) <= Rank(node)
  <2> DEFINE ranks == {Rank(node) : node \in S}
             Less == {pair \in Nat \X Nat : pair[1] < pair[2]}
  <2>1. ranks \subseteq Nat /\ ranks # {}
    BY <1>6
  <2>2. IsWellFoundedOn(Less, Nat)
    BY NatLessThanWellFounded, Zenon DEF OpToRel
  <2>3. PICK n \in ranks : \A m \in ranks : <<m, n>> \notin Less
    <3> HIDE DEF ranks, Less
    <3> QED BY <2>1, <2>2, WFMin
  <2>4. ASSUME NEW m \in ranks PROVE n <= m
    <3> HIDE DEF ranks
    <3>1. m \in Nat /\ n \in Nat /\ <<m, n>> \notin Less
      BY <2>1, <2>3
    <3>2. m < n => <<m, n>> \in Less
      BY <3>1
    <3> QED BY <3>1, <3>2
  <2> QED BY <2>4
<1>8. \E high \in S : \A node \in S : Rank(node) <= Rank(high)
  <2> DEFINE ranks == {size - Rank(node) : node \in S}
             Less == {pair \in Nat \X Nat : pair[1] < pair[2]}
  <2>0. \A node \in S : Rank(node) \in 1..size
    BY <1>3 DEF Rank
  <2>1. ranks \subseteq Nat /\ ranks # {}
    BY <1>1, <2>0
  <2>2. IsWellFoundedOn(Less, Nat)
    BY NatLessThanWellFounded, Zenon DEF OpToRel
  <2>3. PICK n \in ranks : \A m \in ranks : <<m, n>> \notin Less
    <3> HIDE DEF ranks, Less
    <3> QED BY <2>1, <2>2, WFMin
  <2>4. ASSUME NEW m \in ranks PROVE n <= m
    <3> HIDE DEF ranks
    <3>1. m \in Nat /\ n \in Nat /\ <<m, n>> \notin Less
      BY <2>1, <2>3
    <3>2. m < n => <<m, n>> \in Less
      BY <3>1
    <3> QED BY <3>1, <3>2
  <2>5. PICK high \in S : n = size - Rank(high)
    OBVIOUS
  <2>6. ASSUME NEW node \in S PROVE Rank(node) <= Rank(high)
    <3>1. n <= size - Rank(node)
      BY <2>4
    <3> QED BY <1>1, <2>0, <2>5, <3>1
  <2> QED BY <2>6
<1>9. \E low \in S : \A node \in S : node \notin Needs(low)
  BY <1>5, <1>6, <1>7
<1>10. \E high \in S : \A node \in S : high \notin Needs(node)
  BY <1>5, <1>6, <1>8
<1> QED BY <1>9, <1>10

\* Closed under what its nodes need.
Standing(nodes) == \A node \in nodes : Needs(node) \subseteq nodes

LEMMA ClosureIs ==
  ASSUME PlansShape, NEW from, from \subseteq Nodes
  PROVE  /\ from \subseteq Closure(from) /\ Closure(from) \subseteq Nodes /\ Standing(Closure(from))
         /\ \A nodes \in SUBSET Nodes : from \subseteq nodes /\ Standing(nodes) => Closure(from) \subseteq nodes
<1> DEFINE needs == [node \in Nodes |-> Needs(node)]
<1>1. IsFiniteSet(Nodes) /\ DOMAIN needs = Nodes /\ Rests(Nodes, needs)
  BY NodesFinite, NeedsAreNodes DEF Rests
<1>2. Closure(from) = Reach(from, needs)
  BY DEF Closure
<1>3. \A nodes \in SUBSET Nodes : Rests(nodes, needs) <=> Standing(nodes)
  BY DEF Rests, Standing
<1> HIDE DEF needs
<1>4. /\ from \subseteq Reach(from, needs) /\ Reach(from, needs) \subseteq Nodes
      /\ Rests(Reach(from, needs), needs)
      /\ \A nodes : from \subseteq nodes /\ Rests(nodes, needs) => Reach(from, needs) \subseteq nodes
  BY <1>1, ReachIs
<1> QED BY <1>2, <1>3, <1>4

LEMMA TaintedIs ==
  ASSUME PlansShape, NEW status
  PROVE  /\ {node \in Nodes : status[node] = "refuted"} \subseteq Tainted(status)
         /\ Tainted(status) \subseteq Nodes
         /\ Standing(Nodes \ Tainted(status))
         /\ \A nodes \in SUBSET Nodes :
              Standing(nodes) /\ (\A node \in nodes : status[node] # "refuted")
                => nodes \cap Tainted(status) = {}
<1> DEFINE from == {node \in Nodes : status[node] = "refuted"}
<1>1. IsFiniteSet(Nodes) /\ DOMAIN Dependents = Nodes /\ Rests(Nodes, Dependents) /\ from \subseteq Nodes
  BY NodesFinite DEF Rests, Dependents
<1>2. Tainted(status) = Reach(from, Dependents)
  BY DEF Tainted
<1> HIDE DEF from
<1>3. /\ from \subseteq Reach(from, Dependents) /\ Reach(from, Dependents) \subseteq Nodes
      /\ Rests(Reach(from, Dependents), Dependents)
      /\ \A nodes : from \subseteq nodes /\ Rests(nodes, Dependents) => Reach(from, Dependents) \subseteq nodes
  BY <1>1, ReachIs
<1>4. Standing(Nodes \ Tainted(status))
  BY <1>2, <1>3, NeedsAreNodes DEF Standing, Rests, Dependents
<1>5. ASSUME NEW nodes \in SUBSET Nodes, Standing(nodes), \A node \in nodes : status[node] # "refuted"
      PROVE  nodes \cap Tainted(status) = {}
  <2>1. Rests(Nodes \ nodes, Dependents)
    BY <1>5 DEF Rests, Dependents, Standing
  <2>2. from \subseteq Nodes \ nodes
    BY <1>5 DEF from
  <2> QED BY <1>2, <1>3, <2>1, <2>2
<1> QED BY <1>2, <1>3, <1>4, <1>5 DEF from

\* What a node's status can be, and what makes it refuted.
Statuses == {"open", "partial", "route_solved", "blocked", "refuted"}
LEMMA StatusIs ==
  ASSUME ProgressShape, NEW node \in Nodes
  PROVE  /\ Status[node] \in Statuses
         /\ Status[node] = "refuted" <=> \E i \in DOMAIN rsHistory : Refutes(rsHistory[i], node)
<1>1. Screened[node] \in Statuses \ {"refuted"}
  BY DEF Screened, ProgressShape, Findings, Statuses
<1>2. WithResults(Screened)[node] \in Statuses \ {"refuted"}
  BY <1>1 DEF WithResults, Statuses
<1>3. Status[node] = IF \E i \in DOMAIN rsHistory : Refutes(rsHistory[i], node)
                     THEN "refuted" ELSE WithResults(Screened)[node]
  BY DEF Status, WithProbes
<1> QED BY <1>2, <1>3 DEF Statuses

LEMMA RefutedIs ==
  ASSUME HistoryShape, NEW node \in Nodes, NEW i \in DOMAIN rsHistory
  PROVE  Refutes(rsHistory[i], node) <=>
           /\ rsHistory[i].channel = "counterexamples"
           /\ rsHistory[i].nodes = {node} /\ rsHistory[i].outcome = "found"
BY DEF HistoryShape, Refutes

LEMMA RouteIs ==
  ASSUME PlansShape, NEW plan \in ActivePlans
  PROVE  /\ Candidates(plan) \subseteq NodesOf(plan) /\ Candidates(plan) # {}
         /\ Goals(plan) \subseteq Candidates(plan) /\ Goals(plan) # {}
         /\ RouteCritical(plan) \subseteq NodesOf(plan) /\ Standing(RouteCritical(plan))
         /\ RouteCritical(plan) = Closure(Candidates(plan))
<1> DEFINE all == NodesOf(plan)
           candidates == Candidates(plan)
           last == {node \in candidates : \A n \in candidates : node \notin Needs(n)}
           rest == Closure(candidates)
<1>1. all \subseteq Nodes /\ all # {} /\ Standing(all)
  BY NodesAre DEF Standing
<1>2. candidates \subseteq all /\ candidates # {}
  BY <1>1 DEF Candidates
<1>3. last # {}
  BY <1>2, EndsExist
<1>4. Goals(plan) = last
  BY <1>3 DEF Goals
<1> HIDE DEF candidates
<1>5. /\ last \subseteq Closure(last) /\ Closure(last) \subseteq all /\ Standing(Closure(last))
      /\ \A nodes \in SUBSET Nodes : last \subseteq nodes /\ Standing(nodes) => Closure(last) \subseteq nodes
  <2>1. last \subseteq Nodes
    BY <1>1, <1>2
  <2> HIDE DEF last
  <2>2. /\ last \subseteq Closure(last) /\ Closure(last) \subseteq Nodes /\ Standing(Closure(last))
        /\ \A nodes \in SUBSET Nodes : last \subseteq nodes /\ Standing(nodes) => Closure(last) \subseteq nodes
    BY <2>1, ClosureIs
  <2>3. last \subseteq all
    BY <1>2 DEF last
  <2> QED BY <1>1, <2>2, <2>3
<1>6. /\ candidates \subseteq rest /\ rest \subseteq Nodes /\ Standing(rest)
      /\ \A nodes \in SUBSET Nodes : candidates \subseteq nodes /\ Standing(nodes) => rest \subseteq nodes
  BY <1>1, <1>2, ClosureIs
<1>7. candidates \subseteq Closure(last)
  <2> DEFINE missing == candidates \ Closure(last)
  <2> SUFFICES ASSUME missing # {} PROVE FALSE
    OBVIOUS
  <2>1. PICK high \in missing : \A node \in missing : high \notin Needs(node)
    <3>1. missing \subseteq all
      BY <1>2
    <3> HIDE DEF missing
    <3> QED BY <3>1, EndsExist
  <2>2. PICK node \in candidates : high \in Needs(node)
    BY <1>5, <2>1
  <2>3. node \in Closure(last)
    BY <2>1, <2>2
  <2> QED BY <1>5, <2>1, <2>2, <2>3 DEF Standing
<1>8. Closure(last) = rest
  <2>1. Closure(last) \subseteq Nodes /\ last \subseteq rest
    BY <1>1, <1>5, <1>6
  <2>2. Closure(last) \subseteq rest
    BY <1>5, <1>6, <2>1
  <2>3. rest \subseteq Closure(last)
    BY <1>5, <1>6, <1>7, <2>1
  <2> QED BY <2>2, <2>3
<1> QED BY <1>2, <1>3, <1>4, <1>5, <1>8 DEF RouteCritical, candidates

----------------------------------------------------------------------------
(* The advice, and what can be acted upon.                                 *)

LEMMA WorkIsVisible ==
  ASSUME ResearchInv
  PROVE  WorkRemainsVisible
<1> DEFINE status == Status
<1>1. PlansShape /\ ProgressShape
  BY DEF ResearchInv
<1>2. \A node \in Nodes : status[node] \in Statuses
  BY <1>1, StatusIs
<1> HIDE DEF status
<1>3. /\ {node \in Nodes : status[node] = "refuted"} \subseteq Tainted(status)
      /\ Standing(Nodes \ Tainted(status))
  BY <1>1, TaintedIs
<1>4. ASSUME NEW plan \in ActivePlans, ~RouteSolved(plan, status), ~RouteInvalid(plan, status)
      PROVE  RouteCritical(plan) \cap Actionable(status) # {}
  <2> DEFINE route == RouteCritical(plan)
             left == {node \in route : status[node] # "route_solved"}
  <2>1. /\ route \subseteq NodesOf(plan) /\ Standing(route) /\ NodesOf(plan) \subseteq Nodes
        /\ Target \notin NodesOf(plan)
    BY <1>1, RouteIs, NodesAre
  <2>2. left # {} /\ route \cap Tainted(status) = {}
    BY <1>4 DEF RouteSolved, RouteInvalid
  <2>3. PICK low \in left : \A node \in left : node \notin Needs(low)
    <3>1. left \subseteq NodesOf(plan)
      BY <2>1
    <3> HIDE DEF left
    <3> QED BY <1>1, <2>2, <3>1, EndsExist
  <2>4. \A need \in Needs(low) : status[need] = "route_solved"
    BY <2>1, <2>3 DEF Standing
  <2>5. low \in Nodes \ Tainted(status) /\ low # Target
    BY <2>1, <2>2
  <2>6. status[low] \in {"open", "partial", "blocked"}
    BY <1>2, <1>3, <2>5 DEF Statuses
  <2>7. low \in Actionable(status)
    BY <2>4, <2>5, <2>6 DEF Actionable
  <2> QED BY <2>7
<1>5. ASSUME NEW node \in Actionable(status), NEW n \in Nodes, n \in Closure({node})
      PROVE  status[n] # "refuted"
  <2>1. node \in Nodes \ Tainted(status)
    BY DEF Actionable
  <2>2. Closure({node}) \subseteq Nodes \ Tainted(status)
    BY <1>1, <1>3, <2>1, ClosureIs
  <2> QED BY <1>3, <1>5, <2>2
<1> QED BY <1>4, <1>5 DEF WorkRemainsVisible, status

\* The advice is a rule that holds.
LEMMA AdviceHolds == RuleHolds(Advice, Status, Attempts)
<1> DEFINE P(i) == RuleHolds(Rules[i], Status, Attempts)
           First(i) == i \in DOMAIN Rules /\ P(i) /\ \A j \in 1..(i - 1) : ~P(j)
<1>1. Rules[8] = "R09_REVIEW_STATE" /\ DOMAIN Rules = 1..8
  BY DEF Rules
<1>2. P(8)
  BY <1>1 DEF RuleHolds
<1> HIDE DEF P
<1>3. \E i \in DOMAIN Rules : P(i) /\ \A j \in 1..(i - 1) : ~P(j)
  <2> DEFINE S == {i \in 1..8 : P(i)}
             Less == {pair \in Nat \X Nat : pair[1] < pair[2]}
  <2>1. S \subseteq Nat /\ S # {}
    BY <1>2
  <2>2. IsWellFoundedOn(Less, Nat)
    BY NatLessThanWellFounded, Zenon DEF OpToRel
  <2>3. PICK i \in S : \A j \in S : <<j, i>> \notin Less
    <3> HIDE DEF S, Less
    <3> QED BY <2>1, <2>2, WFMin
  <2>4. ASSUME NEW j \in 1..(i - 1) PROVE ~P(j)
    <3>1. i \in 1..8 /\ j \in 1..8 /\ j < i /\ j \in Nat /\ i \in Nat
      OBVIOUS
    <3>2. <<j, i>> \in Less
      BY <3>1
    <3> QED BY <2>3, <3>1, <3>2
  <2> QED BY <1>1, <2>4
<1> DEFINE i0 == CHOOSE i \in DOMAIN Rules : P(i) /\ \A j \in 1..(i - 1) : ~P(j)
<1>4. P(i0)
  BY <1>3
<1>5. Advice = Rules[i0]
  BY DEF Advice, P
<1> HIDE DEF i0
<1> QED BY <1>4, <1>5 DEF P

LEMMA AdviceMeans ==
  /\ Advice = "R08_ASSEMBLE" => \E plan \in ActivePlans : RouteSolved(plan, Status)
  /\ Advice = "R01_REPLAN_REFUTED" => \A plan \in ActivePlans : RouteInvalid(plan, Status)
<1>1. ASSUME Advice = "R08_ASSEMBLE" PROVE \E plan \in ActivePlans : RouteSolved(plan, Status)
  <2>1. RuleHolds("R08_ASSEMBLE", Status, Attempts)
    BY <1>1, AdviceHolds
  <2> QED BY <2>1 DEF RuleHolds
<1>2. ASSUME Advice = "R01_REPLAN_REFUTED" PROVE \A plan \in ActivePlans : RouteInvalid(plan, Status)
  <2>1. RuleHolds("R01_REPLAN_REFUTED", Status, Attempts)
    BY <1>2, AdviceHolds
  <2> QED BY <2>1 DEF RuleHolds
<1> QED BY <1>1, <1>2

LEMMA AdviceTold ==
  ASSUME ResearchInv
  PROVE  AdviceIsTrue
<1> DEFINE status == Status
           Refuted(node) == \E i \in DOMAIN rsHistory :
             /\ rsHistory[i].channel = "counterexamples"
             /\ rsHistory[i].nodes = {node} /\ rsHistory[i].outcome = "found"
<1>1. PlansShape /\ ProgressShape /\ HistoryShape
  BY DEF ResearchInv
<1>2. \A node \in Nodes : status[node] = "refuted" <=> Refuted(node)
  BY <1>1, StatusIs, RefutedIs
<1> HIDE DEF status, Refuted
<1>3. ASSUME NEW plan \in ActivePlans, RouteSolved(plan, status)
      PROVE  \A n \in Closure(Candidates(plan)) : status[n] = "route_solved" /\ ~Refuted(n)
  <2>1. Closure(Candidates(plan)) = RouteCritical(plan) /\ RouteCritical(plan) \subseteq Nodes
    BY <1>1, RouteIs, NodesAre
  <2>2. \A n \in RouteCritical(plan) : status[n] = "route_solved"
    BY <1>3 DEF RouteSolved
  <2> QED BY <1>2, <2>1, <2>2
<1>4. ASSUME NEW plan \in ActivePlans, RouteInvalid(plan, status)
      PROVE  \E n \in Closure(Candidates(plan)) : Refuted(n)
  <2>1. /\ Closure(Candidates(plan)) = RouteCritical(plan) /\ RouteCritical(plan) \subseteq Nodes
        /\ Standing(RouteCritical(plan))
    BY <1>1, RouteIs, NodesAre
  <2>2. RouteCritical(plan) \cap Tainted(status) # {}
    BY <1>4 DEF RouteInvalid
  <2>3. \E node \in RouteCritical(plan) : status[node] = "refuted"
    BY <1>1, <2>1, <2>2, TaintedIs
  <2> QED BY <1>2, <2>1, <2>3
<1>5. Advice = "R08_ASSEMBLE" => \E plan \in ActivePlans : RouteSolved(plan, status)
  BY AdviceMeans DEF status
<1>6. Advice = "R01_REPLAN_REFUTED" => \A plan \in ActivePlans : RouteInvalid(plan, status)
  BY AdviceMeans DEF status
<1> QED BY <1>3, <1>4, <1>5, <1>6 DEF AdviceIsTrue, status, Refuted

\* In every state of the research of a run, whatever decompositions are proposed and
\* whatever is reported of them: a proof is to be assembled only along a plan of
\* which all that the critical claims rest on is solved and not refuted, replanning
\* is advised only when every plan rests on a refuted claim, a plan that is neither
\* has a claim that can be acted on, and nothing that can be rests on a refuted
\* claim (project, select_advice).
THEOREM AdviceFollows == ResearchSpec => []AdviceIsSound
<1>1. ResearchInv => AdviceIsSound
  BY WorkIsVisible, AdviceTold DEF AdviceIsSound
<1>2. ResearchInv /\ [ResearchNext]_researchVars => ResearchInv'
  BY ResearchKeeps
<1> QED BY <1>1, <1>2, ResearchStarts, PTL DEF ResearchSpec

\* For as long as its plan is active, a claim refuted by an accepted counterexample
\* stays refuted, whatever is screened, sealed or written after it
\* (normalize_research).
THEOREM RefutedStays == ResearchSpec => RefutationStands
<1> DEFINE Stands == rsPlans' = rsPlans /\ Readable /\ Readable' =>
                       LET before == Status
                           after == Status'
                       IN \A node \in Nodes : before[node] = "refuted" => after[node] = "refuted"
<1>1. ASSUME ResearchInv, ResearchInv', Grows PROVE Stands
  <2> SUFFICES ASSUME rsPlans' = rsPlans, NEW node \in Nodes, Status[node] = "refuted"
               PROVE  Status'[node] = "refuted"
    OBVIOUS
  <2>1. Nodes' = Nodes
    BY DEF Nodes, NodesOf, ActivePlans
  <2>2. PICK i \in DOMAIN rsHistory : Refutes(rsHistory[i], node)
    BY <1>1, StatusIs DEF ResearchInv
  <2>3. i \in DOMAIN rsHistory' /\ rsHistory'[i] = rsHistory[i]
    BY <1>1 DEF Grows
  <2>4. \E j \in DOMAIN rsHistory' : Refutes(rsHistory[j], node)'
    BY <2>1, <2>2, <2>3 DEF Refutes
  <2>5. node \in Nodes'
    BY <2>1
  <2> QED BY <2>4, <2>5 DEF Status, WithProbes
<1>2. ResearchInv /\ [ResearchNext]_researchVars => [Stands]_researchVars
  <2>1. ResearchInv /\ [ResearchNext]_researchVars => Stands
    BY <1>1, ResearchKeeps
  <2> QED BY <2>1
<1>3. ResearchInv /\ [ResearchNext]_researchVars => ResearchInv'
  BY ResearchKeeps
<1> QED BY <1>2, <1>3, ResearchStarts, PTL DEF ResearchSpec, RefutationStands
=============================================================================
