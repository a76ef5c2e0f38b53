---------------------------- MODULE WorkflowRun ----------------------------
(***************************************************************************)
(* The life of one workflow run: the phases of a proof, the tasks that     *)
(* `next_task` hands out in them, the mechanical phases it runs itself,    *)
(* and the parallel branches.                                              *)
(*                                                                         *)
(* Threads are request handlers executing `next_task`.  A handler reads    *)
(* the run row once and keeps acting on that copy, one database or file    *)
(* access per action, so that any number of other handlers may move the    *)
(* run on in between.  Submissions are taken at the granularity that       *)
(* module Submission establishes for them: at most one is pending, it      *)
(* belongs to the run's epoch, its writes are applied one by one, and it   *)
(* ends in one transition or in a settlement that moves nothing.           *)
(*                                                                         *)
(* A proof text is a model value.  Constant sets say which texts pass the  *)
(* LaTeX gate and which have a manifest that names a material reference.   *)
(***************************************************************************)
EXTENDS Integers, Sequences, FiniteSets, FiniteSetsExt

CONSTANTS
  Threads,      \* handlers executing next_task
  Proofs,       \* proof texts
  Clean,        \* the texts that pass the LaTeX gate
  Cited,        \* the texts whose manifest names a reference to be audited
  BranchCount,  \* plans, and so branches, of a round (1..64 in the code)
  Starts,       \* the phases the run may be in when the behaviour begins
  MaxEpoch,     \* bound on runs.epoch
  MaxRounds,    \* bound on runs.round_index
  MaxDomains,   \* bound on the domains of the run
  None          \* no proof, no plan, no branch

GeneratorStates == {"assess", "explore", "propose_plans", "direct_proving",
                    "identify_failures", "replan"}
TaskStates  == GeneratorStates \cup {"branch_run", "branch_join", "assemble", "verify", "repair"}
Mechanical  == {"branch_prepare", "latex_validate", "finalize"}
Terminal    == {"done", "cancelled"}
States      == TaskStates \cup Mechanical \cup Terminal

\* role_for_state.  Every phase outside the generator's has a role of its own.
Role(s) == IF s \in GeneratorStates THEN "generator" ELSE s

AllowedTransitions ==
  { <<"assess", "explore">>, <<"assess", "assemble">>, <<"explore", "propose_plans">>,
    <<"propose_plans", "direct_proving">>, <<"direct_proving", "assemble">>,
    <<"direct_proving", "branch_prepare">>, <<"branch_prepare", "branch_run">>,
    <<"branch_run", "branch_run">>, <<"branch_run", "branch_join">>,
    <<"branch_join", "assemble">>, <<"branch_join", "identify_failures">>,
    <<"identify_failures", "replan">>, <<"replan", "propose_plans">>,
    <<"assemble", "latex_validate">>, <<"assemble", "explore">>,
    <<"latex_validate", "verify">>, <<"latex_validate", "repair">>,
    <<"verify", "finalize">>, <<"verify", "repair">>, <<"verify", "explore">>,
    <<"repair", "latex_validate">>, <<"finalize", "done">> }

BranchIds == (1..MaxRounds) \X (1..BranchCount)

ASSUME ConstantAssumption ==
  /\ Clean \subseteq Proofs /\ Cited \subseteq Proofs
  /\ BranchCount \in 1..64
  /\ Starts \subseteq {"assess", "branch_prepare", "assemble"}
  /\ MaxEpoch \in Nat /\ MaxRounds \in Nat /\ MaxDomains \in Nat
  /\ None \notin Proofs \cup BranchIds

VARIABLES
  run,        \* the runs row, with the metadata fields its guards read
  branches,   \* branches, and the result files they produced
  domains,    \* domains, in creation order
  caps,       \* unrevoked capabilities
  pending,    \* the pending submission
  draft,      \* draft/proof.tex
  final,      \* final/proof_verified.tex
  report,     \* the verification report, and the proof it was written about
  audited,    \* the proof the reference audit on record was written about
  evidence,   \* of this epoch's restartable actions: debug/state/action-*.json
  work        \* the handlers

files == <<draft, final, report, audited, evidence>>
vars  == <<run, branches, domains, caps, pending, files, work>>

Modes    == {"none", "compact", "full"}
Metadata == [submitted : Proofs \cup {None}, verified : Proofs \cup {None},
             gate : {"none", "pass", "fail"}, mode : Modes, failures : 0..2]
Runs     == [state : States, epoch : 0..MaxEpoch, round : 0..MaxRounds,
             latex : BOOLEAN, verdict : {"none", "correct", "wrong"}, meta : Metadata]
Results  == {"none", "solved", "failed"}
Branches == [status : {"none", "pending", "running", "sealed"}, dom : Nat, result : Results]
Domains  == [state : TaskStates, branch : BranchIds \cup {None}, open : BOOLEAN]
Capabilities == [dom : Nat, epoch : 0..MaxEpoch, state : TaskStates]
Plans    == [after : States, verdict : {"none", "correct", "wrong"}, meta : Metadata,
             branch : BranchIds \cup {None}]
Reports  == [clean : BOOLEAN, of : Proofs \cup {None}]
Evidence == [dom : Nat, choice : States, result : Results,
             before : Reports \cup {None}, now : Reports \cup {None}]
Pcs      == {"idle", "loop", "gate", "copied", "create", "mark", "issue"}
Copies   == [state : States, latex : BOOLEAN, verdict : {"none", "correct", "wrong"},
             meta : Metadata]
Works    == [pc : Pcs, row : Copies, proof : Proofs \cup {None},
             dom : Nat, branch : BranchIds \cup {None}]

NoMetadata == [submitted |-> None, verified |-> None, gate |-> "none",
               mode |-> "none", failures |-> 0]
Row(state, epoch, mode) ==
  [state |-> state, epoch |-> epoch, round |-> 0, latex |-> FALSE, verdict |-> "none",
   meta |-> [NoMetadata EXCEPT !.mode = mode]]

\* The fields of a handler's copy of the row that it goes on to use.
Phase(s)   == [state |-> s, latex |-> FALSE, verdict |-> "none", meta |-> NoMetadata]
Copy(r) ==
  IF r.state = "latex_validate" THEN [Phase(r.state) EXCEPT !.meta = r.meta]
  ELSE IF r.state = "finalize" THEN [Phase(r.state) EXCEPT !.latex = r.latex, !.verdict = r.verdict]
  ELSE Phase(r.state)
Handler(pc, row) == [pc |-> pc, row |-> row, proof |-> None, dom |-> 0, branch |-> None]
Idle       == Handler("idle", Phase("assess"))

TypeOK ==
  /\ run \in Runs
  /\ branches \in [BranchIds -> Branches]
  /\ domains \in Seq(Domains)
  /\ caps \subseteq Capabilities
  /\ pending = None \/ pending \in [cap : Capabilities, plan : Plans \cup {None}]
  /\ draft \in Proofs \cup {None} /\ final \in Proofs \cup {None}
  /\ report = None \/ report \in Reports
  /\ audited \in Proofs \cup {None}
  /\ evidence \subseteq Evidence
  /\ work \in [Threads -> Works]

\* A run enters `assemble` or `branch_prepare` before any of the state below
\* exists, so a behaviour may begin there, as many transitions after `assess`
\* as the shortest way takes.
StartRows ==
  { Row("assess", 0, "none"), Row("branch_prepare", 4, "full") } \cup
  { Row("assemble", 1, mode) : mode \in {"compact", "full"} }

Init ==
  /\ run \in { row \in StartRows : row.state \in Starts }
  /\ branches = [b \in BranchIds |-> [status |-> "none", dom |-> 0, result |-> "none"]]
  /\ domains = <<>>
  /\ caps = {}
  /\ pending = None
  /\ draft = None /\ final = None /\ report = None /\ audited = None /\ evidence = {}
  /\ work = [t \in Threads |-> Idle]

-----------------------------------------------------------------------------
(* Transitions *)

\* What `_transition_on` makes of the row.  It also revokes every capability.
Moved(after) == [run EXCEPT !.state = after, !.epoch = @ + 1]

\* A transition outside a submission: the expected state still holds, and
\* record_transition finds no pending receipt.
MayMove(expected) ==
  /\ run.state = expected
  /\ pending = None
  /\ run.epoch < MaxEpoch

Transition(next) ==
  /\ run' = next
  /\ caps' = {}

-----------------------------------------------------------------------------
(* next_task: the mechanical phases *)

At(t, pc)   == work[t].pc = pc
Goto(t, pc) == work' = [work EXCEPT ![t].pc = pc]
Leave(t)    == work' = [work EXCEPT ![t] = Idle]
Reload(t, row) ==
  work' = [work EXCEPT ![t] = IF row.state \in Terminal THEN Idle ELSE Handler("loop", Copy(row))]

\* The row, and that no submission is pending: a handler that finds one ends.
\* (A row read just before a submission settles is one it could have read
\* before that submission was opened.)
Begin(t) ==
  /\ At(t, "idle")
  /\ run.state \notin Terminal
  /\ pending = None
  /\ Reload(t, run)
  /\ UNCHANGED <<run, branches, domains, caps, pending, files>>

NewRound == { <<run.round + 1, i>> : i \in 1..BranchCount }

\* _prepare_branch_round re-reads the row under the run's lock; rows, domains
\* and the transition are one transaction.
PrepareBranchRound(t) ==
  /\ At(t, "loop")
  /\ work[t].row.state = "branch_prepare"
  /\ \/ /\ run.state # "branch_prepare"
        /\ Reload(t, run)
        /\ UNCHANGED <<run, branches, domains, caps>>
     \/ /\ MayMove("branch_prepare")
        /\ run.round < MaxRounds
        /\ Len(domains) + BranchCount <= MaxDomains
        /\ Transition([Moved("branch_run") EXCEPT !.round = @ + 1])
        /\ domains' = domains \o [i \in 1..BranchCount |->
                        [state |-> "branch_run", branch |-> <<run.round + 1, i>>, open |-> TRUE]]
        /\ branches' = [b \in BranchIds |->
                          IF b \in NewRound
                          THEN [status |-> "pending", dom |-> Len(domains) + b[2], result |-> "none"]
                          ELSE branches[b]]
        /\ Reload(t, run')
  /\ UNCHANGED <<pending, files>>

\* _run_latex_gate reads the draft without the run's lock, some time after
\* the row, and validates what it read.
ReadProof(t) ==
  /\ At(t, "loop")
  /\ work[t].row.state = "latex_validate"
  /\ work' = [work EXCEPT ![t].pc = "gate", ![t].proof = draft]
  /\ UNCHANGED <<run, branches, domains, caps, pending, files>>

\* complete_latex_gate: the state, and the metadata as the gate first saw it.
GateOpen(row) == MayMove("latex_validate") /\ run.meta = row.meta

CompleteGate(t) ==
  LET passed == work[t].proof \in Clean IN
  /\ At(t, "gate")
  /\ \/ /\ GateOpen(work[t].row)
        /\ Transition([Moved(IF passed THEN "verify" ELSE "repair") EXCEPT
                         !.latex = passed, !.meta.gate = IF passed THEN "pass" ELSE "fail"])
        /\ Reload(t, run')
     \/ /\ ~ GateOpen(work[t].row)
        /\ Leave(t)
        /\ UNCHANGED <<run, caps>>
  /\ UNCHANGED <<branches, domains, pending, files>>

\* MUTANT of FinalizationAllowed: an already published proof is refused.
FinalizationOnce(row) ==
  /\ row.latex /\ row.verdict = "correct"
  /\ report # None /\ report.clean
  /\ final = None

\* _finalize's gates on its copy of the row and on the report; `publish` with
\* exact=True takes an existing file only if it has the same bytes.
FinalizationAllowed(row) ==
  /\ row.latex /\ row.verdict = "correct"
  /\ report # None /\ report.clean
  /\ final \in {None, draft}

\* _finalize publishes the draft under its final name.
CopyFinal(t) ==
  /\ At(t, "loop")
  /\ work[t].row.state = "finalize"
  /\ \/ /\ FinalizationAllowed(work[t].row)
        /\ final' = draft
        /\ Goto(t, "copied")
     \/ /\ ~ FinalizationAllowed(work[t].row)
        /\ final' = final
        /\ Leave(t)
  /\ UNCHANGED <<run, branches, domains, caps, pending, draft, report, audited, evidence>>

CompleteFinal(t) ==
  /\ At(t, "copied")
  /\ \/ /\ MayMove("finalize")
        /\ Transition(Moved("done"))
        /\ Reload(t, run')
     \/ /\ ~ MayMove("finalize")
        /\ Leave(t)
        /\ UNCHANGED <<run, caps>>
  /\ UNCHANGED <<branches, domains, pending, files>>

-----------------------------------------------------------------------------
(* next_task: issuing a task *)

OpenDomains(s) == { d \in DOMAIN domains : domains[d].state = s /\ domains[d].open }

\* _ensure_domain, outside branches: the last open domain of the phase in the
\* handler's copy of the row, else a new one.
FindDomain(t) ==
  LET found == OpenDomains(work[t].row.state) IN
  /\ At(t, "loop")
  /\ work[t].row.state \in TaskStates \ {"branch_run"}
  /\ work' = [work EXCEPT ![t].pc = IF found = {} THEN "create" ELSE "issue",
                          ![t].dom = IF found = {} THEN 0 ELSE Max(found)]
  /\ UNCHANGED <<run, branches, domains, caps, pending, files>>

CreateDomain(t) ==
  /\ At(t, "create")
  /\ Len(domains) < MaxDomains
  /\ domains' = Append(domains, [state |-> work[t].row.state, branch |-> None, open |-> TRUE])
  /\ work' = [work EXCEPT ![t].pc = "issue", ![t].dom = Len(domains) + 1]
  /\ UNCHANGED <<run, branches, caps, pending, files>>

InStatus(status) == { b \in BranchIds : branches[b].status = status }

\* MUTANT of Unsealed: branches that have not started are forgotten.
UnsealedStarted == InStatus("running")

Unsealed     == InStatus("pending") \cup InStatus("running")
Earliest(bs) == { b \in bs : \A c \in bs : b[2] <= c[2] }

\* _ensure_domain for a branch: one that is running, else the first pending
\* one, which is then marked running.
FindBranch(t) ==
  /\ At(t, "loop")
  /\ work[t].row.state = "branch_run"
  /\ \/ \E b \in Earliest(InStatus("running")) :
          work' = [work EXCEPT ![t].pc = "issue", ![t].dom = branches[b].dom]
     \/ /\ InStatus("running") = {}
        /\ \E b \in Earliest(InStatus("pending")) :
             work' = [work EXCEPT ![t].pc = "mark", ![t].branch = b]
     \/ /\ Unsealed = {}
        /\ Leave(t)
  /\ UNCHANGED <<run, branches, domains, caps, pending, files>>

\* update_branch_status has no condition on the status it replaces.
MarkRunning(t) ==
  LET b == work[t].branch IN
  /\ At(t, "mark")
  /\ branches' = [branches EXCEPT ![b].status = "running"]
  /\ work' = [work EXCEPT ![t].pc = "issue", ![t].dom = branches[b].dom]
  /\ UNCHANGED <<run, domains, caps, pending, files>>

\* CapabilityAuthority.issue reads the run again, so the capability is for the
\* phase the run is in now; the task in the envelope is for the handler's copy.
\* (Issuing is one step: a capability inserted after a further transition is
\* of a past epoch, and Submission shows it cannot be used.)
MayIssue(t) ==
  LET d == domains[work[t].dom] IN
  /\ d.open
  /\ run.state \in TaskStates
  /\ Role(run.state) = Role(d.state)

Issue(t) ==
  /\ At(t, "issue")
  /\ caps' = IF MayIssue(t)
             THEN caps \cup {[dom |-> work[t].dom, epoch |-> run.epoch, state |-> run.state]}
             ELSE caps
  /\ Leave(t)
  /\ UNCHANGED <<run, branches, domains, pending, files>>

-----------------------------------------------------------------------------
(* Submissions *)

Usable(c) == c.epoch = run.epoch /\ c.state = run.state /\ domains[c.dom].open

Open(c) ==
  /\ pending = None
  /\ c \in caps /\ Usable(c)
  /\ pending' = [cap |-> c, plan |-> None]
  /\ UNCHANGED <<run, branches, domains, caps, files, work>>

Writing == pending # None /\ pending.plan = None

\* Caller writes.  Those to memory channels are not looked at by any guard.
WriteProof(p) ==
  /\ Writing
  /\ run.state \in {"assemble", "repair"}
  /\ draft' = p
  /\ UNCHANGED <<run, branches, domains, caps, pending, final, report, audited, evidence, work>>

WriteReport(clean) ==
  /\ Writing
  /\ run.state = "verify"
  /\ report' = [clean |-> clean, of |-> draft]
  /\ UNCHANGED <<run, branches, domains, caps, pending, draft, final, audited, evidence, work>>

\* A later audit of the reference replaces the earlier one; an unresolved one
\* counts for nothing.
WriteAudit(resolved) ==
  /\ Writing
  /\ run.state = "verify"
  /\ draft \in Cited
  /\ audited' = IF resolved THEN draft ELSE None
  /\ UNCHANGED <<run, branches, domains, caps, pending, draft, final, report, evidence, work>>

Plan(after, meta) == [after |-> after, verdict |-> run.verdict, meta |-> meta, branch |-> None]
Mode(mode) == [run.meta EXCEPT !.mode = mode]
Submitting == [run.meta EXCEPT !.submitted = draft]

AssessmentComplete ==
  { Plan("assemble", Mode("compact")), Plan("explore", Mode("full")) }

\* All plans screened: a solved one, or a branch for each.
DirectProvingComplete ==
  { Plan("assemble", run.meta), Plan("branch_prepare", run.meta) }

\* The branch of the submission's domain; the barrier is complete when all the
\* others are sealed.
BranchComplete ==
  LET b == domains[pending.cap.dom].branch
      others == Unsealed \ {b}
  IN { [Plan(IF others = {} THEN "branch_join" ELSE "branch_run", run.meta) EXCEPT !.branch = b] }

SolvedBranches == { b \in InStatus("sealed") : branches[b].result = "solved" }

\* MUTANT of JoinComplete: the join may fail with a solved branch at hand.
JoinMayFail == { Plan("assemble", run.meta), Plan("identify_failures", run.meta) }

\* A selected solved branch or a synthesis; a failure only if none is solved.
JoinComplete ==
  { Plan("assemble", run.meta) } \cup
  { p \in { Plan("identify_failures", run.meta) } : SolvedBranches = {} }

\* MUTANT of ProofSubmitted: escalation goes straight to the plans.
ProofEscalatedToPlans ==
  { p \in { Plan("latex_validate", Submitting) } : draft # None } \cup
  { p \in { Plan("propose_plans", Mode("full")) } : run.meta.mode = "compact" }

\* A proof, or a compact assembly that asks for full exploration.
ProofSubmitted ==
  { p \in { Plan("latex_validate", Submitting) } : draft # None } \cup
  { p \in { Plan("explore", Mode("full")) } : run.meta.mode = "compact" }

\* MUTANT of ReferenceGap: a reference that was never audited is let through.
NoReferenceGap == FALSE

\* A material reference without a resolved audit on record.
ReferenceGap == draft \in Cited /\ audited = None

Correct == report.clean /\ ~ ReferenceGap

Rejected == [run.meta EXCEPT !.verified = draft,
                             !.failures = IF run.meta.mode = "compact" THEN @ + 1 ELSE @]

\* The second rejection of a compact run sends it to full exploration.
Escalates == run.meta.mode = "compact" /\ Rejected.failures >= 2

\* The verdict is the server's; a clean report cannot hide a reference gap.
VerificationSubmitted ==
  IF report = None THEN {}
  ELSE IF Correct
       THEN { p \in { [Plan("finalize", [run.meta EXCEPT !.verified = draft])
                         EXCEPT !.verdict = "correct"] } : run.latex }
       ELSE { [Plan(IF Escalates THEN "explore" ELSE "repair",
                    IF Escalates THEN [Rejected EXCEPT !.mode = "full"] ELSE Rejected)
                 EXCEPT !.verdict = "wrong"] }

\* MUTANT of RepairSubmitted: a repaired proof goes to the verifier directly.
RepairSkipsGate ==
  { p \in { Plan("verify", Submitting) } : draft \notin {None, run.meta.verified} }

\* A proof the verifier rejected is not taken again unchanged.
RepairSubmitted ==
  { p \in { Plan("latex_validate", Submitting) } : draft \notin {None, run.meta.verified} }

\* What _prepare_commit_action can make of the submission in this phase.
Outcomes ==
  CASE run.state = "assess"            -> AssessmentComplete
    [] run.state = "explore"           -> { Plan("propose_plans", run.meta) }
    [] run.state = "propose_plans"     -> { Plan("direct_proving", run.meta) }
    [] run.state = "direct_proving"    -> DirectProvingComplete
    [] run.state = "branch_run"        -> BranchComplete
    [] run.state = "branch_join"       -> JoinComplete
    [] run.state = "identify_failures" -> { Plan("replan", run.meta) }
    [] run.state = "replan"            -> { Plan("propose_plans", run.meta) }
    [] run.state = "assemble"          -> ProofSubmitted
    [] run.state = "verify"            -> VerificationSubmitted
    [] run.state = "repair"            -> RepairSubmitted

\* MUTANT of Normalized: the server's gaps are not written into the report.
NormalizedAsSubmitted == report

\* The report is stored again with the gaps the server found.
Normalized == [report EXCEPT !.clean = Correct]

AtomicStates == {"assess", "explore", "assemble", "repair"}

\* What the submitted payload decides; in the other phases the server does.
Choice(p) == IF run.state \in {"branch_run", "verify"} THEN run.state ELSE p.after

\* The certificate of a restartable action: its input, the report it found and
\* the report it leaves.
Certificate(p, result) ==
  [dom |-> pending.cap.dom, choice |-> Choice(p),
   result |-> IF p.branch = None THEN "none" ELSE result,
   before |-> report, now |-> IF run.state = "verify" THEN Normalized ELSE report]

Earlier(e) == { f \in evidence : f.dom = e.dom }

\* An action that was interrupted in this domain and epoch is only repeated,
\* with its own input and on the bytes it found or left.
Reusable(e) ==
  \A f \in Earlier(e) :
    /\ e.choice = f.choice /\ e.result = f.result
    /\ e.before \in {f.before, f.now} /\ e.now = f.now

\* commit up to its transaction: the plan, and the files it produces.
Prepare(p, result) ==
  LET e == Certificate(p, result) IN
  /\ Writing
  /\ p \in Outcomes
  /\ Reusable(e)
  /\ evidence' = IF run.state \in AtomicStates \/ Earlier(e) # {} THEN evidence
                 ELSE evidence \cup {e}
  /\ pending' = [pending EXCEPT !.plan = p]
  /\ report' = e.now
  /\ branches' = IF p.branch = None THEN branches
                 ELSE [branches EXCEPT ![p.branch].result = result]
  /\ UNCHANGED <<run, domains, caps, draft, final, audited, work>>

\* MUTANT of SealDomain: the condition on the domain is forgotten.
SealEveryDomain(d) == [i \in DOMAIN domains |-> [domains[i] EXCEPT !.open = FALSE]]

SealDomain(d) == [domains EXCEPT ![d].open = FALSE]

\* transition_task counts the unsealed branches again inside the transaction.
BarrierAgrees(p) ==
  p.branch # None =>
    /\ branches[p.branch].status # "sealed"
    /\ (p.after = "branch_join") <=>
         (Unsealed \subseteq {p.branch})

Commit ==
  LET p == pending.plan IN
  /\ pending # None /\ p # None
  /\ BarrierAgrees(p)
  /\ run.epoch < MaxEpoch
  /\ Transition([Moved(p.after) EXCEPT !.verdict = p.verdict, !.meta = p.meta])
  /\ domains' = SealDomain(pending.cap.dom)
  /\ branches' = IF p.branch = None THEN branches
                 ELSE [branches EXCEPT ![p.branch].status = "sealed"]
  /\ pending' = None
  /\ evidence' = {}
  /\ UNCHANGED <<draft, final, report, audited, work>>

\* A correction, partial screening, or recovery after an interruption: the
\* capability is consumed, writes and evidence stay, nothing moves.
Settle ==
  /\ pending # None
  /\ caps' = caps \ {pending.cap}
  /\ pending' = None
  /\ UNCHANGED <<run, branches, domains, files, work>>

Cancel ==
  /\ run.state \notin Terminal
  /\ MayMove(run.state)
  /\ Transition(Moved("cancelled"))
  /\ UNCHANGED <<branches, domains, pending, files, work>>

-----------------------------------------------------------------------------
Mechanics(t) ==
  \/ PrepareBranchRound(t) \/ ReadProof(t) \/ CompleteGate(t)
  \/ CopyFinal(t) \/ CompleteFinal(t)

Issuing(t) ==
  \/ FindDomain(t) \/ CreateDomain(t) \/ FindBranch(t) \/ MarkRunning(t) \/ Issue(t)

NextTask(t) == Begin(t) \/ Mechanics(t) \/ Issuing(t)

Submitted ==
  \/ \E c \in caps : Open(c)
  \/ \E p \in Proofs : WriteProof(p)
  \/ \E clean \in BOOLEAN : WriteReport(clean)
  \/ \E resolved \in BOOLEAN : WriteAudit(resolved)
  \/ Writing /\ \E p \in Outcomes, result \in {"solved", "failed"} : Prepare(p, result)
  \/ Commit
  \/ Settle

\* A handler is interrupted: its process ends, or a step raises.
Crash(t) ==
  /\ ~ At(t, "idle")
  /\ Leave(t)
  /\ UNCHANGED <<run, branches, domains, caps, pending, files>>

Next == (\E t \in Threads : NextTask(t) \/ Crash(t)) \/ Submitted \/ Cancel

Spec == Init /\ [][Next]_vars

\* What a handler does with its copy of the row, and how it goes on.
FromRow(t) == PrepareBranchRound(t) \/ ReadProof(t) \/ CopyFinal(t) \/ FindDomain(t) \/ FindBranch(t)
GoesOn(t)  == CompleteGate(t) \/ CompleteFinal(t) \/ CreateDomain(t) \/ MarkRunning(t)

\* Clients poll until the run ends, and no step of a handler is interrupted
\* for ever.
FairHandler(t) ==
  WF_vars(Begin(t)) /\ SF_vars(FromRow(t)) /\ SF_vars(GoesOn(t)) /\ SF_vars(Issue(t))

FairSpec == Spec /\ \A t \in Threads : FairHandler(t)

-----------------------------------------------------------------------------
(* Properties *)

\* What leaves the system is what was verified: in `finalize` and `done` the
\* draft is the text the clean report on record was written about, and the
\* published proof is that text (workflow.py _commit_verification_submitted
\* and _finalize).
FinalIsVerified ==
  run.state \in {"finalize", "done"} =>
    /\ report.clean /\ report.of = draft
    /\ run.state = "done" => final = draft

\* The published proof passed the LaTeX gate, and not only some earlier text
\* (README "Compact ... must pass the complete LaTeX gate").
FinalWasGated == run.state = "done" => final \in Clean

\* A proof with material references is not finalized without an audit on
\* record (the server-derived reference gaps of the verification handler).
ReferencesAudited ==
  run.state \in {"finalize", "done"} /\ draft \in Cited => audited # None

\* What a finished run publishes is the verified text, with its references audited.
FinalIsSound == FinalIsVerified /\ ReferencesAudited

\* Every phase change is one the transition table allows; the transactions of
\* submissions do not consult it, only `_transition` does.
OnlyAllowedTransitions ==
  [][ \/ run'.state = run.state
      \/ run'.state = "cancelled"
      \/ <<run.state, run'.state>> \in AllowedTransitions ]_run

\* The join sees every branch of the run sealed.
JoinSeesAllSealed ==
  run.state = "branch_join" => \A b \in BranchIds : branches[b].status \in {"none", "sealed"}

\* With one handler at a time, which racing handlers can break: what is published
\* passed the gate, and a join is not entered before its branches are sealed.
GateAndJoinHold == FinalWasGated /\ JoinSeesAllSealed

\* A solved branch is not thrown away: a join fails only if no branch at all
\* produced a solution.
SolvedBranchIsUsed ==
  [][ run.state = "branch_join" /\ run'.state = "identify_failures"
        => \A b \in BranchIds : branches[b].result # "solved" ]_vars

\* The bounds of the model, past which the code would go on.
BoundReached ==
  \/ run.epoch = MaxEpoch
  \/ Len(domains) + BranchCount > MaxDomains
  \/ run.state = "branch_prepare" /\ run.round = MaxRounds

\* The mechanical phases need no client decision: polling gets through them.
MechanicalAdvances ==
  \A s \in Mechanical : (run.state = s) ~> (run.state # s \/ BoundReached)

\* Polling always leads to work: a task that can be submitted, a submission
\* that is pending, or the end of the run.
TaskAvailable ==
  []<>(\/ run.state \in Terminal
       \/ BoundReached
       \/ pending # None
       \/ \E c \in caps : Usable(c))
=============================================================================
