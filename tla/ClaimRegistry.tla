---------------------------- MODULE ClaimRegistry ----------------------------
(***************************************************************************)
(* The registry of a research project: claims, their revisions, the runs   *)
(* that prove them, the facts those proofs established, and what happens   *)
(* when a finished run is promoted and when a fact is revoked.             *)
(*                                                                         *)
(* Promotion is retried by every poll of a finished run, so several        *)
(* handlers may be promoting one run.  A handler reads the registry twice  *)
(* before the transaction that writes; each read is an action.             *)
(*                                                                         *)
(* A revision is named by its claim and its number.  A fact is named by    *)
(* its place in the order of insertion; it is looked up by its content,    *)
(* which is what the hash that names it in the code is computed from.      *)
(***************************************************************************)
EXTENDS Integers, Sequences, FiniteSets, FiniteSetsExt

CONSTANTS
  Threads,       \* handlers that poll finished runs
  Claims,        \* claims of the project
  Runs,          \* runs linked to the project
  Proofs,        \* texts of final proofs
  Hypotheses,    \* conditions a revision may carry
  MaxRevisions,  \* bound on the revisions of a claim
  None           \* no run, no claim, no revision, no fact

ASSUME ConstantAssumption ==
  /\ MaxRevisions \in Nat
  /\ None \notin Threads \cup Claims \cup Runs \cup (Claims \X Nat) \cup Nat

VARIABLES
  revisions,  \* claim_revisions: a sequence for each claim, by revision number
  project,    \* project_runs, with the run's manifest once it is done
  facts,      \* facts and fact_edges
  revoked,    \* fact_revocations
  findings,   \* a verifiable finding of each run that states what it proves
  work        \* handlers

vars == <<revisions, project, facts, revoked, findings, work>>

RevisionIds == Claims \X (1..MaxRevisions)
Contents    == [claim : Claims, proof : Proofs, preds : SUBSET Nat]
Revisions   == [active : BOOLEAN, evidence : {"OPEN", "VERIFIED", "CONDITIONAL"},
                conditions : SUBSET Hypotheses, run : Runs \cup {None},
                fact : Nat \cup {None}, deps : SUBSET RevisionIds]
ProjectRuns == [state : {"new", "linked", "done"}, claim : Claims \cup {None},
                base : RevisionIds \cup {None}, snapshot : SUBSET RevisionIds,
                register : BOOLEAN, proof : Proofs \cup {None},
                deps : SUBSET RevisionIds, hypotheses : SUBSET Hypotheses,
                status : {"pending", "promoted", "conflict", "not_requested"},
                promoted : RevisionIds \cup {None}]
Findings    == [status : {"none", "active", "verified", "superseded"}, fact : Nat \cup {None}]
Works       == [pc : {"idle", "prepare", "read", "compare", "conflict", "commit"},
                run : Runs \cup {None}, fact : Contents \cup {None}]

NewRun == [state |-> "new", claim |-> None, base |-> None, snapshot |-> {}, register |-> FALSE,
           proof |-> None, deps |-> {}, hypotheses |-> {}, status |-> "pending", promoted |-> None]
NoFinding == [status |-> "none", fact |-> None]
Idle == [pc |-> "idle", run |-> None, fact |-> None]

Init ==
  /\ revisions = [c \in Claims |-> <<>>]
  /\ project = [r \in Runs |-> NewRun]
  /\ facts = <<>>
  /\ revoked = {}
  /\ findings = [r \in Runs |-> NoFinding]
  /\ work = [t \in Threads |-> Idle]

-----------------------------------------------------------------------------
(* Revisions *)

Revision(id)    == revisions[id[1]][id[2]]
Existing        == UNION { {c} \X DOMAIN revisions[c] : c \in Claims }
ActiveNumbers(c) == { n \in DOMAIN revisions[c] : revisions[c][n].active }
Active(c)       == IF ActiveNumbers(c) = {} THEN None ELSE <<c, Max(ActiveNumbers(c))>>
Proved          == { id \in Existing : Revision(id).evidence # "OPEN" }

\* Types, and the reference from a revision to its fact.
TypeOK ==
  /\ revisions \in [Claims -> Seq(Revisions)]
  /\ project \in [Runs -> ProjectRuns]
  /\ facts \in Seq(Contents)
  /\ revoked \subseteq DOMAIN facts
  /\ findings \in [Runs -> Findings]
  /\ work \in [Threads -> Works]
  /\ \A id \in Existing : Revision(id).fact \in DOMAIN facts \cup {None}

NextNumber(c) == IF Active(c) = None THEN 1 ELSE Active(c)[2] + 1

\* The active revision is superseded, the new one active.
Appended(c, revision) ==
  [revisions EXCEPT ![c] =
     Append([n \in DOMAIN @ |-> IF <<c, n>> = Active(c) THEN [@[n] EXCEPT !.active = FALSE]
                                                        ELSE @[n]], revision)]

\* A number that is taken makes the insertion fail.
Room(c) == NextNumber(c) = Len(revisions[c]) + 1 /\ Len(revisions[c]) < MaxRevisions

\* create_open_claim_revision; the caller may name the base it expects.
Revise(c, expected, conditions) ==
  /\ expected \in {None, Active(c)}
  /\ Room(c)
  /\ revisions' = Appended(c, [active |-> TRUE, evidence |-> "OPEN", conditions |-> conditions,
                               run |-> None, fact |-> None, deps |-> {}])
  /\ UNCHANGED <<project, facts, revoked, findings, work>>

-----------------------------------------------------------------------------
(* Runs of the project *)

\* _prepare_project, in the transaction that creates the run (Creation): the base
\* revision and the snapshot are of one moment.  A run that names no claim is
\* one that registers nothing.
Link(r, c, register) ==
  /\ project[r].state = "new"
  /\ project' = [project EXCEPT ![r] =
       [NewRun EXCEPT !.state = "linked", !.claim = c, !.base = Active(c), !.register = register,
                      !.snapshot = (Proved \cup { Active(d) : d \in Claims }) \ {None}]]
  /\ UNCHANGED <<revisions, facts, revoked, findings, work>>

\* insert_project_findings: a first status row, once, after some transition of
\* the run; after the last one it may come later than the promotion.
RecordFinding(r) ==
  /\ project[r].state # "new"
  /\ findings[r].status = "none"
  /\ findings' = [findings EXCEPT ![r] = [status |-> "active", fact |-> None]]
  /\ UNCHANGED <<revisions, project, facts, revoked, work>>

\* A manifest names proved revisions of the frozen snapshot.  That a revision
\* was proved never changes, so what the snapshot says of it is still so.
Usable(r) == project[r].snapshot \cap Proved

\* The run is mechanically finalized (WorkflowRun), with this manifest.
Finish(r, proof, deps, hypotheses) ==
  /\ project[r].state = "linked"
  /\ deps \subseteq Usable(r)
  /\ project' = [project EXCEPT ![r] =
       [@ EXCEPT !.state = "done", !.proof = proof, !.deps = deps, !.hypotheses = hypotheses]]
  /\ UNCHANGED <<revisions, facts, revoked, findings, work>>

-----------------------------------------------------------------------------
(* Promotion *)

At(t, pc)   == work[t].pc = pc
Goto(t, pc) == work' = [work EXCEPT ![t] = [@ EXCEPT !.pc = pc]]
Leave(t)    == work' = [work EXCEPT ![t] = Idle]
RunOf(t)    == work[t].run
Row(t)      == project[work[t].run]

Known == DOMAIN facts \ revoked

\* _retry_pending_registry_promotion: only a finished run whose promotion has
\* no outcome yet.
Poll(t, r) ==
  /\ At(t, "idle")
  /\ project[r].state = "done"
  /\ project[r].status = "pending"
  /\ work' = [work EXCEPT ![t] = [pc |-> "prepare", run |-> r, fact |-> None]]
  /\ UNCHANGED <<revisions, project, facts, revoked, findings>>

\* prepare_promotion_facts: each dependency stands on a fact that is known and
\* not revoked at this moment; otherwise an error, to be retried.
PrepareFacts(t) ==
  LET preds == { Revision(id).fact : id \in Row(t).deps } IN
  /\ At(t, "prepare")
  /\ \/ /\ preds \subseteq Known
        /\ work' = [work EXCEPT ![t] = [@ EXCEPT !.pc = "read",
                      !.fact = [claim |-> Row(t).claim, proof |-> Row(t).proof, preds |-> preds]]]
     \/ /\ ~ (preds \subseteq Known)
        /\ Leave(t)
  /\ UNCHANGED <<revisions, project, facts, revoked, findings>>

\* promote_verified_run reads the row again: a result that need not be
\* registered, or one that has been, ends here.
ReadRun(t) ==
  /\ At(t, "read")
  /\ \/ /\ ~ Row(t).register
        /\ project' = [project EXCEPT ![RunOf(t)] = [@ EXCEPT !.status = "not_requested"]]
        /\ Leave(t)
     \/ /\ Row(t).register /\ Row(t).promoted # None
        /\ Leave(t)
        /\ UNCHANGED project
     \/ /\ Row(t).register /\ Row(t).promoted = None
        /\ Goto(t, "compare")
        /\ UNCHANGED project
  /\ UNCHANGED <<revisions, facts, revoked, findings>>

BaseActive(t) == Active(Row(t).claim) = Row(t).base

\* The first comparison with the active revision, outside the transaction.
Compare(t) ==
  /\ At(t, "compare")
  /\ Goto(t, IF BaseActive(t) THEN "commit" ELSE "conflict")
  /\ UNCHANGED <<revisions, project, facts, revoked, findings>>

\* What the first comparison found is recorded without looking again.
RecordConflict(t) ==
  /\ At(t, "conflict")
  /\ project' = [project EXCEPT ![RunOf(t)] = [@ EXCEPT !.status = "conflict"]]
  /\ Leave(t)
  /\ UNCHANGED <<revisions, facts, revoked, findings>>

Inserted(content) == { i \in DOMAIN facts : facts[i] = content }

FactId(content) == IF Inserted(content) = {} THEN Len(facts) + 1
                   ELSE CHOOSE i \in Inserted(content) : TRUE

\* MUTANT of Insertable: the predecessors were looked at before.
InsertableUnchecked(content) == Inserted(content) \cap revoked = {}

\* MUTANT of Insertable: a fact that exists is an error.
InsertableOnce(content) == content.preds \subseteq Known /\ Inserted(content) = {}

\* insert_promoted_facts: predecessors are looked at again in the transaction;
\* a fact that exists is not inserted twice, one that is revoked never again.
Insertable(content) ==
  /\ content.preds \subseteq Known
  /\ Inserted(content) \cap revoked = {}

\* MUTANT of EffectiveConditions: only the run's own hypotheses count.
OwnConditions(row) == row.hypotheses

EffectiveConditions(row) ==
  row.hypotheses \cup UNION { Revision(id).conditions : id \in row.deps }

\* MUTANT of StillOpen: what was read before the transaction is relied on.
StillOpenAsRead(t) == TRUE

\* The transaction reads both facts again that a concurrent promotion or
\* revision may have changed.
StillOpen(t) == Row(t).promoted = None /\ BaseActive(t)

VerifiedFinding(r, fact) ==
  IF findings[r].status \in {"none", "verified"} THEN findings
  ELSE [findings EXCEPT ![r] = [status |-> "verified", fact |-> fact]]

\* The table allows one revision for each source run (UNIQUE); the comparison
\* makes the constraint idle, so the action does not lean on it.
Promote(t) ==
  LET r == RunOf(t)  row == Row(t)  content == work[t].fact
      conditions == EffectiveConditions(row)
      id == <<row.claim, NextNumber(row.claim)>>
  IN
  /\ At(t, "commit")
  /\ StillOpen(t)
  /\ Insertable(content)
  /\ Room(row.claim)
  /\ facts' = IF Inserted(content) = {} THEN Append(facts, content) ELSE facts
  /\ findings' = VerifiedFinding(r, FactId(content))
  /\ revisions' = Appended(row.claim,
       [active |-> TRUE, evidence |-> IF conditions = {} THEN "VERIFIED" ELSE "CONDITIONAL",
        conditions |-> conditions, run |-> r, fact |-> FactId(content), deps |-> row.deps])
  /\ project' = [project EXCEPT ![r] = [@ EXCEPT !.status = "promoted", !.promoted = id]]
  /\ Leave(t)
  /\ UNCHANGED revoked

\* The transaction finds that the run is promoted already, that the base moved,
\* or that a fact it needs was revoked; the last is an error, to be retried.
PromoteRefused(t) ==
  /\ At(t, "commit")
  /\ \/ /\ Row(t).promoted = None /\ ~ BaseActive(t)
        /\ project' = [project EXCEPT ![RunOf(t)] = [@ EXCEPT !.status = "conflict"]]
     \/ /\ Row(t).promoted # None \/ ~ Insertable(work[t].fact)
        /\ Row(t).promoted = None => BaseActive(t)
        /\ UNCHANGED project
  /\ Leave(t)
  /\ UNCHANGED <<revisions, facts, revoked, findings>>

\* A handler's process ends, or the database raises.
Crash(t) ==
  /\ ~ At(t, "idle")
  /\ Leave(t)
  /\ UNCHANGED <<revisions, project, facts, revoked, findings>>

-----------------------------------------------------------------------------
(* Revocation *)

\* The facts that stand on f: the least set with f and every fact that has a
\* predecessor in the set.
Closed(s) == \A i \in DOMAIN facts : facts[i].preds \cap s # {} => i \in s
Dependents(f) ==
  { i \in DOMAIN facts : \A s \in SUBSET DOMAIN facts : f \in s /\ Closed(s) => i \in s }

Revoked(f) == revoked \cup Dependents(f)

Superseded(f) ==
  [r \in Runs |-> IF findings[r].status = "verified" /\ findings[r].fact \in Revoked(f) \ revoked
                  THEN [status |-> "superseded", fact |-> None] ELSE findings[r]]

\* revoke_project_fact, by an operator.
Revoke(f) ==
  /\ f \in DOMAIN facts
  /\ revoked' = Revoked(f)
  /\ findings' = Superseded(f)
  /\ UNCHANGED <<revisions, project, facts, work>>

-----------------------------------------------------------------------------
Decide(t) == RecordConflict(t) \/ Promote(t) \/ PromoteRefused(t)
Promotion(t) == PrepareFacts(t) \/ ReadRun(t) \/ Compare(t) \/ Decide(t)

Next ==
  \/ \E c \in Claims, conditions \in SUBSET Hypotheses :
       \E expected \in {None, Active(c)} : Revise(c, expected, conditions)
  \/ \E r \in Runs : RecordFinding(r) \/ \E c \in Claims, b \in BOOLEAN : Link(r, c, b)
  \/ \E r \in Runs, proof \in Proofs, hypotheses \in SUBSET Hypotheses :
       \E deps \in SUBSET Usable(r) : Finish(r, proof, deps, hypotheses)
  \/ \E t \in Threads : Promotion(t) \/ Crash(t) \/ \E r \in Runs : Poll(t, r)
  \/ \E f \in DOMAIN facts : Revoke(f)

Spec == Init /\ [][Next]_vars

\* Clients keep polling a finished run, and some poll is not interrupted.
Fairness ==
  /\ \A r \in Runs :
       LET By(Step(_)) == \E t \in Threads : RunOf(t) = r /\ Step(t) IN
       /\ SF_vars(\E t \in Threads : Poll(t, r))
       /\ SF_vars(By(PrepareFacts)) /\ SF_vars(By(ReadRun))
       /\ SF_vars(By(Compare)) /\ SF_vars(By(Decide))
FairSpec == Spec /\ Fairness

-----------------------------------------------------------------------------
(* Properties *)

\* A claim has one current revision and it is the newest, although owners
\* revise claims while runs are being promoted.
NewestIsActive ==
  \A c \in Claims : \A n \in DOMAIN revisions[c] :
    revisions[c][n].active <=> n = Len(revisions[c])

\* However often and however concurrently a finished run is polled, it makes at
\* most one revision (DEPLOYMENT.md "Repeated terminal retries must not create
\* duplicate revisions for the same source run").
PromotedOnce ==
  \A id \in Existing : LET r == Revision(id).run IN
    r # None => project[r].promoted = id

\* A promoted revision directly follows the revision its run was created on:
\* nobody's revision in between is silently superseded.
PromotedOnBase ==
  \A r \in Runs : LET id == project[r].promoted IN
    id # None => id[2] = (IF project[r].base = None THEN 0 ELSE project[r].base[2]) + 1

\* A finished run makes at most one revision and takes nobody else's place
\* (promote_verified_run), however its promotions interleave with revisions.
PromotionIsSound == PromotedOnce /\ PromotedOnBase

\* A fact in force never stands on a revoked one.
FactsStand == \A i \in DOMAIN facts \ revoked : facts[i].preds \cap revoked = {}

\* A finding marked verified has a fact in force behind it.
FindingsBacked == \A r \in Runs : findings[r].status = "verified" => findings[r].fact \in Known

\* Revocation leaves nothing standing on what it removed: no fact in force and
\* no finding marked verified (insert_project_fact, revoke_project_fact).
FactsHold == FactsStand /\ FindingsBacked

\* An unconditionally verified revision is built on no conditional one, at any
\* depth, and none of its dependencies was merely claimed.
VerifiedIsUnconditional ==
  \A id \in Existing : Revision(id).evidence # "OPEN" =>
    \A d \in Revision(id).deps :
      /\ d \in Proved
      /\ Revision(id).evidence = "VERIFIED" => Revision(d).evidence = "VERIFIED"

\* The outcome of a promotion is never replaced by another (README "later
\* terminal rethlas_step calls retry promotion idempotently").
OutcomeIsFinal ==
  [][ \A r \in Runs : project[r].status # "pending" => project'[r].status = project[r].status ]_vars

\* A run's own fact, or one it depends on, was revoked.
Undermined(r) ==
  \/ \E id \in project[r].deps : Revision(id).fact \in revoked
  \/ \E i \in revoked : facts[i].claim = project[r].claim /\ facts[i].proof = project[r].proof

\* Bound: no further revision of the run's claim.
NoRoom(r) == \E c \in Claims : project[r].claim = c /\ Len(revisions[c]) = MaxRevisions

\* The promotion of a finished run is decided, unless its ground was revoked.
PromotionSettles ==
  \A r \in Runs : project[r].state = "done" ~>
    (project[r].status # "pending" \/ Undermined(r) \/ NoRoom(r))
=============================================================================
