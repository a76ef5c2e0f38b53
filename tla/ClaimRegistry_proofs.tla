------------------------ MODULE ClaimRegistry_proofs ------------------------
(***************************************************************************)
(* What holds of the registry for any number of handlers, claims, runs and *)
(* facts.                                                                  *)
(*                                                                         *)
(* The invariant adds to the properties: that a handler promotes only a    *)
(* run that is done (Promoting), that the revisions a run builds on are    *)
(* proved ones and hand on their conditions (Grounded), and that every     *)
(* number and fact a row refers to exists (Types).                         *)
(***************************************************************************)
EXTENDS ClaimRegistry, TLAPS

Types ==
  /\ revisions \in [Claims -> Seq(Revisions)]
  /\ project \in [Runs -> ProjectRuns]
  /\ facts \in Seq(Contents)
  /\ revoked \subseteq DOMAIN facts
  /\ findings \in [Runs -> Findings]
  /\ work \in [Threads -> Works]

Numbered ==
  /\ NewestIsActive
  /\ \A c \in Claims : Len(revisions[c]) <= MaxRevisions
  /\ \A id \in Existing : Revision(id).fact \in DOMAIN facts \cup {None}

Promoting ==
  /\ \A r \in Runs : project[r].state # "done" => project[r].promoted = None
  /\ \A r \in Runs : project[r].state = "done" =>
       project[r].claim \in Claims /\ project[r].proof \in Proofs
  /\ \A r \in Runs : project[r].state = "linked" => project[r].claim \in Claims
  /\ \A t \in Threads : work[t].pc # "idle" =>
       work[t].run \in Runs /\ project[work[t].run].state = "done"
  /\ \A t \in Threads : work[t].pc \in {"read", "compare", "conflict", "commit"} =>
       work[t].fact \in Contents

Grounded ==
  /\ \A r \in Runs : project[r].deps \subseteq Proved
  /\ \A id \in Proved :
       /\ Revision(id).evidence = "VERIFIED" <=> Revision(id).conditions = {}
       /\ \A d \in Revision(id).deps : d \in Proved /\ Revision(d).conditions \subseteq Revision(id).conditions

Standing == FactsStand /\ FindingsBacked

IndInv == Types /\ Numbered /\ Promoting /\ PromotedOnce /\ PromotedOnBase /\ Grounded /\ Standing

-----------------------------------------------------------------------------
(* Revisions *)

LEMMA MaxOfOne ==
  ASSUME NEW n \in Nat
  PROVE  Max({n}) = n
<1>1. \A x \in {n} : x = n /\ \A y \in {n} : x >= y
  OBVIOUS
<1> QED BY <1>1 DEF Max

\* The newest revision is the active one.
LEMMA ActiveIsLast ==
  ASSUME Types, NewestIsActive, NEW c \in Claims
  PROVE  /\ Len(revisions[c]) \in Nat
         /\ Active(c) = IF Len(revisions[c]) = 0 THEN None ELSE <<c, Len(revisions[c])>>
         /\ NextNumber(c) = Len(revisions[c]) + 1
<1> USE ConstantAssumption
<1> DEFINE n == Len(revisions[c])
<1>1. revisions[c] \in Seq(Revisions) /\ n \in Nat /\ DOMAIN revisions[c] = 1..n
  BY DEF Types
<1>2. ActiveNumbers(c) = IF n = 0 THEN {} ELSE {n}
  BY <1>1 DEF ActiveNumbers, NewestIsActive
<1>3. Active(c) = IF n = 0 THEN None ELSE <<c, n>>
  BY <1>1, <1>2, MaxOfOne DEF Active
<1>4. <<c, n>> # None
  BY <1>1
<1> QED BY <1>1, <1>3, <1>4 DEF NextNumber

LEMMA ExistingIds ==
  ASSUME Types, NEW id \in Existing
  PROVE  /\ id[1] \in Claims /\ id[2] \in 1..Len(revisions[id[1]])
         /\ id = <<id[1], id[2]>>
         /\ Revision(id) \in Revisions
<1>1. PICK c \in Claims : id \in {c} \X DOMAIN revisions[c]
  BY DEF Existing
<1>2. revisions[c] \in Seq(Revisions)
  BY DEF Types
<1> QED BY <1>1, <1>2 DEF Revision

\* What a new revision of a claim leaves of the others.
LEMMA Grown ==
  ASSUME Types, NewestIsActive, NEW c \in Claims, NEW rev \in Revisions, rev.active,
         revisions' = Appended(c, rev)
  PROVE  /\ revisions' \in [Claims -> Seq(Revisions)]
         /\ NewestIsActive'
         /\ Len(revisions'[c]) = Len(revisions[c]) + 1
         /\ \A d \in Claims : d # c => revisions'[d] = revisions[d]
         /\ Existing' = Existing \cup {<<c, Len(revisions[c]) + 1>>}
         /\ <<c, Len(revisions[c]) + 1>> \notin Existing
         /\ revisions'[c][Len(revisions[c]) + 1] = rev
         /\ \A d \in Claims : \A m \in DOMAIN revisions[d] :
               /\ revisions'[d][m].evidence = revisions[d][m].evidence
               /\ revisions'[d][m].conditions = revisions[d][m].conditions
               /\ revisions'[d][m].run = revisions[d][m].run
               /\ revisions'[d][m].fact = revisions[d][m].fact
               /\ revisions'[d][m].deps = revisions[d][m].deps
<1> USE ConstantAssumption
<1> DEFINE k == Len(revisions[c])
           old == [m \in DOMAIN revisions[c] |->
                     IF <<c, m>> = Active(c) THEN [revisions[c][m] EXCEPT !.active = FALSE]
                                             ELSE revisions[c][m]]
<1>1. /\ revisions[c] \in Seq(Revisions) /\ k \in Nat /\ DOMAIN revisions[c] = 1..k
      /\ \A m \in 1..k : revisions[c][m] \in Revisions
  BY DEF Types
<1>2. \A m \in 1..k : <<c, m>> = Active(c) <=> m = k
  BY <1>1, ActiveIsLast
<1>3. \A m \in 1..k : /\ old[m] \in Revisions
                      /\ ~ old[m].active
                      /\ old[m].evidence = revisions[c][m].evidence
                      /\ old[m].conditions = revisions[c][m].conditions
                      /\ old[m].run = revisions[c][m].run
                      /\ old[m].fact = revisions[c][m].fact
                      /\ old[m].deps = revisions[c][m].deps
  <2> TAKE m \in 1..k
  <2>1. revisions[c][m].active <=> m = k
    BY <1>1 DEF NewestIsActive
  <2>2. old[m] = IF m = k THEN [revisions[c][m] EXCEPT !.active = FALSE] ELSE revisions[c][m]
    BY <1>1, <1>2
  <2>3. revisions[c][m] \in Revisions
    BY <1>1
  <2> HIDE DEF old
  <2>4. CASE m = k
    <3> DEFINE x == revisions[c][m]
               y == [x EXCEPT !.active = FALSE]
    <3>1. old[m] = y
      BY <2>2, <2>4
    <3>2. x \in Revisions
      BY <2>3
    <3> HIDE DEF x
    <3>3. /\ y \in Revisions /\ ~ y.active /\ y.evidence = x.evidence
          /\ y.conditions = x.conditions /\ y.run = x.run /\ y.fact = x.fact /\ y.deps = x.deps
      BY <3>2 DEF Revisions
    <3> HIDE DEF y
    <3> QED BY <3>1, <3>3 DEF x
  <2>5. CASE m # k
    BY <2>1, <2>2, <2>3, <2>5 DEF Revisions
  <2> QED BY <2>4, <2>5
<1>4. old \in Seq(Revisions) /\ Len(old) = k
  <2>1. old \in [1..k -> Revisions]
    BY <1>1, <1>3
  <2> QED BY <1>1, <2>1
<1>5. revisions' = [revisions EXCEPT ![c] = Append(old, rev)]
  BY DEF Appended
<1> HIDE DEF old
<1>6. /\ Append(old, rev) \in Seq(Revisions) /\ Len(Append(old, rev)) = k + 1
      /\ Append(old, rev)[k + 1] = rev
      /\ \A m \in 1..k : Append(old, rev)[m] = old[m]
  BY <1>1, <1>4
<1>7. /\ revisions' \in [Claims -> Seq(Revisions)]
      /\ revisions'[c] = Append(old, rev)
      /\ \A d \in Claims : d # c => revisions'[d] = revisions[d]
  BY <1>5, <1>6 DEF Types
<1>8. DOMAIN revisions'[c] = 1..(k + 1)
  BY <1>6, <1>7
<1>9. NewestIsActive'
  BY <1>1, <1>3, <1>6, <1>7, <1>8 DEF NewestIsActive
<1>10. Existing' = Existing \cup {<<c, k + 1>>} /\ <<c, k + 1>> \notin Existing
  <2>1. Existing' = UNION { {d} \X DOMAIN revisions'[d] : d \in Claims }
    BY DEF Existing
  <2>2. \A d \in Claims : DOMAIN revisions'[d] = IF d = c THEN (1..k) \cup {k + 1} ELSE DOMAIN revisions[d]
    <3>1. 1..(k + 1) = (1..k) \cup {k + 1}
      BY <1>1
    <3> QED BY <1>7, <1>8, <3>1
  <2>3. \A id : id \in Existing' <=> \E d \in Claims : id \in {d} \X DOMAIN revisions'[d]
    BY <2>1
  <2>4. \A id : id \in Existing <=> \E d \in Claims : id \in {d} \X DOMAIN revisions[d]
    BY DEF Existing
  <2> QED BY <1>1, <2>2, <2>3, <2>4
<1>11. \A d \in Claims : \A m \in DOMAIN revisions[d] :
         /\ revisions'[d][m].evidence = revisions[d][m].evidence
         /\ revisions'[d][m].conditions = revisions[d][m].conditions
         /\ revisions'[d][m].run = revisions[d][m].run
         /\ revisions'[d][m].fact = revisions[d][m].fact
         /\ revisions'[d][m].deps = revisions[d][m].deps
  <2> TAKE d \in Claims
  <2>1. CASE d = c
    BY <1>1, <1>3, <1>6, <1>7, <2>1
  <2>2. CASE d # c
    BY <1>7, <2>2
  <2> QED BY <2>1, <2>2
<1> QED BY <1>1, <1>6, <1>7, <1>9, <1>10, <1>11

LEMMA Unrevised ==
  ASSUME revisions' = revisions
  PROVE  /\ Existing' = Existing
         /\ Proved' = Proved
         /\ \A id : Revision(id)' = Revision(id)
<1>1. Existing' = Existing
  BY DEF Existing
<1>2. \A id : Revision(id)' = Revision(id)
  BY DEF Revision
<1> QED BY <1>1, <1>2 DEF Proved

-----------------------------------------------------------------------------
(* Steps *)

LEMMA Establish == Init => IndInv
<1> SUFFICES ASSUME Init PROVE IndInv
  OBVIOUS
<1> USE ConstantAssumption DEF Init
<1>1. Types
  <2>1. NewRun \in ProjectRuns
    BY DEF NewRun, ProjectRuns
  <2>2. NoFinding \in Findings /\ Idle \in Works
    BY DEF NoFinding, Findings, Idle, Works
  <2> QED BY <2>1, <2>2 DEF Types
<1>2. \A c \in Claims : Len(revisions[c]) = 0 /\ DOMAIN revisions[c] = {}
  OBVIOUS
<1>3. Existing = {} /\ Proved = {}
  BY <1>2 DEF Existing, Proved
<1>4. Numbered
  BY <1>2, <1>3 DEF Numbered, NewestIsActive
<1>5. Promoting
  BY DEF Promoting, NewRun, Idle
<1>6. PromotedOnce /\ PromotedOnBase
  BY <1>3 DEF PromotedOnce, PromotedOnBase, NewRun
<1>7. Grounded
  BY <1>3 DEF Grounded, NewRun
<1>8. Standing
  BY DEF Standing, FactsStand, FindingsBacked, NoFinding
<1> QED BY <1>1, <1>4, <1>5, <1>6, <1>7, <1>8 DEF IndInv

\* A step of a handler that writes at most the outcome of its run.
LEMMA HandlerStep ==
  ASSUME IndInv, NEW t \in Threads, NEW j \in Works, work' = [work EXCEPT ![t] = j],
         j.pc # "idle" => j.run \in Runs /\ project[j.run].state = "done",
         j.pc \in {"read", "compare", "conflict", "commit"} => j.fact \in Contents,
         project' \in [Runs -> ProjectRuns],
         \A r \in Runs : /\ project'[r].state = project[r].state
                         /\ project'[r].claim = project[r].claim
                         /\ project'[r].base = project[r].base
                         /\ project'[r].proof = project[r].proof
                         /\ project'[r].deps = project[r].deps
                         /\ project'[r].promoted = project[r].promoted,
         UNCHANGED <<revisions, facts, revoked, findings>>
  PROVE  IndInv'
<1> USE ConstantAssumption
<1>0. work' \in [Threads -> Works] /\ work'[t] = j /\ \A u \in Threads : u # t => work'[u] = work[u]
  BY DEF IndInv, Types
<1>1. Types'
  BY <1>0 DEF IndInv, Types
<1>2. Numbered'
  BY Unrevised DEF IndInv, Numbered, NewestIsActive
<1>3. Promoting'
  BY <1>0 DEF IndInv, Promoting
<1>4. PromotedOnce'
  <2>1. \A id \in Existing : Revision(id).run \in Runs \cup {None}
    BY ExistingIds DEF IndInv, Revisions
  <2> QED BY <2>1, Unrevised DEF IndInv, PromotedOnce
<1>5. PromotedOnBase'
  BY DEF IndInv, PromotedOnBase
<1>6. Grounded'
  BY Unrevised DEF IndInv, Grounded
<1>7. Standing'
  BY DEF IndInv, Standing, FactsStand, FindingsBacked, Known
<1> QED BY <1>1, <1>2, <1>3, <1>4, <1>5, <1>6, <1>7 DEF IndInv

LEMMA IdleWork == Idle \in Works /\ Idle.pc = "idle"
BY DEF Idle, Works

\* The outcomes that are no promotion.
LEMMA OutcomeOnly ==
  ASSUME Types, NEW r \in Runs, NEW status \in {"conflict", "not_requested"},
         project' = [project EXCEPT ![r] = [@ EXCEPT !.status = status]]
  PROVE  /\ project' \in [Runs -> ProjectRuns]
         /\ \A s \in Runs : /\ project'[s].state = project[s].state
                            /\ project'[s].claim = project[s].claim
                            /\ project'[s].base = project[s].base
                            /\ project'[s].proof = project[s].proof
                            /\ project'[s].deps = project[s].deps
                            /\ project'[s].promoted = project[s].promoted
<1> DEFINE x == project[r]
           y == [x EXCEPT !.status = status]
<1>1. x \in ProjectRuns
  BY DEF Types
<1>2. /\ y \in ProjectRuns
      /\ y.state = x.state /\ y.claim = x.claim /\ y.base = x.base
      /\ y.proof = x.proof /\ y.deps = x.deps /\ y.promoted = x.promoted
  <2> HIDE DEF x
  <2> QED BY <1>1 DEF ProjectRuns
<1>3. project' = [project EXCEPT ![r] = y]
  OBVIOUS
<1> HIDE DEF y
<1>4. \A s \in Runs : project'[s] = IF s = r THEN y ELSE project[s]
  BY <1>3 DEF Types
<1> QED BY <1>1, <1>2, <1>3, <1>4 DEF Types

LEMMA PollStep ==
  ASSUME IndInv, NEW t \in Threads, NEW r \in Runs, Poll(t, r)
  PROVE  IndInv'
<1> DEFINE j == [pc |-> "prepare", run |-> r, fact |-> None]
<1>1. j \in Works /\ j.pc = "prepare" /\ j.run = r
  BY DEF Works
<1>2. /\ work' = [work EXCEPT ![t] = j] /\ project[r].state = "done"
      /\ UNCHANGED <<revisions, project, facts, revoked, findings>>
  BY DEF Poll
<1> HIDE DEF j
<1> QED BY <1>1, <1>2, HandlerStep DEF IndInv, Types

\* A handler that gives up, or goes on to look at something else.
LEMMA LeaveStep ==
  ASSUME IndInv, NEW t \in Threads, Leave(t), UNCHANGED <<revisions, project, facts, revoked, findings>>
  PROVE  IndInv'
BY IdleWork, HandlerStep DEF Leave, IndInv, Types

LEMMA GotoStep ==
  ASSUME IndInv, NEW t \in Threads, NEW pc \in {"compare", "conflict", "commit"}, Goto(t, pc),
         work[t].pc \in {"read", "compare"},
         UNCHANGED <<revisions, project, facts, revoked, findings>>
  PROVE  IndInv'
<1> DEFINE j == [work[t] EXCEPT !.pc = pc]
<1>1. j \in Works /\ j.pc = pc /\ j.run = work[t].run /\ j.fact = work[t].fact
  BY DEF IndInv, Types, Works
<1>2. work' = [work EXCEPT ![t] = j]
  BY DEF Goto
<1> HIDE DEF j
<1> QED BY <1>1, <1>2, HandlerStep DEF IndInv, Types, Promoting

LEMMA PrepareFactsStep ==
  ASSUME IndInv, NEW t \in Threads, PrepareFacts(t)
  PROVE  IndInv'
<1> USE ConstantAssumption
<1> DEFINE preds == { Revision(id).fact : id \in Row(t).deps }
           content == [claim |-> Row(t).claim, proof |-> Row(t).proof, preds |-> preds]
           j == [work[t] EXCEPT !.pc = "read", !.fact = content]
<1>1. CASE preds \subseteq Known /\ work' = [work EXCEPT ![t] = j]
  <2>1. preds \in SUBSET Nat
    <3>1. DOMAIN facts \subseteq Nat
      BY DEF IndInv, Types
    <3> QED BY <1>1, <3>1 DEF Known
  <2>2. /\ work[t] \in Works /\ work[t].run \in Runs /\ project[work[t].run].state = "done"
        /\ Row(t).claim \in Claims /\ Row(t).proof \in Proofs
    BY DEF PrepareFacts, At, Row, IndInv, Types, Promoting
  <2> HIDE DEF preds
  <2>3. content \in Contents
    BY <2>1, <2>2 DEF Contents
  <2> HIDE DEF content
  <2>4. j \in Works /\ j.pc = "read" /\ j.run = work[t].run /\ j.fact = content
    BY <2>2, <2>3 DEF Works
  <2> HIDE DEF j
  <2> QED BY <1>1, <2>2, <2>3, <2>4, HandlerStep DEF PrepareFacts, IndInv, Types
<1>2. CASE Leave(t)
  BY <1>2, LeaveStep DEF PrepareFacts
<1> QED BY <1>1, <1>2 DEF PrepareFacts

LEMMA ReadRunStep ==
  ASSUME IndInv, NEW t \in Threads, ReadRun(t)
  PROVE  IndInv'
<1>1. work[t].pc = "read" /\ RunOf(t) \in Runs /\ UNCHANGED <<revisions, facts, revoked, findings>>
  BY DEF ReadRun, At, IndInv, Promoting, RunOf
<1>2. CASE project' = [project EXCEPT ![RunOf(t)] = [@ EXCEPT !.status = "not_requested"]] /\ Leave(t)
  BY <1>1, <1>2, OutcomeOnly, IdleWork, HandlerStep DEF Leave, IndInv
<1>3. CASE Leave(t) /\ UNCHANGED project
  BY <1>1, <1>3, LeaveStep
<1>4. CASE Goto(t, "compare") /\ UNCHANGED project
  BY <1>1, <1>4, GotoStep
<1> QED BY <1>2, <1>3, <1>4 DEF ReadRun

LEMMA CompareStep ==
  ASSUME IndInv, NEW t \in Threads, Compare(t)
  PROVE  IndInv'
BY GotoStep DEF Compare, At

LEMMA ConflictStep ==
  ASSUME IndInv, NEW t \in Threads, RecordConflict(t) \/ PromoteRefused(t)
  PROVE  IndInv'
<1>1. RunOf(t) \in Runs /\ Leave(t) /\ UNCHANGED <<revisions, facts, revoked, findings>>
  BY DEF RecordConflict, PromoteRefused, At, IndInv, Promoting, RunOf
<1>2. CASE project' = [project EXCEPT ![RunOf(t)] = [@ EXCEPT !.status = "conflict"]]
  BY <1>1, <1>2, OutcomeOnly, IdleWork, HandlerStep DEF Leave, IndInv
<1>3. CASE UNCHANGED project
  BY <1>1, <1>3, LeaveStep
<1> QED BY <1>2, <1>3 DEF RecordConflict, PromoteRefused

-----------------------------------------------------------------------------
(* Steps of the project: findings, runs, revisions *)

LEMMA RecordFindingStep ==
  ASSUME IndInv, NEW r \in Runs, RecordFinding(r)
  PROVE  IndInv'
<1> USE ConstantAssumption
<1>1. /\ findings' = [findings EXCEPT ![r] = [status |-> "active", fact |-> None]]
      /\ UNCHANGED <<revisions, project, facts, revoked, work>>
  BY DEF RecordFinding
<1>2. [status |-> "active", fact |-> None] \in Findings
  BY DEF Findings
<1>3. Types'
  BY <1>1, <1>2 DEF IndInv, Types
<1>4. Numbered' /\ Promoting' /\ PromotedOnBase' /\ Grounded'
  BY <1>1, Unrevised DEF IndInv, Numbered, NewestIsActive, Promoting, PromotedOnBase, Grounded
<1>5. PromotedOnce'
  BY <1>1, Unrevised DEF IndInv, PromotedOnce
<1>6. Standing'
  BY <1>1 DEF IndInv, Types, Standing, FactsStand, FindingsBacked, Known
<1> QED BY <1>3, <1>4, <1>5, <1>6 DEF IndInv

\* A step that changes the row of one run that is not promoted, and nothing else.
LEMMA RunStep ==
  ASSUME IndInv, NEW r \in Runs, NEW row \in ProjectRuns, project' = [project EXCEPT ![r] = row],
         project[r].state # "done",
         project[r].promoted = None, row.promoted = None,
         row.state # "new", row.claim \in Claims,
         row.state = "done" => row.proof \in Proofs,
         row.deps \subseteq Proved,
         UNCHANGED <<revisions, facts, revoked, findings, work>>
  PROVE  IndInv'
<1> USE ConstantAssumption
<1>1. /\ project' \in [Runs -> ProjectRuns] /\ project'[r] = row
      /\ \A s \in Runs : s # r => project'[s] = project[s]
  BY DEF IndInv, Types
<1>2. Types'
  BY <1>1 DEF IndInv, Types
<1>3. Numbered'
  BY Unrevised DEF IndInv, Numbered, NewestIsActive
<1>4. Promoting'
  BY <1>1 DEF IndInv, Promoting
<1>5. PromotedOnce'
  <2>1. \A id \in Existing : Revision(id).run \in Runs \cup {None}
    BY ExistingIds DEF IndInv, Revisions
  <2>2. \A id \in Existing : id # None
    BY ExistingIds DEF IndInv
  <2>3. \A id \in Existing : Revision(id).run # r
    BY <2>2 DEF IndInv, PromotedOnce
  <2> QED BY <1>1, <2>1, <2>3, Unrevised DEF IndInv, PromotedOnce
<1>6. PromotedOnBase'
  BY <1>1 DEF IndInv, PromotedOnBase
<1>7. Grounded'
  BY <1>1, Unrevised DEF IndInv, Grounded
<1>8. Standing'
  BY DEF IndInv, Standing, FactsStand, FindingsBacked, Known
<1> QED BY <1>2, <1>3, <1>4, <1>5, <1>6, <1>7, <1>8 DEF IndInv

LEMMA LinkStep ==
  ASSUME IndInv, NEW r \in Runs, NEW c \in Claims, NEW b \in BOOLEAN, Link(r, c, b)
  PROVE  IndInv'
<1> USE ConstantAssumption
<1> DEFINE base == Active(c)
           snapshot == (Proved \cup { Active(d) : d \in Claims }) \ {None}
           row == [NewRun EXCEPT !.state = "linked", !.claim = c, !.base = base, !.register = b,
                                 !.snapshot = snapshot]
<1>1. \A d \in Claims : Active(d) \in RevisionIds \cup {None}
  <2> TAKE d \in Claims
  <2>1. /\ Len(revisions[d]) \in Nat /\ Len(revisions[d]) <= MaxRevisions
        /\ Active(d) = IF Len(revisions[d]) = 0 THEN None ELSE <<d, Len(revisions[d])>>
    BY ActiveIsLast DEF IndInv, Numbered
  <2> QED BY <2>1 DEF RevisionIds
<1>2. \A id \in Existing : id \in RevisionIds
  <2> TAKE id \in Existing
  <2>1. id[1] \in Claims /\ id[2] \in 1..Len(revisions[id[1]]) /\ id = <<id[1], id[2]>>
    BY ExistingIds DEF IndInv
  <2>2. Len(revisions[id[1]]) \in Nat /\ Len(revisions[id[1]]) <= MaxRevisions
    BY <2>1 DEF IndInv, Numbered, Types
  <2> QED BY <2>1, <2>2 DEF RevisionIds
<1>3. base \in RevisionIds \cup {None} /\ snapshot \in SUBSET RevisionIds
  BY <1>1, <1>2 DEF Proved
<1> HIDE DEF base, snapshot
<1>4. /\ row \in ProjectRuns /\ row.state = "linked" /\ row.claim = c /\ row.promoted = None
      /\ row.deps = {}
  BY <1>3 DEF NewRun, ProjectRuns
<1>5. /\ project' = [project EXCEPT ![r] = row] /\ project[r].state = "new"
      /\ UNCHANGED <<revisions, facts, revoked, findings, work>>
  BY DEF Link, base, snapshot
<1> HIDE DEF row
<1>6. project[r].promoted = None
  BY <1>5 DEF IndInv, Promoting
<1> QED BY <1>4, <1>5, <1>6, RunStep

LEMMA FinishStep ==
  ASSUME IndInv, NEW r \in Runs, NEW proof \in Proofs, NEW deps \in SUBSET Usable(r),
         NEW hypotheses \in SUBSET Hypotheses, Finish(r, proof, deps, hypotheses)
  PROVE  IndInv'
<1> USE ConstantAssumption
<1> DEFINE x == project[r]
           row == [x EXCEPT !.state = "done", !.proof = proof, !.deps = deps, !.hypotheses = hypotheses]
<1>1. /\ project' = [project EXCEPT ![r] = row] /\ x.state = "linked"
      /\ UNCHANGED <<revisions, facts, revoked, findings, work>>
  BY DEF Finish
<1>2. x \in ProjectRuns /\ x.claim \in Claims
  BY <1>1 DEF IndInv, Types, Promoting
<1>3. deps \subseteq Proved /\ deps \in SUBSET RevisionIds
  BY <1>2 DEF Usable, ProjectRuns
<1> HIDE DEF x
<1>4. /\ row \in ProjectRuns /\ row.state = "done" /\ row.claim = x.claim /\ row.promoted = x.promoted
      /\ row.proof = proof /\ row.deps = deps
  BY <1>2, <1>3 DEF ProjectRuns
<1> HIDE DEF row
<1>5. project[r].promoted = None
  BY <1>1 DEF x, IndInv, Promoting
<1> QED BY <1>1, <1>2, <1>3, <1>4, <1>5, RunStep DEF x

\* A step that adds a revision, proved or open.
LEMMA AppendStep ==
  ASSUME IndInv, NEW c \in Claims, NEW rev \in Revisions, rev.active,
         revisions' = Appended(c, rev), Room(c),
         NEW new, new = <<c, Len(revisions[c]) + 1>>,
         DOMAIN facts \subseteq DOMAIN facts', rev.fact \in DOMAIN facts' \cup {None},
         \A r \in Runs : project'[r].deps = project[r].deps,
         rev.evidence # "OPEN" =>
           /\ rev.evidence = "VERIFIED" <=> rev.conditions = {}
           /\ \A d \in rev.deps : d \in Proved /\ Revision(d).conditions \subseteq rev.conditions
  PROVE  /\ revisions' \in [Claims -> Seq(Revisions)]
         /\ Numbered'
         /\ Grounded'
         /\ Existing' = Existing \cup {new} /\ new \notin Existing
         /\ Revision(new)' = rev
         /\ \A id \in Existing : Revision(id)'.run = Revision(id).run
<1> USE ConstantAssumption
<1>1. Types /\ NewestIsActive
  BY DEF IndInv, Numbered
<1>2. /\ revisions' \in [Claims -> Seq(Revisions)]
      /\ NewestIsActive'
      /\ Len(revisions'[c]) = Len(revisions[c]) + 1
      /\ \A d \in Claims : d # c => revisions'[d] = revisions[d]
      /\ Existing' = Existing \cup {new}
      /\ new \notin Existing
      /\ revisions'[c][Len(revisions[c]) + 1] = rev
  BY <1>1, Grown
<1>3. Revision(new)' = rev
  BY <1>2 DEF Revision
<1>4. \A id \in Existing :
        /\ Revision(id)'.evidence = Revision(id).evidence
        /\ Revision(id)'.conditions = Revision(id).conditions
        /\ Revision(id)'.run = Revision(id).run
        /\ Revision(id)'.fact = Revision(id).fact
        /\ Revision(id)'.deps = Revision(id).deps
  <2> TAKE id \in Existing
  <2>1. id[1] \in Claims /\ id[2] \in DOMAIN revisions[id[1]]
    <3>1. id[1] \in Claims /\ id[2] \in 1..Len(revisions[id[1]])
      BY <1>1, ExistingIds
    <3> QED BY <1>1, <3>1 DEF Types
  <2> QED BY <1>1, <2>1, Grown DEF Revision
<1>5. Proved \subseteq Proved' /\ \A id \in Proved' : id \in Proved \/ (id = new /\ rev.evidence # "OPEN")
  <2>1. Proved' = { id \in Existing' : Revision(id)'.evidence # "OPEN" }
    BY DEF Proved
  <2>2. Proved = { id \in Existing : Revision(id).evidence # "OPEN" }
    BY DEF Proved
  <2> QED BY <1>2, <1>3, <1>4, <2>1, <2>2
<1>6. Numbered'
  <2>1. \A d \in Claims : Len(revisions'[d]) <= MaxRevisions
    <3>1. Len(revisions[c]) < MaxRevisions /\ Len(revisions[c]) \in Nat
      BY DEF Room, IndInv, Types
    <3>2. Len(revisions'[c]) <= MaxRevisions
      BY <1>2, <3>1
    <3> QED BY <1>2, <3>2 DEF IndInv, Numbered
  <2>2. \A id \in Existing' : Revision(id)'.fact \in DOMAIN facts' \cup {None}
    BY <1>2, <1>3, <1>4 DEF IndInv, Numbered
  <2> QED BY <1>2, <2>1, <2>2 DEF Numbered
<1>7. Grounded'
  <2>1. \A r \in Runs : project'[r].deps \subseteq Proved'
    BY <1>5 DEF IndInv, Grounded
  <2>2. ASSUME NEW id \in Proved'
        PROVE  /\ Revision(id)'.evidence = "VERIFIED" <=> Revision(id)'.conditions = {}
               /\ \A d \in Revision(id)'.deps :
                    d \in Proved' /\ Revision(d)'.conditions \subseteq Revision(id)'.conditions
    <3>1. CASE id \in Proved
      <4>1. id \in Existing /\ \A d \in Proved : d \in Existing
        BY <3>1 DEF Proved
      <4> QED BY <1>4, <1>5, <3>1, <4>1 DEF IndInv, Grounded
    <3>2. CASE id = new /\ rev.evidence # "OPEN"
      <4>1. \A d \in Proved : d \in Existing
        BY DEF Proved
      <4> QED BY <1>3, <1>4, <1>5, <3>2, <4>1
    <3> QED BY <1>5, <3>1, <3>2
  <2> QED BY <2>1, <2>2 DEF Grounded
<1> QED BY <1>2, <1>3, <1>4, <1>6, <1>7

LEMMA ReviseStep ==
  ASSUME IndInv, NEW c \in Claims, NEW conditions \in SUBSET Hypotheses, NEW expected,
         Revise(c, expected, conditions)
  PROVE  IndInv'
<1> USE ConstantAssumption
<1> DEFINE rev == [active |-> TRUE, evidence |-> "OPEN", conditions |-> conditions,
                   run |-> None, fact |-> None, deps |-> {}]
<1> PICK new : new = <<c, Len(revisions[c]) + 1>>
  OBVIOUS
<1>1. /\ Room(c) /\ revisions' = Appended(c, rev)
      /\ UNCHANGED <<project, facts, revoked, findings, work>>
  BY DEF Revise
<1>2. /\ rev \in Revisions /\ rev.active /\ rev.evidence = "OPEN" /\ rev.run = None /\ rev.fact = None
  BY DEF Revisions
<1> HIDE DEF rev
<1>3. /\ revisions' \in [Claims -> Seq(Revisions)]
      /\ Numbered'
      /\ Grounded'
      /\ Existing' = Existing \cup {new}
      /\ Revision(new)' = rev
      /\ \A id \in Existing : Revision(id)'.run = Revision(id).run
  BY <1>1, <1>2, AppendStep
<1>4. Types'
  BY <1>1, <1>3 DEF IndInv, Types
<1>5. Promoting' /\ PromotedOnBase'
  BY <1>1 DEF IndInv, Promoting, PromotedOnBase
<1>6. PromotedOnce'
  BY <1>1, <1>2, <1>3 DEF IndInv, PromotedOnce
<1>7. Standing'
  BY <1>1 DEF IndInv, Standing, FactsStand, FindingsBacked, Known
<1> QED BY <1>3, <1>4, <1>5, <1>6, <1>7 DEF IndInv

-----------------------------------------------------------------------------
(* Facts *)

\* What stands on a revoked fact is revoked with it.
LEMMA RevokeStep ==
  ASSUME IndInv, NEW f \in DOMAIN facts, Revoke(f)
  PROVE  IndInv'
<1> USE ConstantAssumption
<1> DEFINE D == Dependents(f)
<1>1. D \subseteq DOMAIN facts
  BY DEF Dependents
<1>2. \A i \in DOMAIN facts : facts[i].preds \cap D # {} => i \in D
  BY DEF Dependents, Closed
<1>3. /\ revoked' = revoked \cup D
      /\ findings' = Superseded(f)
      /\ UNCHANGED <<revisions, project, facts, work>>
  BY DEF Revoke, Revoked
<1>4. \A r \in Runs : findings'[r] =
        IF findings[r].status = "verified" /\ findings[r].fact \in D \ revoked
        THEN [status |-> "superseded", fact |-> None] ELSE findings[r]
  BY <1>3 DEF Superseded, Revoked
<1> HIDE DEF D
<1>5. findings' \in [Runs -> Findings]
  <2>1. findings' = [r \in Runs |-> findings'[r]]
    BY <1>3 DEF Superseded
  <2>2. \A r \in Runs : findings'[r] \in Findings
    BY <1>4 DEF Findings, IndInv, Types
  <2> QED BY <2>1, <2>2
<1>6. Types'
  BY <1>1, <1>3, <1>5 DEF IndInv, Types
<1>7. Numbered' /\ Promoting' /\ PromotedOnBase' /\ Grounded'
  BY <1>3, Unrevised DEF IndInv, Numbered, NewestIsActive, Promoting, PromotedOnBase, Grounded
<1>8. PromotedOnce'
  BY <1>3, Unrevised DEF IndInv, PromotedOnce
<1>9. FactsStand'
  <2>1. \A i \in DOMAIN facts \ revoked : facts[i].preds \cap revoked = {}
    BY DEF IndInv, Standing, FactsStand
  <2> QED BY <1>2, <1>3, <2>1 DEF FactsStand
<1>10. FindingsBacked'
  BY <1>3, <1>4 DEF IndInv, Standing, FindingsBacked, Known
<1> QED BY <1>6, <1>7, <1>8, <1>9, <1>10 DEF IndInv, Standing

LEMMA CrashStep ==
  ASSUME IndInv, NEW t \in Threads, Crash(t)
  PROVE  IndInv'
BY LeaveStep DEF Crash

\* The facts after a promotion, and the place of the promoted one.
LEMMA InsertedFact ==
  ASSUME Types, FactsStand, NEW content \in Contents, Insertable(content),
         facts' = IF Inserted(content) = {} THEN Append(facts, content) ELSE facts
  PROVE  /\ facts' \in Seq(Contents)
         /\ DOMAIN facts \subseteq DOMAIN facts'
         /\ \A i \in DOMAIN facts' \ revoked : facts'[i].preds \cap revoked = {}
         /\ FactId(content) \in Nat
         /\ FactId(content) \in DOMAIN facts' \ revoked
<1>1. facts \in Seq(Contents) /\ revoked \subseteq DOMAIN facts /\ DOMAIN facts = 1..Len(facts)
      /\ Len(facts) \in Nat
  BY DEF Types
<1>2. CASE Inserted(content) = {}
  <2>1. facts' = Append(facts, content) /\ FactId(content) = Len(facts) + 1
    BY <1>2 DEF FactId
  <2>2. /\ facts' \in Seq(Contents)
        /\ DOMAIN facts' = 1..(Len(facts) + 1)
        /\ facts'[Len(facts) + 1] = content
        /\ \A i \in 1..Len(facts) : facts'[i] = facts[i]
    BY <1>1, <2>1
  <2>3. content.preds \cap revoked = {}
    BY DEF Insertable, Known
  <2>4. \A i \in DOMAIN facts' : i \in DOMAIN facts \/ i = Len(facts) + 1
    BY <1>1, <2>2
  <2>5. \A i \in DOMAIN facts' \ revoked : facts'[i].preds \cap revoked = {}
    BY <1>1, <2>2, <2>3, <2>4 DEF FactsStand
  <2> QED BY <1>1, <2>1, <2>2, <2>5
<1>3. CASE Inserted(content) # {}
  <2>1. FactId(content) \in Inserted(content)
    BY <1>3 DEF FactId
  <2>2. FactId(content) \in DOMAIN facts \ revoked
    BY <2>1 DEF Insertable, Inserted
  <2> QED BY <1>1, <1>3, <2>2 DEF FactsStand
<1> QED BY <1>2, <1>3

LEMMA PromoteStep ==
  ASSUME IndInv, NEW t \in Threads, Promote(t)
  PROVE  IndInv'
<1> USE ConstantAssumption
<1> DEFINE conditions == EffectiveConditions(Row(t))
           fact == FactId(work[t].fact)
           evidence == IF conditions = {} THEN "VERIFIED" ELSE "CONDITIONAL"
           rev == [active |-> TRUE, evidence |-> evidence, conditions |-> conditions,
                   run |-> RunOf(t), fact |-> fact, deps |-> Row(t).deps]
<1> PICK r : r = RunOf(t)
  OBVIOUS
<1> PICK c : c = Row(t).claim
  OBVIOUS
<1> PICK new : new = <<c, Len(revisions[c]) + 1>>
  OBVIOUS
<1>1. /\ r \in Runs /\ project[r] \in ProjectRuns /\ project[r].state = "done"
      /\ project[r] = Row(t) /\ project[r].claim = c /\ c \in Claims
      /\ project[r].promoted = None /\ Active(c) = project[r].base
      /\ work[t].fact \in Contents
  BY DEF Promote, At, StillOpen, BaseActive, Row, RunOf, IndInv, Types, Promoting
<1>2. /\ Len(revisions[c]) \in Nat
      /\ Active(c) = IF Len(revisions[c]) = 0 THEN None ELSE <<c, Len(revisions[c])>>
      /\ NextNumber(c) = Len(revisions[c]) + 1
  BY <1>1, ActiveIsLast DEF IndInv, Numbered
<1>3. /\ Insertable(work[t].fact) /\ Room(c)
      /\ facts' = IF Inserted(work[t].fact) = {} THEN Append(facts, work[t].fact) ELSE facts
      /\ findings' = VerifiedFinding(r, fact)
      /\ revisions' = Appended(c, rev)
      /\ project' = [project EXCEPT ![r] = [@ EXCEPT !.status = "promoted", !.promoted = new]]
      /\ work' = [work EXCEPT ![t] = Idle]
      /\ revoked' = revoked
  BY <1>2 DEF Promote, Leave
<1>4. /\ facts' \in Seq(Contents)
      /\ DOMAIN facts \subseteq DOMAIN facts'
      /\ \A i \in DOMAIN facts' \ revoked : facts'[i].preds \cap revoked = {}
      /\ fact \in Nat
      /\ fact \in DOMAIN facts' \ revoked
  BY <1>1, <1>3, InsertedFact DEF IndInv, Standing
<1>5. /\ Row(t).deps \subseteq Proved /\ Row(t).deps \in SUBSET RevisionIds
      /\ Row(t).hypotheses \in SUBSET Hypotheses
  BY <1>1 DEF IndInv, Grounded, ProjectRuns
<1>6. /\ conditions \in SUBSET Hypotheses
      /\ \A d \in Row(t).deps : d \in Proved /\ Revision(d).conditions \subseteq conditions
  <2>1. \A d \in Row(t).deps : Revision(d) \in Revisions
    BY <1>5, ExistingIds DEF Proved, IndInv
  <2>2. \A d \in Row(t).deps : Revision(d).conditions \subseteq Hypotheses
    BY <2>1 DEF Revisions
  <2> QED BY <1>5, <2>2 DEF EffectiveConditions
<1> HIDE DEF conditions, fact
<1>7. /\ evidence \in {"VERIFIED", "CONDITIONAL"}
      /\ evidence = "VERIFIED" <=> conditions = {}
  OBVIOUS
<1> HIDE DEF evidence
<1>8. /\ rev \in Revisions /\ rev.active /\ rev.fact = fact /\ rev.run = r
      /\ rev.evidence = "VERIFIED" <=> rev.conditions = {}
      /\ \A d \in rev.deps : d \in Proved /\ Revision(d).conditions \subseteq rev.conditions
  BY <1>1, <1>4, <1>5, <1>6, <1>7 DEF Revisions
<1> HIDE DEF rev
<1>9. new \in RevisionIds /\ new # None /\ new[2] = Len(revisions[c]) + 1
  BY <1>1, <1>2, <1>3 DEF Room, RevisionIds
<1>10. /\ project' \in [Runs -> ProjectRuns]
       /\ project'[r].promoted = new /\ project'[r].state = "done" /\ project'[r].base = project[r].base
       /\ project'[r].claim = c /\ project'[r].proof = project[r].proof /\ project'[r].deps = project[r].deps
       /\ \A s \in Runs : s # r => project'[s] = project[s]
  <2> DEFINE x == project[r]
             y == [x EXCEPT !.status = "promoted", !.promoted = new]
  <2>1. x \in ProjectRuns
    BY <1>1
  <2>2. project' = [project EXCEPT ![r] = y]
    BY <1>3
  <2>3. /\ y \in ProjectRuns /\ y.promoted = new /\ y.state = x.state /\ y.base = x.base
        /\ y.claim = x.claim /\ y.proof = x.proof /\ y.deps = x.deps
    <3> HIDE DEF x
    <3> QED BY <1>9, <2>1 DEF ProjectRuns
  <2> HIDE DEF y
  <2>4. \A s \in Runs : project'[s] = IF s = r THEN y ELSE project[s]
    BY <2>2 DEF IndInv, Types
  <2> QED BY <1>1, <2>2, <2>3, <2>4 DEF IndInv, Types
<1>11. /\ revisions' \in [Claims -> Seq(Revisions)]
       /\ Numbered'
       /\ Grounded'
       /\ Existing' = Existing \cup {new}
       /\ Revision(new)' = rev
       /\ \A id \in Existing : Revision(id)'.run = Revision(id).run
  <2>1. \A s \in Runs : project'[s].deps = project[s].deps
    BY <1>10
  <2> QED BY <1>1, <1>3, <1>4, <1>8, <2>1, AppendStep
<1>12. /\ findings' \in [Runs -> Findings]
       /\ \A s \in Runs : findings'[s] = findings[s] \/ findings'[s].fact = fact
  <2>1. [status |-> "verified", fact |-> fact] \in Findings
    BY <1>4 DEF Findings
  <2> QED BY <1>3, <2>1 DEF VerifiedFinding, IndInv, Types
<1>13. Types'
  <2>1. revoked' \subseteq DOMAIN facts'
    BY <1>3, <1>4 DEF IndInv, Types
  <2>2. work' \in [Threads -> Works]
    BY <1>3, IdleWork DEF IndInv, Types
  <2> QED BY <1>4, <1>10, <1>11, <1>12, <2>1, <2>2 DEF Types
<1>14. Promoting'
  <2>1. \A u \in Threads : work'[u] = IF u = t THEN Idle ELSE work[u]
    BY <1>3 DEF IndInv, Types
  <2>2. \A s \in Runs : /\ project'[s].state = project[s].state
                        /\ project'[s].claim = project[s].claim
                        /\ project'[s].proof = project[s].proof
                        /\ s # r => project'[s].promoted = project[s].promoted
    BY <1>1, <1>10
  <2> QED BY <1>1, <2>1, <2>2, IdleWork DEF IndInv, Promoting
<1>15. PromotedOnce'
  <2>1. \A id \in Existing : id # None
    BY ExistingIds DEF IndInv
  <2>2. \A id \in Existing : Revision(id).run # r
    BY <1>1, <2>1 DEF IndInv, PromotedOnce
  <2>3. \A id \in Existing : Revision(id).run \in Runs \cup {None}
    BY ExistingIds DEF IndInv, Revisions
  <2>4. \A id \in Existing' : Revision(id)'.run # None => project'[Revision(id)'.run].promoted = id
    <3> TAKE id \in Existing'
    <3>1. CASE id = new
      BY <1>8, <1>10, <1>11, <3>1
    <3>2. CASE id \in Existing
      <4>1. Revision(id)'.run = Revision(id).run
        BY <1>11, <3>2
      <4>2. Revision(id).run # None => project[Revision(id).run].promoted = id
        BY <3>2 DEF IndInv, PromotedOnce
      <4> QED BY <1>10, <2>2, <2>3, <3>2, <4>1, <4>2
    <3> QED BY <1>11, <3>1, <3>2
  <2> QED BY <2>4 DEF PromotedOnce
<1>16. PromotedOnBase'
  <2>1. new[2] = (IF project[r].base = None THEN 0 ELSE project[r].base[2]) + 1
    BY <1>1, <1>2, <1>9
  <2> QED BY <1>10, <2>1 DEF IndInv, PromotedOnBase
<1>17. Standing'
  <2>1. \A s \in Runs : findings'[s].status = "verified" => findings'[s].fact \in DOMAIN facts' \ revoked
    BY <1>4, <1>12 DEF IndInv, Standing, FindingsBacked, Known
  <2> QED BY <1>3, <1>4, <2>1 DEF Standing, FactsStand, FindingsBacked, Known
<1> QED BY <1>11, <1>13, <1>14, <1>15, <1>16, <1>17 DEF IndInv

-----------------------------------------------------------------------------
(* Theorems *)

THEOREM Invariance == Spec => []IndInv
<1>1. IndInv /\ [Next]_vars => IndInv'
  <2> SUFFICES ASSUME IndInv, [Next]_vars PROVE IndInv'
    OBVIOUS
  <2>1. CASE \E c \in Claims, conditions \in SUBSET Hypotheses :
               \E expected \in {None, Active(c)} : Revise(c, expected, conditions)
    BY <2>1, ReviseStep
  <2>2. CASE \E r \in Runs : RecordFinding(r) \/ \E c \in Claims, b \in BOOLEAN : Link(r, c, b)
    BY <2>2, RecordFindingStep, LinkStep
  <2>3. CASE \E r \in Runs, proof \in Proofs, hypotheses \in SUBSET Hypotheses :
               \E deps \in SUBSET Usable(r) : Finish(r, proof, deps, hypotheses)
    BY <2>3, FinishStep
  <2>4. ASSUME NEW t \in Threads, Promotion(t) PROVE IndInv'
    BY <2>4, PrepareFactsStep, ReadRunStep, CompareStep, ConflictStep, PromoteStep DEF Promotion, Decide
  <2>5. ASSUME NEW t \in Threads, Crash(t) \/ \E r \in Runs : Poll(t, r) PROVE IndInv'
    BY <2>5, CrashStep, PollStep
  <2>6. CASE \E f \in DOMAIN facts : Revoke(f)
    BY <2>6, RevokeStep
  <2>7. CASE UNCHANGED vars
    <3>1. UNCHANGED <<revisions, project, facts, revoked, findings, work>>
      BY <2>7 DEF vars
    <3>2. Types' /\ Numbered' /\ Promoting' /\ PromotedOnBase' /\ Grounded'
      BY <3>1, Unrevised
      DEF IndInv, Types, Numbered, NewestIsActive, Promoting, PromotedOnBase, Grounded
    <3>3. PromotedOnce' /\ Standing'
      BY <3>1, Unrevised DEF IndInv, PromotedOnce, Standing, FactsStand, FindingsBacked, Known
    <3> QED BY <3>2, <3>3 DEF IndInv
  <2> QED BY <2>1, <2>2, <2>3, <2>4, <2>5, <2>6, <2>7 DEF Next
<1> QED BY Establish, <1>1, PTL DEF Spec

\* Every row is of its table's form and refers to facts that exist.
THEOREM TypeCorrect == Spec => []TypeOK
<1>1. IndInv => TypeOK
  BY DEF IndInv, Types, Numbered, TypeOK
<1> QED BY <1>1, Invariance, PTL

\* A claim has one active revision and it is its newest, whichever owners revise
\* it and however many runs are being promoted on it.
THEOREM Newest == Spec => []NewestIsActive
<1>1. IndInv => NewestIsActive
  BY DEF IndInv, Numbered
<1> QED BY <1>1, Invariance, PTL

\* However many handlers poll a finished run, and wherever they are interrupted,
\* it makes at most one revision, and that one directly follows the revision the
\* run was created on.
THEOREM PromotionSound == Spec => []PromotionIsSound
<1>1. IndInv => PromotionIsSound
  BY DEF IndInv, PromotionIsSound
<1> QED BY <1>1, Invariance, PTL

\* Whatever is revoked while proofs that rest on it are being promoted, a fact in
\* force stands on no revoked one and a verified finding has a fact behind it.
THEOREM FactsHeld == Spec => []FactsHold
<1>1. IndInv => FactsHold
  BY DEF IndInv, Standing, FactsHold
<1> QED BY <1>1, Invariance, PTL

\* A revision verified without conditions is built on no conditional one.
THEOREM Unconditional == Spec => []VerifiedIsUnconditional
<1>1. IndInv => VerifiedIsUnconditional
  <2> SUFFICES ASSUME IndInv, NEW id \in Existing, Revision(id).evidence # "OPEN",
                      NEW d \in Revision(id).deps
               PROVE  /\ d \in Proved
                      /\ Revision(id).evidence = "VERIFIED" => Revision(d).evidence = "VERIFIED"
    BY DEF VerifiedIsUnconditional
  <2>1. id \in Proved
    BY DEF Proved
  <2>2. d \in Proved /\ Revision(d).conditions \subseteq Revision(id).conditions
    BY <2>1 DEF IndInv, Grounded
  <2> QED BY <2>1, <2>2 DEF IndInv, Grounded
<1> QED BY <1>1, Invariance, PTL
=============================================================================
