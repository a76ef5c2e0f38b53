------------------------- MODULE Submission_proofs -------------------------
(***************************************************************************)
(* Theorems about the submission protocol, for any set of handlers,        *)
(* capabilities and requests.                                              *)
(***************************************************************************)
EXTENDS Submission, FiniteSetTheorems, TLAPS

TypeInv == TypeOK /\ JobBound

-----------------------------------------------------------------------------
(* The values actions assign have the right types *)

LEMMA ValueTypes ==
  /\ 0 \in Epochs
  /\ NoReceipt \in Receipts
  /\ NoCheck \in Checkpoints
  /\ [NoCheck EXCEPT !.phase = "prepared"] \in Checkpoints
  /\ NoMarker \in Markers
  /\ Between \in Markers
  /\ [NoMarker EXCEPT !.kind = "restartable"] \in Markers
  /\ Idle \in Jobs
<1>1. 0 \in Epochs
  BY ConstantAssumption DEF Epochs
<1> QED BY <1>1 DEF NoReceipt, Receipts, NoCheck, Checkpoints, NoMarker, Between, Markers,
                    Idle, Job, Jobs, Pcs, Files

LEMMA GotoType ==
  ASSUME TypeInv, NEW t \in Threads, NEW pc \in Pcs, Goto(t, pc),
         pc \notin {"idle", "issue"} => job[t].cap \in Caps,
         pc \notin {"idle", "issue", "retire"} => job[t].req \in Requests
  PROVE  job' \in [Threads -> Jobs] /\ JobBound'
<1>1. job' \in [Threads -> Jobs]
  BY DEF Goto, Jobs, TypeInv, TypeOK
<1>2. \A u \in Threads : job'[u].cap = job[u].cap /\ job'[u].req = job[u].req
                         /\ job'[u].pc = IF u = t THEN pc ELSE job[u].pc
  BY DEF Goto, Jobs, TypeInv, TypeOK
<1> QED BY <1>1, <1>2 DEF JobBound, TypeInv

LEMMA StartType ==
  ASSUME TypeInv, NEW t \in Threads, NEW j \in Jobs, job' = [job EXCEPT ![t] = j],
         j.pc \notin {"idle", "issue"} => j.cap \in Caps,
         j.pc \notin {"idle", "issue", "retire"} => j.req \in Requests
  PROVE  job' \in [Threads -> Jobs] /\ JobBound'
BY DEF TypeInv, TypeOK, JobBound

LEMMA QuitType ==
  ASSUME TypeInv, NEW t \in Threads, Quit(t)
  PROVE  job' \in [Threads -> Jobs] /\ JobBound'
<1>1. Idle.pc = "idle"
  BY DEF Idle, Job
<1> QED BY <1>1, StartType, ValueTypes DEF Quit

LEMMA SettleType ==
  ASSUME TypeOK, NEW c \in Caps, NEW d \in {"none", "applied", "corrected"},
         NEW n \in Nat, NEW b \in BOOLEAN, Settle(c, d, n, b)
  PROVE  receipt' \in [Caps -> Receipts]
BY DEF TypeOK, Settle, Receipts

LEMMA CountType ==
  ASSUME TypeOK, NEW t \in Threads, job[t].cap \in Caps, CountEffect(t)
  PROVE  done' \in [Caps -> [Slots -> Nat]]
<1> DEFINE c == job[t].cap
           row == [done[c] EXCEPT ![Slot(t)] = done[c][Slot(t)] + 1]
<1>1. done \in [Caps -> [Slots -> Nat]]
  BY DEF TypeOK
<1>2. row \in [Slots -> Nat]
  <2>1. CASE Slot(t) \in Slots
    BY <2>1, <1>1
  <2>2. CASE Slot(t) \notin Slots
    BY <2>2, <1>1
  <2> QED BY <2>1, <2>2
<1>3. done' = [done EXCEPT ![c] = row]
  BY Zenon DEF CountEffect
<1> HIDE DEF row
<1> QED BY <1>1, <1>2, <1>3

LEMMA TransitionType ==
  ASSUME TypeOK, NEW next \in Stages, TransitionOn(next)
  PROVE  epoch' \in Epochs /\ stage' \in Stages /\ cap' \in [Caps -> Rows]
<1>1. epoch' \in Epochs /\ stage' \in Stages
  BY ConstantAssumption DEF TypeOK, TransitionOn, Epochs
<1>2. ASSUME NEW c \in Caps
      PROVE  cap'[c] \in Rows
  BY DEF TypeOK, TransitionOn, Rows
<1>3. cap' = [c \in Caps |-> cap'[c]]
  BY DEF TransitionOn
<1> QED BY <1>1, <1>2, <1>3

LEMMA FieldTypes ==
  ASSUME TypeOK, NEW c \in Caps
  PROVE  /\ check[c].accepted \in Nat
         /\ \A p \in {"none", "prepared", "running", "commit_ready"} :
              [check EXCEPT ![c].phase = p] \in [Caps -> Checkpoints]
         /\ [check EXCEPT ![c].accepted = @ + 1] \in [Caps -> Checkpoints]
         /\ [check EXCEPT ![c].enrolled = TRUE] \in [Caps -> Checkpoints]
         /\ [cap EXCEPT ![c].status = "revoked"] \in [Caps -> Rows]
         /\ journal[c].file \in Files /\ journal[c].before \in Nat /\ journal[c].after \in Nat
<1>1. check \in [Caps -> Checkpoints] /\ cap \in [Caps -> Rows] /\ journal \in [Caps -> Markers]
  BY DEF TypeOK
<1>2. check[c].accepted \in Nat
  BY <1>1 DEF Checkpoints
<1>3. ASSUME NEW p \in {"none", "prepared", "running", "commit_ready"}
      PROVE  [check EXCEPT ![c].phase = p] \in [Caps -> Checkpoints]
  BY <1>1 DEF Checkpoints
<1>4. [check EXCEPT ![c].accepted = @ + 1] \in [Caps -> Checkpoints]
  BY <1>1, <1>2 DEF Checkpoints
<1>5. [check EXCEPT ![c].enrolled = TRUE] \in [Caps -> Checkpoints]
  BY <1>1 DEF Checkpoints
<1>6. [cap EXCEPT ![c].status = "revoked"] \in [Caps -> Rows]
  BY <1>1 DEF Rows
<1>7. journal[c].file \in Files /\ journal[c].before \in Nat /\ journal[c].after \in Nat
  BY <1>1 DEF Markers
<1> QED BY <1>2, <1>3, <1>4, <1>5, <1>6, <1>7

-----------------------------------------------------------------------------
(* Every action keeps the types *)

LEMMA InitType == Init => TypeInv
<1> SUFFICES ASSUME Init PROVE TypeInv
  OBVIOUS
<1>1. Idle.pc = "idle"
  BY DEF Idle, Job
<1>2. [c \in Caps |-> [status |-> "none", epoch |-> 0]] \in [Caps -> Rows]
  BY ValueTypes DEF Rows
<1>3. TaskStages \cup {"mechanical"} \subseteq Stages
  BY DEF Stages
<1>4. JobBound
  BY <1>1 DEF Init, JobBound
<1> QED BY <1>1, <1>2, <1>3, <1>4, ValueTypes DEF Init, TypeInv, TypeOK

LEMMA UntrackedType ==
  ASSUME TypeInv, NEW next \in Stages, Untracked(next)
  PROVE  TypeInv'
BY TransitionType DEF Untracked, TypeInv, TypeOK, JobBound, history

LEMMA ExpireType ==
  ASSUME TypeInv, NEW c \in Caps, Expire(c)
  PROVE  TypeInv'
BY DEF Expire, TypeInv, TypeOK, JobBound, durable, history

LEMMA ReadType ==
  ASSUME TypeInv, NEW t \in Threads, IssueRead(t)
  PROVE  TypeInv'
<1> DEFINE j == Job("issue", None, None, epoch)
<1>1. j \in Jobs /\ j.pc = "issue"
  BY DEF Job, Jobs, Pcs, TypeInv, TypeOK
<1>2. job' \in [Threads -> Jobs] /\ JobBound'
  BY <1>1, StartType DEF IssueRead
<1> QED BY <1>2 DEF IssueRead, durable, history, TypeInv, TypeOK

LEMMA InsertType ==
  ASSUME TypeInv, NEW t \in Threads, NEW c \in Caps, IssueInsert(t, c)
  PROVE  TypeInv'
<1>1. job[t].epoch \in Epochs
  BY DEF TypeInv, TypeOK, Jobs
<1>2. cap' \in [Caps -> Rows]
  BY <1>1 DEF IssueInsert, TypeInv, TypeOK, Rows
<1>3. job' \in [Threads -> Jobs] /\ JobBound'
  BY QuitType DEF IssueInsert
<1> QED BY <1>2, <1>3 DEF IssueInsert, history, TypeInv, TypeOK

LEMMA SubmitType ==
  ASSUME TypeInv, NEW t \in Threads, NEW c \in Caps, NEW r \in Requests, Submit(t, c, r)
  PROVE  TypeInv'
<1> DEFINE j == Job("reserve", c, r, 0)
<1>1. j \in Jobs /\ j.cap \in Caps /\ j.req \in Requests
  BY ValueTypes DEF Job, Jobs, Pcs
<1>2. job' \in [Threads -> Jobs] /\ JobBound'
  BY <1>1, StartType DEF Submit
<1> QED BY <1>2 DEF Submit, durable, history, TypeInv, TypeOK

LEMMA ReserveType ==
  ASSUME TypeInv, NEW t \in Threads,
         Reserve(t) \/ ReserveRefused(t) \/ Activate(t) \/ ActivateRefused(t)
  PROVE  TypeInv'
<1>1. CASE Reserve(t)
  <2>1. job[t].cap \in Caps /\ job[t].req \in Requests
    BY <1>1 DEF Reserve, At, TypeInv, JobBound
  <2>2. job' \in [Threads -> Jobs] /\ JobBound'
    BY <1>1, <2>1, GotoType DEF Reserve, Pcs
  <2>3. Reservation(job[t].req) \in Receipts
    BY <2>1 DEF Reservation, Receipts
  <2> QED BY <1>1, <2>1, <2>2, <2>3, ValueTypes DEF Reserve, history, TypeInv, TypeOK
<1>2. CASE ReserveRefused(t) \/ ActivateRefused(t)
  <2>1. job' \in [Threads -> Jobs] /\ JobBound'
    BY <1>2, QuitType DEF ReserveRefused, ActivateRefused
  <2> QED BY <1>2, <2>1 DEF ReserveRefused, ActivateRefused, durable, history, TypeInv, TypeOK
<1>3. CASE Activate(t)
  <2>1. job[t].cap \in Caps /\ job[t].req \in Requests
    BY <1>3 DEF Activate, At, TypeInv, JobBound
  <2>2. job' \in [Threads -> Jobs] /\ JobBound'
    BY <1>3, <2>1, GotoType DEF Activate, Pcs, LockedPcs
  <2>3. check' \in [Caps -> Checkpoints]
    BY <1>3, <2>1, FieldTypes DEF Activate, TypeInv
  <2> QED BY <1>3, <2>1, <2>2, <2>3, ValueTypes DEF Activate, history, TypeInv, TypeOK
<1> QED BY <1>1, <1>2, <1>3

LEMMA CorrectType ==
  ASSUME TypeInv, NEW t \in Threads, job[t].cap \in Caps, Correct(t)
  PROVE  TypeInv'
<1>1. job' \in [Threads -> Jobs] /\ JobBound'
  BY GotoType DEF Correct, Pcs
<1>2. receipt' \in [Caps -> Receipts]
  BY FieldTypes, SettleType DEF Correct, TypeInv
<1> QED BY <1>1, <1>2 DEF Correct, history, TypeInv, TypeOK

LEMMA WriteType ==
  ASSUME TypeInv, NEW t \in Threads,
         \/ BeginWrite(t) \/ PublishWrite(t) \/ AcceptWrite(t) \/ DatabaseWrite(t)
         \/ RejectWrite(t) \/ ArmCommit(t)
  PROVE  TypeInv'
<1>1. job[t].cap \in Caps /\ job[t].req \in Requests
  BY DEF BeginWrite, PublishWrite, AcceptWrite, DatabaseWrite, RejectWrite, ArmCommit,
         At, TypeInv, JobBound
<1> DEFINE c == job[t].cap
<1>2. CASE BeginWrite(t)
  <2>1. job' \in [Threads -> Jobs] /\ JobBound'
    BY <1>1, <1>2, GotoType DEF BeginWrite, Pcs, LockedPcs
  <2>2. ASSUME NEW f \in Files PROVE files[f] \in Nat
    BY DEF TypeInv, TypeOK
  <2>3. FileOf(Kind(t)) \in Files
    BY DEF FileOf, Files
  <2>4. journal' \in [Caps -> Markers]
    BY <1>1, <1>2, <2>2, <2>3 DEF BeginWrite, Markers, TypeInv, TypeOK
  <2> QED BY <1>2, <2>1, <2>4 DEF BeginWrite, history, TypeInv, TypeOK
<1>3. CASE PublishWrite(t)
  <2>1. job' \in [Threads -> Jobs] /\ JobBound'
    BY <1>1, <1>3, GotoType DEF PublishWrite, Pcs, LockedPcs
  <2>2. done' \in [Caps -> [Slots -> Nat]]
    BY <1>1, <1>3, CountType DEF PublishWrite, TypeInv
  <2>3. files' \in [Files -> Nat]
    BY <1>1, <1>3, FieldTypes DEF PublishWrite, TypeInv, TypeOK
  <2> QED BY <1>3, <2>1, <2>2, <2>3 DEF PublishWrite, TypeInv, TypeOK
<1>4. CASE AcceptWrite(t)
  <2>1. job' \in [Threads -> Jobs] /\ JobBound'
    BY <1>1, <1>4, GotoType DEF AcceptWrite, Pcs, LockedPcs
  <2>2. check' \in [Caps -> Checkpoints]
    BY <1>1, <1>4, FieldTypes DEF AcceptWrite, TypeInv
  <2> QED BY <1>1, <1>4, <2>1, <2>2, ValueTypes DEF AcceptWrite, history, TypeInv, TypeOK
<1>5. CASE DatabaseWrite(t)
  <2>1. done' \in [Caps -> [Slots -> Nat]]
    BY <1>1, <1>5, CountType DEF DatabaseWrite, TypeInv
  <2>2. check' \in [Caps -> Checkpoints]
    BY <1>1, <1>5, FieldTypes DEF DatabaseWrite, TypeInv
  <2> QED BY <1>5, <2>1, <2>2 DEF DatabaseWrite, TypeInv, TypeOK, JobBound
<1>6. CASE RejectWrite(t)
  BY <1>1, <1>6, CorrectType DEF RejectWrite
<1>7. CASE ArmCommit(t)
  <2>1. job' \in [Threads -> Jobs] /\ JobBound'
    BY <1>1, <1>7, GotoType DEF ArmCommit, Pcs, LockedPcs
  <2>2. check' \in [Caps -> Checkpoints]
    BY <1>1, <1>7, FieldTypes DEF ArmCommit, TypeInv
  <2> QED BY <1>7, <2>1, <2>2 DEF ArmCommit, history, TypeInv, TypeOK
<1> QED BY <1>2, <1>3, <1>4, <1>5, <1>6, <1>7

\* The product images of an action are versions, and its evidence is well typed.
LEMMA EffectType ==
  ASSUME TypeOK, NEW p \in Payloads, NEW out
  PROVE  Effect(p, out).before \in Nat /\ Effect(p, out).after \in Nat
<1>1. files["product"] \in Nat
  BY DEF TypeOK, Files
<1>2. CASE Prior(p) # {}
  <2>1. PICK s \in Prior(p) : s = Effect(p, out)
    BY <1>2, Zenon DEF Effect
  <2>2. s \in Sidecars
    BY <2>1 DEF Prior, Scope, TypeOK
  <2> QED BY <2>1, <2>2 DEF Sidecars
<1>3. CASE Prior(p) = {}
  BY <1>1, <1>3 DEF Effect
<1> QED BY <1>2, <1>3

LEMMA PrepareType ==
  ASSUME TypeInv, NEW t \in Threads, NEW out \in {"move", "partial"},
         \/ Prepare(t, out) \/ RejectPrepare(t) \/ EnrollAtomic(t) \/ EnrollRestartable(t)
         \/ RejectEnroll(t) \/ PublishSidecar(t) \/ PublishProduct(t)
  PROVE  TypeInv'
<1>1. job[t].cap \in Caps /\ job[t].req \in Requests
  BY DEF Prepare, RejectPrepare, EnrollAtomic, EnrollRestartable, RejectEnroll,
         PublishSidecar, PublishProduct, At, TypeInv, JobBound
<1>2. job[t].req.payload \in Payloads
  BY <1>1, ConstantAssumption
<1> DEFINE c == job[t].cap
           p == job[t].req.payload
           e == Effect(p, job[t].out)
<1>3. e.before \in Nat /\ e.after \in Nat
  BY <1>2, EffectType DEF TypeInv
<1>4. CASE Prepare(t, out)
  <2> DEFINE j == [job[t] EXCEPT !.pc = "enroll", !.out = out]
  <2>1. j \in Jobs /\ j.cap = job[t].cap /\ j.req = job[t].req
    BY DEF Jobs, Pcs, LockedPcs, TypeInv, TypeOK
  <2>2. job' = [job EXCEPT ![t] = j]
    BY <1>4 DEF Prepare, TypeInv, TypeOK, Jobs
  <2>3. job' \in [Threads -> Jobs] /\ JobBound'
    BY <1>1, <2>1, <2>2, StartType
  <2> QED BY <1>4, <2>3 DEF Prepare, durable, history, TypeInv, TypeOK
<1>5. CASE RejectPrepare(t) \/ RejectEnroll(t)
  BY <1>1, <1>5, CorrectType DEF RejectPrepare, RejectEnroll
<1>6. CASE EnrollAtomic(t)
  <2>1. job' \in [Threads -> Jobs] /\ JobBound'
    BY <1>1, <1>6, GotoType DEF EnrollAtomic, Pcs, LockedPcs
  <2>2. check' \in [Caps -> Checkpoints]
    BY <1>1, <1>6, FieldTypes DEF EnrollAtomic, TypeInv
  <2> QED BY <1>6, <2>1, <2>2 DEF EnrollAtomic, history, TypeInv, TypeOK
<1>7. CASE EnrollRestartable(t)
  <2>1. job' \in [Threads -> Jobs] /\ JobBound'
    BY <1>1, <1>7, GotoType DEF EnrollRestartable, Pcs, LockedPcs
  <2> QED BY <1>1, <1>7, <2>1, ValueTypes DEF EnrollRestartable, history, TypeInv, TypeOK
<1>8. CASE PublishSidecar(t)
  <2>1. job' \in [Threads -> Jobs] /\ JobBound'
    BY <1>1, <1>8, GotoType DEF PublishSidecar, Pcs, LockedPcs
  <2>2. [epoch |-> epoch, payload |-> p, exec |-> c, before |-> e.before, after |-> e.after]
          \in Sidecars
    BY <1>1, <1>2, <1>3 DEF Sidecars, TypeInv, TypeOK
  <2>3. sidecars' \subseteq Sidecars
    BY <1>8, <2>2 DEF PublishSidecar, TypeInv, TypeOK
  <2> QED BY <1>8, <2>1, <2>3 DEF PublishSidecar, history, TypeInv, TypeOK
<1>9. CASE PublishProduct(t)
  <2>1. job' \in [Threads -> Jobs] /\ JobBound'
    BY <1>1, <1>9, GotoType DEF PublishProduct, Pcs, LockedPcs
  <2>2. files' \in [Files -> Nat] /\ installed' \in [Epochs -> Nat]
    <3>1. files \in [Files -> Nat] /\ installed \in [Epochs -> Nat] /\ epoch \in Epochs
      BY DEF TypeInv, TypeOK
    <3>2. files' = files \/ files' = [files EXCEPT !["product"] = e.after]
      BY <1>9 DEF PublishProduct
    <3>3. installed' = installed \/ installed' = [installed EXCEPT ![epoch] = @ + 1]
      BY <1>9 DEF PublishProduct
    <3> HIDE DEF e
    <3> QED BY <1>3, <3>1, <3>2, <3>3
  <2> QED BY <1>9, <2>1, <2>2 DEF PublishProduct, TypeInv, TypeOK
<1> QED BY <1>4, <1>5, <1>6, <1>7, <1>8, <1>9

LEMMA CommitType ==
  ASSUME TypeInv, NEW t \in Threads, NEW next \in Stages,
         \/ CommitTransition(t, next) \/ CommitPartial(t) \/ RejectCommit(t)
         \/ RaiseUnknown(t) \/ Retire(t)
  PROVE  TypeInv'
<1>1. CASE CommitTransition(t, next) \/ CommitPartial(t)
  <2>1. job[t].cap \in Caps
    BY <1>1 DEF CommitTransition, CommitPartial, At, TypeInv, JobBound
  <2>2. job' \in [Threads -> Jobs] /\ JobBound'
    BY <1>1, <2>1, GotoType DEF CommitTransition, CommitPartial, Pcs
  <2>3. receipt' \in [Caps -> Receipts]
    BY <1>1, <2>1, FieldTypes, SettleType DEF CommitTransition, CommitPartial, TypeInv
  <2>4. advanced' \in [Caps -> Nat]
    <3>1. advanced \in [Caps -> Nat]
      BY DEF TypeInv, TypeOK
    <3>2. \/ advanced' = [advanced EXCEPT ![job[t].cap] = @ + 1]
          \/ advanced' = advanced
      BY <1>1 DEF CommitTransition, CommitPartial, history
    <3> QED BY <2>1, <3>1, <3>2
  <2>5. epoch' \in Epochs /\ stage' \in Stages /\ cap' \in [Caps -> Rows]
    BY <1>1, TransitionType DEF CommitTransition, CommitPartial, TypeInv, TypeOK
  <2> QED BY <1>1, <2>1, <2>2, <2>3, <2>4, <2>5, ValueTypes
          DEF CommitTransition, CommitPartial, history, TypeInv, TypeOK
<1>2. CASE RejectCommit(t)
  <2>1. job[t].cap \in Caps
    BY <1>2 DEF RejectCommit, At, TypeInv, JobBound
  <2> QED BY <1>2, <2>1, CorrectType DEF RejectCommit
<1>3. CASE RaiseUnknown(t)
  <2>1. job' \in [Threads -> Jobs] /\ JobBound'
    BY <1>3, QuitType DEF RaiseUnknown
  <2> QED BY <1>3, <2>1 DEF RaiseUnknown, Release, durable, history, TypeInv, TypeOK
<1>4. CASE Retire(t)
  <2>1. job[t].cap \in Caps
    BY <1>4 DEF Retire, At, TypeInv, JobBound
  <2>2. job' \in [Threads -> Jobs] /\ JobBound'
    BY <1>4, QuitType DEF Retire
  <2>3. cap' \in [Caps -> Rows]
    BY <1>4, <2>1, FieldTypes DEF Retire, TypeInv
  <2> QED BY <1>4, <2>2, <2>3 DEF Retire, Release, history, TypeInv, TypeOK
<1> QED BY <1>1, <1>2, <1>3, <1>4

LEMMA AbortType ==
  ASSUME TypeInv, NEW t \in Threads, Abort(t)
  PROVE  TypeInv'
<1>1. job' \in [Threads -> Jobs] /\ JobBound'
  BY QuitType DEF Abort
<1> QED BY <1>1 DEF Abort, Release, durable, history, TypeInv, TypeOK

LEMMA RecoverType ==
  ASSUME TypeInv, NEW t \in Threads, NEW c \in Caps, Recover(t, c)
  PROVE  TypeInv'
<1> DEFINE j == Job("retire", c, None, 0)
<1>1. j \in Jobs /\ j.cap \in Caps /\ j.pc = "retire"
  BY ValueTypes DEF Job, Jobs, Pcs
<1>2. job' \in [Threads -> Jobs] /\ JobBound'
  BY <1>1, StartType DEF Recover
<1>3. Retained(c) \in Nat
  <2>1. check[c].accepted \in Nat
    BY FieldTypes DEF TypeInv
  <2> QED BY <2>1 DEF Retained
<1>4. receipt' \in [Caps -> Receipts]
  BY <1>3, SettleType DEF Recover, TypeInv
<1> QED BY <1>2, <1>4 DEF Recover, history, TypeInv, TypeOK

LEMMA NextType == TypeInv /\ [Next]_vars => TypeInv'
<1> SUFFICES ASSUME TypeInv, [Next]_vars PROVE TypeInv'
  OBVIOUS
<1>1. ASSUME NEW next \in Stages, Untracked(next) PROVE TypeInv'
  BY <1>1, UntrackedType
<1>2. ASSUME NEW t \in Threads, Work(t) PROVE TypeInv'
  <2>1. "move" \in {"move", "partial"} /\ "closed" \in Stages
    BY DEF Stages
  <2> QED BY <1>2, <2>1, ReserveType, WriteType, PrepareType, CommitType DEF Work
<1>3. CASE UNCHANGED vars
  BY <1>3 DEF vars, durable, history, TypeInv, TypeOK, JobBound
<1>4. "closed" \in Stages
  BY DEF Stages
<1> QED BY <1>1, <1>2, <1>3, <1>4, ExpireType, ReadType, InsertType, SubmitType, AbortType,
           RecoverType DEF Next, Mechanical, Cancel

\* Every state of the protocol is well typed, for any number of handlers,
\* capabilities, requests and epochs.
THEOREM TypeCorrect == Spec => []TypeOK
<1>1. TypeInv => TypeOK
  BY DEF TypeInv
<1> QED BY <1>1, InitType, NextType, PTL DEF Spec

-----------------------------------------------------------------------------
(* The inductive invariant: facts about the state of a locked handler *)

Rest == /\ OnePending /\ PendingIsCurrent /\ ReceiptsIssued
        /\ \A t \in Threads : Owns(t) /\ Evidence(t)
        /\ \A c \in Caps : Accounted(c)

LEMMA GotoFacts ==
  ASSUME TypeOK, NEW t \in Threads, NEW pc, Goto(t, pc)
  PROVE  /\ job'[t].pc = pc /\ job'[t].cap = job[t].cap /\ job'[t].req = job[t].req
         /\ \A u \in Threads \ {t} : job'[u] = job[u]
BY DEF Goto, TypeOK, Jobs

\* The holder of the flock works on the only open receipt, alone.
LEMMA LockedFacts ==
  ASSUME IndInv, NEW t \in Threads, job[t].pc \in LockedPcs
  PROVE  /\ job[t].cap \in Caps
         /\ job[t].req \in Requests
         /\ lock = t
         /\ Pending(job[t].cap)
         /\ receipt[job[t].cap].req = job[t].req
         /\ \A u \in Threads \ {t} : job[u].pc \notin LockedPcs
         /\ \A d \in Caps \ {job[t].cap} : ~Pending(d)
         /\ OpenEvidence(job[t].cap)
         /\ OpenProgress(job[t].cap)
         /\ advanced[job[t].cap] = 0
<1>1. job[t].pc \notin {"idle", "issue", "retire"}
  BY DEF LockedPcs
<1>2. job[t].cap \in Caps /\ job[t].req \in Requests
  BY <1>1 DEF IndInv, JobBound
<1>3. lock = t /\ Pending(job[t].cap) /\ receipt[job[t].cap].req = job[t].req
  BY DEF IndInv, Owns
<1>4. \A u \in Threads \ {t} : job[u].pc \notin LockedPcs
  BY <1>3 DEF IndInv, Owns
<1>5. \A d \in Caps \ {job[t].cap} : ~Pending(d)
  BY <1>2, <1>3 DEF IndInv, OnePending
<1>6. OpenEvidence(job[t].cap) /\ OpenProgress(job[t].cap) /\ advanced[job[t].cap] = 0
  BY <1>2, <1>3 DEF IndInv, Accounted
<1> QED BY <1>2, <1>3, <1>4, <1>5, <1>6

\* No handler holds the flock, or nothing is pending: no handler is locked.
LEMMA FreeFacts ==
  ASSUME IndInv, lock = None \/ ~AnyPending
  PROVE  \A u \in Threads : job[u].pc \notin LockedPcs
<1> SUFFICES ASSUME NEW u \in Threads, job[u].pc \in LockedPcs PROVE FALSE
  OBVIOUS
<1>1. lock = u /\ Pending(job[u].cap) /\ job[u].cap \in Caps
  BY LockedFacts
<1> QED BY <1>1, ConstantAssumption DEF AnyPending

LEMMA UnlockedStep ==
  ASSUME NEW u \in Threads, job'[u].pc \notin LockedPcs
  PROVE  (Owns(u) /\ Evidence(u))'
BY DEF Owns, Evidence, LockedPcs, At

LEMMA SameStep ==
  ASSUME IndInv, NEW u \in Threads, job'[u] = job[u], lock' = lock \/ lock # u,
         UNCHANGED <<receipt, check, journal, files, done>>
  PROVE  (Owns(u) /\ Evidence(u))'
<1>1. Owns(u) /\ Evidence(u)
  BY DEF IndInv
<1> QED BY <1>1 DEF Owns, Evidence, At, Pending, Slot

\* The fence survives a step that opens no receipt and keeps the epoch, or
\* leaves none open.
LEMMA FenceKept ==
  ASSUME IndInv, 
         \A c \in Caps : Pending(c)' => Pending(c),
         \A c \in Caps : NoneExists(c) => NoneExists(c)',
         \A c \in Caps : cap[c].status # "none" =>
            cap'[c].status # "none" /\ cap'[c].epoch = cap[c].epoch,
         epoch' = epoch \/ \A c \in Caps : ~Pending(c)'
  PROVE  (OnePending /\ PendingIsCurrent /\ ReceiptsIssued)'
<1>1. OnePending'
  BY DEF IndInv, OnePending
<1>2. ReceiptsIssued'
  BY DEF IndInv, ReceiptsIssued
<1>3. PendingIsCurrent'
  BY DEF IndInv, PendingIsCurrent, ReceiptsIssued, Pending, NoneExists
<1> QED BY <1>1, <1>2, <1>3

LEMMA AccountsKept ==
  ASSUME IndInv, UNCHANGED <<receipt, check, journal, files, done, advanced>>
  PROVE  \A c \in Caps : Accounted(c)'
<1> SUFFICES ASSUME NEW c \in Caps PROVE Accounted(c)'
  OBVIOUS
<1>1. Accounted(c)
  BY DEF IndInv
<1> QED BY <1>1 DEF Accounted, NoneExists, Pending, OpenEvidence, OpenProgress, Applied

\* A capability that is not open and whose record is untouched.
LEMMA OtherKept ==
  ASSUME IndInv, NEW d \in Caps, ~Pending(d),
         UNCHANGED <<receipt[d], journal[d], done[d], advanced[d]>>
  PROVE  Accounted(d)'
<1>1. Accounted(d)
  BY DEF IndInv
<1> QED BY <1>1 DEF Accounted, NoneExists, Pending, Applied

-----------------------------------------------------------------------------
(* Every action keeps the rest of the invariant *)

\* A step that touches no receipt, file or evidence and leaves its handler
\* outside the lock.
LEMMA FrameRest ==
  ASSUME IndInv, NEW t \in Threads,
         UNCHANGED <<epoch, receipt, check, journal, files, done, advanced>>,
         lock' = lock \/ lock = t,
         \A u \in Threads \ {t} : job'[u] = job[u],
         job'[t].pc \notin LockedPcs,
         \A c \in Caps : cap[c].status # "none" =>
            cap'[c].status # "none" /\ cap'[c].epoch = cap[c].epoch
  PROVE  Rest'
<1>1. (OnePending /\ PendingIsCurrent /\ ReceiptsIssued)'
  BY FenceKept DEF Pending, NoneExists
<1>2. ASSUME NEW u \in Threads PROVE (Owns(u) /\ Evidence(u))'
  <2>1. CASE u = t
    BY <2>1, UnlockedStep
  <2>2. CASE u # t
    BY <2>2, SameStep
  <2> QED BY <2>1, <2>2
<1> QED BY <1>1, <1>2, AccountsKept DEF Rest

\* A step of the handler that holds the flock.
LEMMA LockedRest ==
  ASSUME IndInv, NEW t \in Threads, NEW c \in Caps, job[t].pc \in LockedPcs, c = job[t].cap,
         UNCHANGED <<epoch, cap, lock>>,
         \A u \in Threads \ {t} : job'[u] = job[u],
         (Owns(t) /\ Evidence(t))',
         Accounted(c)', ~NoneExists(c)',
         \A d \in Caps \ {c} : UNCHANGED <<receipt[d], journal[d], done[d], advanced[d]>>
  PROVE  Rest'
<1>1. /\ \A u \in Threads \ {t} : job[u].pc \notin LockedPcs
      /\ \A d \in Caps \ {c} : ~Pending(d)
      /\ Pending(c)
  BY LockedFacts
<1>2. (OnePending /\ PendingIsCurrent /\ ReceiptsIssued)'
  BY <1>1, FenceKept DEF Pending, NoneExists
<1>3. ASSUME NEW u \in Threads PROVE (Owns(u) /\ Evidence(u))'
  <2>1. CASE u # t
    BY <1>1, <2>1, UnlockedStep
  <2> QED BY <2>1
<1>4. ASSUME NEW d \in Caps PROVE Accounted(d)'
  <2>1. CASE d # c
    BY <1>1, <2>1, OtherKept
  <2> QED BY <2>1
<1> QED BY <1>2, <1>3, <1>4 DEF Rest

LEMMA UntrackedRest ==
  ASSUME IndInv, NEW next \in Stages, Untracked(next)
  PROVE  Rest'
<1>1. (OnePending /\ PendingIsCurrent /\ ReceiptsIssued)'
  <2>1. \A c \in Caps : cap[c].status # "none" =>
            cap'[c].status # "none" /\ cap'[c].epoch = cap[c].epoch
    BY DEF Untracked, TransitionOn, IndInv, TypeOK, Rows
  <2> QED BY <2>1, FenceKept DEF Untracked, AnyPending, Pending, NoneExists
<1>2. \A u \in Threads : (Owns(u) /\ Evidence(u))'
  BY SameStep DEF Untracked, history
<1> QED BY <1>1, <1>2, AccountsKept DEF Rest, Untracked, history

LEMMA ExpireRest ==
  ASSUME IndInv, NEW c \in Caps, Expire(c)
  PROVE  Rest'
<1>1. UNCHANGED <<durable, lock, job, history>>
  BY DEF Expire
<1>2. (OnePending /\ PendingIsCurrent /\ ReceiptsIssued)'
  BY <1>1, FenceKept DEF Pending, NoneExists, durable
<1>3. \A u \in Threads : (Owns(u) /\ Evidence(u))'
  BY <1>1, SameStep DEF durable, history
<1> QED BY <1>1, <1>2, <1>3, AccountsKept DEF Rest, durable, history

LEMMA QuitFacts ==
  ASSUME TypeOK, NEW t \in Threads, Quit(t)
  PROVE  job'[t].pc \notin LockedPcs /\ \A u \in Threads \ {t} : job'[u] = job[u]
BY DEF Quit, TypeOK, Idle, Job, LockedPcs

LEMMA InsertRest ==
  ASSUME IndInv, NEW t \in Threads, NEW c \in Caps, IssueInsert(t, c)
  PROVE  Rest'
<1>0. TypeOK
  BY DEF IndInv
<1>1. job'[t].pc \notin LockedPcs /\ \A u \in Threads \ {t} : job'[u] = job[u]
  BY <1>0, QuitFacts DEF IssueInsert
<1>2. \A d \in Caps : cap[d].status # "none" => cap'[d] = cap[d]
  BY <1>0 DEF IssueInsert, TypeOK
<1> QED BY <1>1, <1>2, FrameRest DEF IssueInsert, history

LEMMA SubmitRest ==
  ASSUME IndInv, NEW t \in Threads, NEW c \in Caps, NEW r \in Requests, Submit(t, c, r)
  PROVE  Rest'
<1>1. job'[t].pc \notin LockedPcs /\ \A u \in Threads \ {t} : job'[u] = job[u]
  BY DEF Submit, IndInv, TypeOK, Job, LockedPcs
<1> QED BY <1>1, FrameRest DEF Submit, durable, history

\* Steps outside the lock: issuing, refusals, retiring, dying.
LEMMA OutsideRest ==
  ASSUME IndInv, NEW t \in Threads,
         \/ IssueRead(t) \/ ReserveRefused(t) \/ ActivateRefused(t) \/ RaiseUnknown(t)
         \/ Retire(t) \/ Abort(t)
  PROVE  Rest'
<1>0. TypeOK /\ JobBound
  BY DEF IndInv
<1>1. CASE IssueRead(t)
  <2>1. job'[t].pc \notin LockedPcs /\ \A u \in Threads \ {t} : job'[u] = job[u]
    BY <1>0, <1>1 DEF IssueRead, TypeOK, Job, LockedPcs
  <2> QED BY <1>1, <2>1, FrameRest DEF IssueRead, durable, history
<1>2. CASE ReserveRefused(t) \/ ActivateRefused(t)
  <2>1. job'[t].pc \notin LockedPcs /\ \A u \in Threads \ {t} : job'[u] = job[u]
    BY <1>0, <1>2, QuitFacts DEF ReserveRefused, ActivateRefused
  <2> QED BY <1>2, <2>1, FrameRest DEF ReserveRefused, ActivateRefused, durable, history
<1>3. CASE RaiseUnknown(t) \/ Abort(t)
  <2>1. job'[t].pc \notin LockedPcs /\ \A u \in Threads \ {t} : job'[u] = job[u]
    BY <1>0, <1>3, QuitFacts DEF RaiseUnknown, Abort
  <2>2. lock' = lock \/ lock = t
    BY <1>3 DEF RaiseUnknown, Abort, Release
  <2> QED BY <1>3, <2>1, <2>2, FrameRest DEF RaiseUnknown, Abort, durable, history
<1>4. CASE Retire(t)
  <2>1. job'[t].pc \notin LockedPcs /\ \A u \in Threads \ {t} : job'[u] = job[u]
    BY <1>0, <1>4, QuitFacts DEF Retire
  <2>2. lock' = lock \/ lock = t
    BY <1>4 DEF Retire, Release
  <2>3. \A d \in Caps : cap[d].status # "none" =>
            cap'[d].status # "none" /\ cap'[d].epoch = cap[d].epoch
    BY <1>0, <1>4 DEF Retire, TypeOK, Rows
  <2> QED BY <1>4, <2>1, <2>2, <2>3, FrameRest DEF Retire, history
<1> QED BY <1>1, <1>2, <1>3, <1>4

LEMMA ReserveRest ==
  ASSUME IndInv, NEW t \in Threads, NEW c, c = job[t].cap, Reserve(t)
  PROVE  Rest'
<1>0. TypeOK
  BY DEF IndInv
<1>1. c \in Caps
  BY DEF IndInv, JobBound, Reserve, At
<1>2. NoneExists(c) /\ ~AnyPending /\ Authorized(c)
  BY DEF Reserve, MayReserve
<1>3. /\ job'[t].pc \notin LockedPcs
      /\ \A u \in Threads \ {t} : job'[u] = job[u]
  BY <1>0, GotoFacts DEF Reserve, LockedPcs
<1>4. /\ Pending(c)' /\ check'[c] = [NoCheck EXCEPT !.phase = "prepared"]
      /\ \A d \in Caps \ {c} : receipt'[d] = receipt[d]
  BY <1>0, <1>1 DEF Reserve, Pending, Reservation, TypeOK
<1>5. UNCHANGED <<epoch, cap, lock, journal, files, done, advanced>>
  BY DEF Reserve, history
<1>6. (OnePending /\ PendingIsCurrent /\ ReceiptsIssued)'
  <2>1. \A d \in Caps : Pending(d)' => d = c
    BY <1>2, <1>4 DEF AnyPending, Pending
  <2>2. cap[c].epoch = epoch /\ cap[c].status = "live"
    BY <1>2 DEF Authorized
  <2> QED BY <1>4, <1>5, <2>1, <2>2 DEF OnePending, PendingIsCurrent, ReceiptsIssued,
             NoneExists, IndInv
<1>7. \A u \in Threads : (Owns(u) /\ Evidence(u))'
  BY <1>2, <1>3, FreeFacts, UnlockedStep
<1>8. Accounted(c)'
  <2>1. /\ \A i \in Slots : done[c][i] = 0
        /\ advanced[c] = 0 /\ journal[c].kind = "none"
    BY <1>1, <1>2 DEF IndInv, Accounted
  <2>2. check'[c].phase = "prepared" /\ check'[c].accepted = 0 /\ ~check'[c].enrolled
    BY <1>4 DEF NoCheck
  <2>3. OpenEvidence(c)' /\ OpenProgress(c)'
    BY <1>5, <2>1, <2>2 DEF OpenEvidence, OpenProgress, Slots
  <2> QED BY <1>4, <1>5, <2>1, <2>3 DEF Accounted, Pending, NoneExists
<1>9. ASSUME NEW d \in Caps \ {c} PROVE Accounted(d)'
  BY <1>2, <1>4, <1>5, OtherKept DEF AnyPending
<1> QED BY <1>6, <1>7, <1>8, <1>9 DEF Rest

LEMMA ActivateRest ==
  ASSUME IndInv, NEW t \in Threads, NEW c, c = job[t].cap, Activate(t)
  PROVE  Rest'
<1>0. TypeOK
  BY DEF IndInv
<1>1. c \in Caps /\ job[t].req \in Requests
  BY DEF IndInv, JobBound, Activate, At
<1>2. Pending(c) /\ check[c].phase = "prepared" /\ lock = None
  BY DEF Activate, MayActivate
<1>3. \A u \in Threads : job[u].pc \notin LockedPcs
  BY <1>2, FreeFacts
<1>4. /\ job'[t].pc = "write" /\ job'[t].cap = c /\ job'[t].req = job[t].req
      /\ \A u \in Threads \ {t} : job'[u] = job[u]
  BY <1>0, GotoFacts DEF Activate
<1>5. UNCHANGED <<epoch, cap, receipt, files, done, advanced>> /\ lock' = t
  BY DEF Activate, history
<1>6. /\ check'[c].phase = "running" /\ check'[c].accepted = check[c].accepted
      /\ check'[c].enrolled = check[c].enrolled
      /\ journal'[c].kind = "between"
      /\ \A d \in Caps \ {c} : journal'[d] = journal[d]
  BY <1>0, <1>1 DEF Activate, TypeOK, Checkpoints, Between, NoMarker
<1>7. (OnePending /\ PendingIsCurrent /\ ReceiptsIssued)'
  BY <1>5, FenceKept DEF Pending, NoneExists
<1>8. (Owns(t) /\ Evidence(t))'
  <2>1. receipt[c].req = job[t].req
    BY DEF IndInv, Reserved, Activate, At
  <2> QED BY <1>2, <1>4, <1>5, <1>6, <2>1 DEF Owns, Evidence, At, Pending, LockedPcs
<1>9. ASSUME NEW u \in Threads \ {t} PROVE (Owns(u) /\ Evidence(u))'
  BY <1>3, <1>4, UnlockedStep
<1>10. Accounted(c)'
  <2>1. OpenEvidence(c) /\ OpenProgress(c) /\ advanced[c] = 0
    BY <1>1, <1>2 DEF IndInv, Accounted
  <2>2. (OpenEvidence(c) /\ OpenProgress(c))'
    BY <1>2, <1>5, <1>6, <2>1 DEF OpenEvidence, OpenProgress
  <2> QED BY <1>2, <1>5, <2>1, <2>2 DEF Accounted, Pending, NoneExists
<1>11. ASSUME NEW d \in Caps \ {c} PROVE Accounted(d)'
  <2>1. ~Pending(d)
    BY <1>1, <1>2 DEF IndInv, OnePending
  <2> QED BY <1>5, <1>6, <2>1, OtherKept
<1> QED BY <1>7, <1>8, <1>9, <1>10, <1>11 DEF Rest

LEMMA BeginWriteRest ==
  ASSUME IndInv, NEW t \in Threads, NEW c, c = job[t].cap, BeginWrite(t)
  PROVE  Rest'
<1>0. TypeOK
  BY DEF IndInv
<1>1. job[t].pc \in LockedPcs
  BY DEF BeginWrite, At, LockedPcs
<1>2. /\ c \in Caps /\ job[t].req \in Requests /\ lock = t /\ Pending(c)
      /\ receipt[c].req = job[t].req
      /\ OpenEvidence(c) /\ OpenProgress(c) /\ advanced[c] = 0
  BY <1>1, LockedFacts
<1>3. check[c].phase = "running" /\ journal[c].kind = "between" /\ check[c].accepted \in Nat
  <2>1. Evidence(t)
    BY DEF IndInv
  <2> QED BY <1>0, <1>2, <2>1, FieldTypes DEF Evidence, BeginWrite, At
<1>4. /\ job'[t].pc = "publish" /\ job'[t].cap = c /\ job'[t].req = job[t].req
      /\ \A u \in Threads \ {t} : job'[u] = job[u]
  BY <1>0, GotoFacts DEF BeginWrite
<1>5. UNCHANGED <<epoch, cap, lock, receipt, check, files, done, advanced>>
  BY DEF BeginWrite, history
<1>6. PICK f \in Files :
      /\ journal'[c].kind = "file" /\ journal'[c].file = f /\ journal'[c].before = files[f]
      /\ \A d \in Caps \ {c} : journal'[d] = journal[d]
  <2>1. FileOf(Kind(t)) \in Files
    BY DEF FileOf, Files
  <2> QED BY <1>0, <1>2, <2>1 DEF BeginWrite, TypeOK
<1>7. check[c].accepted + 1 \in Slots
  BY <1>2, <1>3, ConstantAssumption DEF BeginWrite, MoreWrites, Slot, Slots
<1>8. done[c][check[c].accepted + 1] = 0
  BY <1>2, <1>3, <1>7 DEF OpenProgress
<1>9. (Owns(t) /\ Evidence(t))'
  BY <1>2, <1>4, <1>5, <1>6, <1>8 DEF Owns, Evidence, At, Pending, LockedPcs, Slot
<1>10. Accounted(c)'
  <2>1. OpenEvidence(c)'
    BY <1>2, <1>3, <1>5, <1>6, <1>7 DEF OpenEvidence
  <2>2. OpenProgress(c)'
    <3>1. journal'[c].before # journal'[c].after => files'[journal'[c].file] # journal'[c].after
      BY <1>5, <1>6
    <3> QED BY <1>2, <1>3, <1>5, <1>6, <1>8, <3>1 DEF OpenProgress
  <2> QED BY <1>2, <1>5, <2>1, <2>2 DEF Accounted, Pending, NoneExists
<1> QED
  <2>1. ~NoneExists(c)'
    BY <1>2, <1>5 DEF NoneExists, Pending
  <2> QED BY <1>1, <1>2, <1>4, <1>5, <1>6, <1>9, <1>10, <2>1, LockedRest

LEMMA PublishWriteRest ==
  ASSUME IndInv, NEW t \in Threads, NEW c, c = job[t].cap, PublishWrite(t)
  PROVE  Rest'
<1>0. TypeOK
  BY DEF IndInv
<1>1. job[t].pc \in LockedPcs
  BY DEF PublishWrite, At, LockedPcs
<1>2. /\ c \in Caps /\ job[t].req \in Requests /\ lock = t /\ Pending(c)
      /\ receipt[c].req = job[t].req
      /\ OpenEvidence(c) /\ OpenProgress(c) /\ advanced[c] = 0
  BY <1>1, LockedFacts
<1> DEFINE n == check[c].accepted + 1
<1>3. /\ journal[c].kind = "file" /\ done[c][n] = 0 /\ check[c].accepted \in Nat
      /\ files[journal[c].file] = journal[c].before /\ journal[c].file \in Files
  <2>1. Evidence(t)
    BY DEF IndInv
  <2> QED BY <1>0, <1>2, <2>1, FieldTypes DEF Evidence, PublishWrite, At, Slot
<1>4. /\ job'[t].pc = "accept" /\ job'[t].cap = c /\ job'[t].req = job[t].req
      /\ \A u \in Threads \ {t} : job'[u] = job[u]
  BY <1>0, GotoFacts DEF PublishWrite
<1>5. UNCHANGED <<epoch, cap, lock, receipt, check, journal, advanced>>
  BY DEF PublishWrite
<1>6. n \in Slots /\ n \in Nat
  BY <1>2, <1>3 DEF OpenEvidence
<1>7. /\ files'[journal[c].file] = journal[c].after
      /\ \A i \in Slots : done'[c][i] = IF i = n THEN 1 ELSE done[c][i]
      /\ \A d \in Caps \ {c} : done'[d] = done[d]
  <2>1. files \in [Files -> Nat] /\ done \in [Caps -> [Slots -> Nat]]
    BY <1>0 DEF TypeOK
  <2>2. /\ files' = [files EXCEPT ![journal[c].file] = journal[c].after]
        /\ done' = [done EXCEPT ![c][n] = @ + 1]
    BY DEF PublishWrite, CountEffect, Slot
  <2> HIDE DEF n
  <2> QED BY <1>2, <1>3, <1>6, <2>1, <2>2
<1>8. (Owns(t) /\ Evidence(t))'
  BY <1>2, <1>3, <1>4, <1>5, <1>6, <1>7 DEF Owns, Evidence, At, Pending, LockedPcs, Slot
<1>9. Accounted(c)'
  <2>1. OpenEvidence(c)'
    BY <1>2, <1>3, <1>5, <1>7 DEF OpenEvidence
  <2>2. OpenProgress(c)'
    BY <1>2, <1>3, <1>5, <1>6, <1>7 DEF OpenProgress
  <2> QED BY <1>2, <1>5, <2>1, <2>2 DEF Accounted, Pending, NoneExists
<1> QED
  <2>1. ~NoneExists(c)'
    BY <1>2, <1>5 DEF NoneExists, Pending
  <2> QED BY <1>1, <1>2, <1>4, <1>5, <1>7, <1>8, <1>9, <2>1, LockedRest

\* Both ways an acceptance is recorded: after a published file and with a row.
LEMMA AcceptRest ==
  ASSUME IndInv, NEW t \in Threads, NEW c, c = job[t].cap, AcceptWrite(t) \/ DatabaseWrite(t)
  PROVE  Rest'
<1>0. TypeOK
  BY DEF IndInv
<1>1. job[t].pc \in LockedPcs
  BY DEF AcceptWrite, DatabaseWrite, At, LockedPcs
<1>2. /\ c \in Caps /\ job[t].req \in Requests /\ lock = t /\ Pending(c)
      /\ receipt[c].req = job[t].req
      /\ OpenEvidence(c) /\ OpenProgress(c) /\ advanced[c] = 0
  BY <1>1, LockedFacts
<1> DEFINE n == check[c].accepted + 1
<1>3. check[c].accepted \in Nat /\ n \in Nat
  <2>1. check[c].accepted \in Nat
    BY <1>0, <1>2, FieldTypes
  <2> QED BY <2>1
<1>4. check[c].phase = "running"
  <2>1. Evidence(t)
    BY DEF IndInv
  <2> QED BY <1>2, <2>1 DEF Evidence, OpenEvidence, AcceptWrite, DatabaseWrite, At
<1>5. /\ job'[t].pc = "write" /\ job'[t].cap = c /\ job'[t].req = job[t].req
      /\ \A u \in Threads \ {t} : job'[u] = job[u]
  <2>1. CASE AcceptWrite(t)
    BY <1>0, <2>1, GotoFacts DEF AcceptWrite
  <2>2. CASE DatabaseWrite(t)
    BY <2>2 DEF DatabaseWrite, At
  <2> QED BY <2>1, <2>2
<1>6. UNCHANGED <<epoch, cap, lock, receipt, files, advanced>>
  BY DEF AcceptWrite, DatabaseWrite, history
<1>7. /\ check'[c].accepted = n /\ check'[c].phase = check[c].phase
      /\ check'[c].enrolled = check[c].enrolled
      /\ journal'[c].kind = "between"
      /\ \A d \in Caps \ {c} : journal'[d] = journal[d]
  <2>1. check' = [check EXCEPT ![c].accepted = @ + 1]
    BY DEF AcceptWrite, DatabaseWrite
  <2>2. /\ journal'[c].kind = "between"
        /\ \A d \in Caps \ {c} : journal'[d] = journal[d]
    <3>1. CASE AcceptWrite(t)
      BY <1>0, <1>2, <3>1 DEF AcceptWrite, TypeOK, Between, NoMarker
    <3>2. CASE DatabaseWrite(t)
      <4>1. Evidence(t)
        BY DEF IndInv
      <4> QED BY <3>2, <4>1 DEF Evidence, DatabaseWrite, At
    <3> QED BY <3>1, <3>2
  <2> QED BY <1>0, <1>2, <2>1, <2>2 DEF TypeOK, Checkpoints
<1>8. /\ \A i \in Slots : done'[c][i] = IF i <= n THEN 1 ELSE 0
      /\ \A d \in Caps \ {c} : done'[d] = done[d]
  <2>0. done \in [Caps -> [Slots -> Nat]]
    BY <1>0 DEF TypeOK
  <2>1. CASE AcceptWrite(t)
    <3>1. Evidence(t)
      BY DEF IndInv
    <3>2. done[c][n] = 1
      BY <2>1, <3>1 DEF Evidence, AcceptWrite, At, Slot
    <3>3. done' = done
      BY <2>1 DEF AcceptWrite, history
    <3> QED BY <1>2, <1>3, <3>2, <3>3 DEF OpenProgress, Slots
  <2>2. CASE DatabaseWrite(t)
    <3>1. Evidence(t)
      BY DEF IndInv
    <3>2. journal[c].kind = "between"
      BY <2>2, <3>1 DEF Evidence, DatabaseWrite, At
    <3>3. n \in Slots
      BY <1>2, <1>3, <2>2, ConstantAssumption DEF DatabaseWrite, MoreWrites, Slot, Slots
    <3>4. done[c][n] = 0
      BY <1>2, <3>2, <3>3 DEF OpenProgress
    <3>5. done' = [done EXCEPT ![c][n] = @ + 1]
      BY <2>2 DEF DatabaseWrite, CountEffect, Slot
    <3>6. \A i \in Slots : done'[c][i] = IF i = n THEN 1 ELSE done[c][i]
      <4> HIDE DEF n
      <4> QED BY <1>2, <2>0, <3>3, <3>4, <3>5
    <3>7. \A d \in Caps \ {c} : done'[d] = done[d]
      BY <2>0, <3>5
    <3> QED BY <1>2, <1>3, <3>3, <3>6, <3>7 DEF OpenProgress, Slots
  <2> QED BY <2>1, <2>2
<1>9. (Owns(t) /\ Evidence(t))'
  BY <1>2, <1>4, <1>5, <1>6, <1>7 DEF Owns, Evidence, At, Pending, LockedPcs
<1>10. Accounted(c)'
  <2>1. OpenEvidence(c)'
    BY <1>2, <1>4, <1>6, <1>7 DEF OpenEvidence
  <2>2. OpenProgress(c)'
    <3> HIDE DEF n
    <3> QED BY <1>3, <1>7, <1>8 DEF OpenProgress, Slots
  <2> QED BY <1>2, <1>6, <2>1, <2>2 DEF Accounted, Pending, NoneExists
<1> QED
  <2>1. ~NoneExists(c)'
    BY <1>2, <1>6 DEF NoneExists, Pending
  <2> QED BY <1>1, <1>2, <1>5, <1>6, <1>7, <1>8, <1>9, <1>10, <2>1, LockedRest

\* A settled receipt acknowledges exactly the writes that are in place.
LEMMA SettleAccounts ==
  ASSUME IndInv, NEW c \in Caps, Pending(c), NEW d \in {"applied", "corrected"},
         NEW n \in Nat, NEW b \in BOOLEAN, Settle(c, d, n, b), done' = done,
         \A i \in Slots : done[c][i] = IF i <= n THEN 1 ELSE 0,
         advanced'[c] = IF d = "applied" /\ b THEN 1 ELSE 0
  PROVE  /\ Accounted(c)' /\ ~Pending(c)' /\ ~NoneExists(c)'
         /\ \A e \in Caps \ {c} : receipt'[e] = receipt[e]
<1>1. /\ receipt'[c].status = "completed" /\ receipt'[c].disposition = d
      /\ receipt'[c].writes = n /\ receipt'[c].complete = b
      /\ \A e \in Caps \ {c} : receipt'[e] = receipt[e]
  BY DEF Settle, IndInv, TypeOK
<1> QED BY <1>1 DEF Accounted, Pending, NoneExists, Applied

\* Between effects, the accepted writes are the ones in place.
LEMMA BetweenEffects ==
  ASSUME TypeOK, NEW c \in Caps, OpenProgress(c), journal[c].kind # "file"
  PROVE  /\ check[c].accepted \in Nat
         /\ \A i \in Slots : done[c][i] = IF i <= check[c].accepted THEN 1 ELSE 0
<1>1. check[c].accepted \in Nat
  BY FieldTypes
<1> QED BY <1>1 DEF OpenProgress, Slots

LEMMA CorrectRest ==
  ASSUME IndInv, NEW t \in Threads, NEW c, c = job[t].cap, job[t].pc \in LockedPcs, Correct(t)
  PROVE  Rest'
<1>0. TypeOK
  BY DEF IndInv
<1>1. /\ c \in Caps /\ Pending(c) /\ OpenProgress(c) /\ advanced[c] = 0
  BY LockedFacts
<1>2. /\ job'[t].pc \notin LockedPcs
      /\ \A u \in Threads \ {t} : job'[u] = job[u]
  BY <1>0, GotoFacts DEF Correct, LockedPcs
<1>3. UNCHANGED <<epoch, cap, lock, journal, done, advanced>>
  BY DEF Correct, history
<1>4. /\ Accounted(c)' /\ ~NoneExists(c)'
      /\ \A e \in Caps \ {c} : receipt'[e] = receipt[e]
  <2>1. journal[c].kind # "file"
    BY DEF Correct
  <2>2. /\ check[c].accepted \in Nat
        /\ \A i \in Slots : done[c][i] = IF i <= check[c].accepted THEN 1 ELSE 0
    BY <1>0, <1>1, <2>1, BetweenEffects
  <2>3. Settle(c, "corrected", check[c].accepted, FALSE)
    BY DEF Correct
  <2> QED BY <1>1, <1>3, <2>2, <2>3, SettleAccounts
<1>5. (Owns(t) /\ Evidence(t))'
  BY <1>2, UnlockedStep
<1> QED BY <1>1, <1>2, <1>3, <1>4, <1>5, LockedRest

\* Steps of the commit action that change only the handler's evidence.
LEMMA CommitStepsRest ==
  ASSUME IndInv, NEW t \in Threads, NEW c, c = job[t].cap, NEW out,
         \/ ArmCommit(t) \/ Prepare(t, out) \/ EnrollAtomic(t) \/ EnrollRestartable(t)
         \/ PublishSidecar(t)
  PROVE  Rest'
<1>0. TypeOK
  BY DEF IndInv
<1>1. job[t].pc \in LockedPcs
  BY DEF ArmCommit, Prepare, EnrollAtomic, EnrollRestartable, PublishSidecar, At, LockedPcs
<1>2. /\ c \in Caps /\ lock = t /\ Pending(c) /\ receipt[c].req = job[t].req
      /\ OpenEvidence(c) /\ OpenProgress(c) /\ advanced[c] = 0
  BY <1>1, LockedFacts
<1>3. UNCHANGED <<epoch, cap, lock, receipt, files, done, advanced>>
  BY DEF ArmCommit, Prepare, EnrollAtomic, EnrollRestartable, PublishSidecar, durable, history
<1>4. /\ job'[t].cap = c /\ job'[t].req = job[t].req
      /\ \A u \in Threads \ {t} : job'[u] = job[u]
  <2>1. CASE Prepare(t, out)
    BY <1>0, <2>1 DEF Prepare, TypeOK, Jobs
  <2>2. CASE ~Prepare(t, out)
    BY <1>0, <2>2, GotoFacts DEF ArmCommit, EnrollAtomic, EnrollRestartable, PublishSidecar
  <2> QED BY <2>1, <2>2
<1>5. /\ check'[c].accepted = check[c].accepted
      /\ \A d \in Caps \ {c} : journal'[d] = journal[d]
      /\ check[c].accepted \in Nat
  <2>1. check \in [Caps -> Checkpoints] /\ journal \in [Caps -> Markers]
    BY <1>0 DEF TypeOK
  <2>2. \/ check' = check
        \/ check' = [check EXCEPT ![c].phase = "commit_ready"]
        \/ check' = [check EXCEPT ![c].enrolled = TRUE]
    BY DEF ArmCommit, Prepare, EnrollAtomic, EnrollRestartable, PublishSidecar, durable
  <2>3. \/ journal' = journal
        \/ journal' = [journal EXCEPT ![c] = [NoMarker EXCEPT !.kind = "restartable"]]
    BY DEF ArmCommit, Prepare, EnrollAtomic, EnrollRestartable, PublishSidecar, durable
  <2> QED BY <1>2, <2>1, <2>2, <2>3 DEF Checkpoints
<1>6. /\ (Owns(t) /\ Evidence(t))'
      /\ OpenEvidence(c)'
      /\ journal[c].kind # "file" /\ journal'[c].kind # "file"
  <2>0. Evidence(t)
    BY DEF IndInv
  <2>1. CASE ArmCommit(t)
    <3>1. check[c].phase = "running" /\ journal[c].kind = "between"
      BY <2>0, <2>1 DEF Evidence, ArmCommit, At
    <3>2. /\ job'[t].pc = "prepare" /\ journal' = journal
          /\ check'[c].phase = "commit_ready" /\ check'[c].enrolled = check[c].enrolled
      BY <1>0, <1>2, <2>1, GotoFacts DEF ArmCommit, TypeOK, Checkpoints
    <3> QED BY <1>2, <1>3, <1>4, <3>1, <3>2
            DEF Owns, Evidence, At, OpenEvidence, Pending, LockedPcs
  <2>2. CASE Prepare(t, out)
    <3>1. job'[t].pc = "enroll" /\ check' = check /\ journal' = journal
      BY <1>0, <2>2 DEF Prepare, TypeOK, Jobs, durable
    <3>2. check[c].phase = "commit_ready" /\ journal[c].kind = "between" /\ ~check[c].enrolled
      BY <2>0, <2>2 DEF Evidence, Prepare, At
    <3> QED BY <1>2, <1>3, <1>4, <3>1, <3>2
            DEF Owns, Evidence, At, OpenEvidence, Pending, LockedPcs
  <2>3. CASE EnrollAtomic(t)
    <3>1. check[c].phase = "commit_ready" /\ journal[c].kind = "between"
      BY <2>0, <2>3 DEF Evidence, EnrollAtomic, At
    <3>2. /\ job'[t].pc = "commit" /\ journal' = journal
          /\ check'[c].phase = check[c].phase
      BY <1>0, <1>2, <2>3, GotoFacts DEF EnrollAtomic, TypeOK, Checkpoints
    <3> QED BY <1>2, <1>3, <1>4, <3>1, <3>2
            DEF Owns, Evidence, At, OpenEvidence, Pending, LockedPcs
  <2>4. CASE EnrollRestartable(t)
    <3>1. check[c].phase = "commit_ready" /\ journal[c].kind = "between" /\ ~check[c].enrolled
      BY <2>0, <2>4 DEF Evidence, EnrollRestartable, At
    <3>2. /\ job'[t].pc = "sidecar" /\ check' = check
          /\ journal'[c].kind = "restartable"
      BY <1>0, <1>2, <2>4, GotoFacts DEF EnrollRestartable, TypeOK, Markers, NoMarker
    <3> QED BY <1>2, <1>3, <1>4, <3>1, <3>2
            DEF Owns, Evidence, At, OpenEvidence, Pending, LockedPcs
  <2>5. CASE PublishSidecar(t)
    <3>1. check[c].phase = "commit_ready"
      BY <2>0, <2>5 DEF Evidence, PublishSidecar, At
    <3>2. job'[t].pc = "product" /\ check' = check /\ journal' = journal
      BY <1>0, <2>5, GotoFacts DEF PublishSidecar
    <3> QED BY <1>2, <1>3, <1>4, <3>1, <3>2
            DEF Owns, Evidence, At, OpenEvidence, Pending, LockedPcs
  <2> QED BY <2>1, <2>2, <2>3, <2>4, <2>5
<1>7. Accounted(c)'
  <2>1. OpenProgress(c)'
    BY <1>2, <1>3, <1>5, <1>6 DEF OpenProgress
  <2> QED BY <1>2, <1>3, <1>6, <2>1 DEF Accounted, Pending, NoneExists
<1> QED
  <2>1. ~NoneExists(c)'
    BY <1>2, <1>3 DEF NoneExists, Pending
  <2> QED BY <1>1, <1>2, <1>3, <1>4, <1>5, <1>6, <1>7, <2>1, LockedRest

LEMMA PublishProductRest ==
  ASSUME IndInv, NEW t \in Threads, NEW c, c = job[t].cap, PublishProduct(t)
  PROVE  Rest'
<1>0. TypeOK
  BY DEF IndInv
<1>1. job[t].pc \in LockedPcs
  BY DEF PublishProduct, At, LockedPcs
<1>2. /\ c \in Caps /\ lock = t /\ Pending(c) /\ receipt[c].req = job[t].req
      /\ OpenEvidence(c) /\ OpenProgress(c) /\ advanced[c] = 0
  BY <1>1, LockedFacts
<1>3. UNCHANGED <<epoch, cap, lock, receipt, check, journal, done, advanced>>
  BY DEF PublishProduct
<1>4. /\ job'[t].pc = "commit" /\ job'[t].cap = c /\ job'[t].req = job[t].req
      /\ \A u \in Threads \ {t} : job'[u] = job[u]
  BY <1>0, GotoFacts DEF PublishProduct
<1>5. check[c].phase = "commit_ready" /\ journal[c].kind # "file"
  <2>1. Evidence(t)
    BY DEF IndInv
  <2> QED BY <1>2, <2>1 DEF Evidence, PublishProduct, At, OpenEvidence
<1>6. (Owns(t) /\ Evidence(t))'
  BY <1>2, <1>3, <1>4, <1>5 DEF Owns, Evidence, At, Pending, LockedPcs
<1>7. Accounted(c)'
  <2>1. OpenEvidence(c)' /\ OpenProgress(c)'
    BY <1>2, <1>3, <1>5 DEF OpenEvidence, OpenProgress
  <2> QED BY <1>2, <1>3, <2>1 DEF Accounted, Pending, NoneExists
<1> QED
  <2>1. ~NoneExists(c)'
    BY <1>2, <1>3 DEF NoneExists, Pending
  <2> QED BY <1>1, <1>2, <1>3, <1>4, <1>6, <1>7, <2>1, LockedRest

\* The transaction that settles an action with its effects.
LEMMA CommitRest ==
  ASSUME IndInv, NEW t \in Threads, NEW c, c = job[t].cap, NEW next \in Stages,
         CommitTransition(t, next) \/ CommitPartial(t)
  PROVE  Rest'
<1>0. TypeOK
  BY DEF IndInv
<1>1. job[t].pc \in LockedPcs
  BY DEF CommitTransition, CommitPartial, At, LockedPcs
<1>2. /\ c \in Caps /\ Pending(c) /\ OpenEvidence(c) /\ OpenProgress(c) /\ advanced[c] = 0
      /\ \A u \in Threads \ {t} : job[u].pc \notin LockedPcs
      /\ \A d \in Caps \ {c} : ~Pending(d)
  BY <1>1, LockedFacts
<1>3. /\ job'[t].pc \notin LockedPcs
      /\ \A u \in Threads \ {t} : job'[u] = job[u]
  <2>1. Goto(t, "retire")
    BY DEF CommitTransition, CommitPartial
  <2> QED BY <1>0, <2>1, GotoFacts DEF LockedPcs
<1>4. journal[c].kind # "file"
  <2>1. Evidence(t)
    BY DEF IndInv
  <2> QED BY <1>2, <2>1 DEF Evidence, CommitTransition, CommitPartial, At, OpenEvidence
<1>5. /\ check[c].accepted \in Nat
      /\ \A i \in Slots : done[c][i] = IF i <= check[c].accepted THEN 1 ELSE 0
  BY <1>0, <1>2, <1>4, BetweenEffects
<1>6. /\ done' = done
      /\ \A d \in Caps \ {c} : journal'[d] = journal[d] /\ advanced'[d] = advanced[d]
  BY <1>0 DEF CommitTransition, CommitPartial, history, TypeOK
<1>7. /\ Accounted(c)' /\ ~Pending(c)' /\ ~NoneExists(c)'
      /\ \A e \in Caps \ {c} : receipt'[e] = receipt[e]
  <2>1. CASE CommitTransition(t, next)
    <3>1. advanced'[c] = 1
      BY <1>0, <1>2, <2>1 DEF CommitTransition, TypeOK
    <3>2. Settle(c, "applied", check[c].accepted, TRUE)
      BY <2>1 DEF CommitTransition
    <3> QED BY <1>2, <1>5, <1>6, <3>1, <3>2, SettleAccounts
  <2>2. CASE CommitPartial(t)
    <3>1. advanced'[c] = 0
      BY <1>2, <2>2 DEF CommitPartial, history
    <3>2. Settle(c, "applied", check[c].accepted, FALSE)
      BY <2>2 DEF CommitPartial
    <3> QED BY <1>2, <1>5, <1>6, <3>1, <3>2, SettleAccounts
  <2> QED BY <2>1, <2>2
<1>8. (OnePending /\ PendingIsCurrent /\ ReceiptsIssued)'
  <2>1. \A d \in Caps : cap[d].status # "none" =>
            cap'[d].status # "none" /\ cap'[d].epoch = cap[d].epoch
    <3>1. cap \in [Caps -> Rows]
      BY <1>0 DEF TypeOK
    <3>2. cap' = cap \/ TransitionOn(next)
      BY DEF CommitTransition, CommitPartial
    <3> QED BY <3>1, <3>2 DEF TransitionOn, Rows
  <2>2. \A d \in Caps : ~Pending(d)'
    BY <1>2, <1>7 DEF Pending
  <2>3. \A d \in Caps : NoneExists(d) => NoneExists(d)'
    BY <1>2, <1>7 DEF Pending, NoneExists
  <2> QED BY <2>1, <2>2, <2>3, FenceKept
<1>9. \A u \in Threads : (Owns(u) /\ Evidence(u))'
  BY <1>2, <1>3, UnlockedStep
<1>10. ASSUME NEW d \in Caps \ {c} PROVE Accounted(d)'
  BY <1>2, <1>6, <1>7, OtherKept
<1> QED BY <1>7, <1>8, <1>9, <1>10 DEF Rest

LEMMA RecoverRest ==
  ASSUME IndInv, NEW t \in Threads, NEW c \in Caps, Recover(t, c)
  PROVE  Rest'
<1>0. TypeOK
  BY DEF IndInv
<1>1. /\ Pending(c) /\ Reconcilable(c) /\ lock = None
      /\ UNCHANGED <<epoch, cap, lock, journal, done, advanced>>
  BY DEF Recover, history
<1>2. \A u \in Threads : job[u].pc \notin LockedPcs
  BY <1>1, FreeFacts
<1>3. \A u \in Threads : job'[u].pc \notin LockedPcs
  BY <1>0, <1>2 DEF Recover, TypeOK, Job, LockedPcs
<1>4. OpenEvidence(c) /\ OpenProgress(c) /\ advanced[c] = 0
  BY <1>1 DEF IndInv, Accounted
<1>5. /\ Retained(c) \in Nat
      /\ \A i \in Slots : done[c][i] = IF i <= Retained(c) THEN 1 ELSE 0
  <2>1. check[c].accepted \in Nat
    BY <1>0, FieldTypes
  <2>2. CASE journal[c].kind # "file"
    BY <1>0, <1>4, <2>1, <2>2, BetweenEffects DEF Retained
  <2>3. CASE journal[c].kind = "file"
    <3>1. check[c].phase = "running" /\ FileDecides(journal[c])
      BY <1>1, <1>4, <2>3 DEF Reconcilable, OpenEvidence
    <3> QED BY <1>4, <2>1, <2>3, <3>1 DEF Retained, FileDecides, OpenProgress, Slots
  <2> QED BY <2>2, <2>3
<1>6. /\ Accounted(c)' /\ ~Pending(c)' /\ ~NoneExists(c)'
      /\ \A e \in Caps \ {c} : receipt'[e] = receipt[e]
  <2>1. Settle(c, "corrected", Retained(c), FALSE)
    BY DEF Recover
  <2> QED BY <1>1, <1>4, <1>5, <2>1, SettleAccounts
<1>7. (OnePending /\ PendingIsCurrent /\ ReceiptsIssued)'
  BY <1>1, <1>6, FenceKept DEF Pending, NoneExists
<1>8. ASSUME NEW d \in Caps \ {c} PROVE Accounted(d)'
  <2>1. ~Pending(d)
    BY <1>1 DEF IndInv, OnePending
  <2> QED BY <1>1, <1>6, <2>1, OtherKept
<1> QED BY <1>3, <1>6, <1>7, <1>8, UnlockedStep DEF Rest

LEMMA RestKept == IndInv /\ [Next]_vars => Rest'
<1> SUFFICES ASSUME IndInv, [Next]_vars PROVE Rest'
  OBVIOUS
<1>0. "closed" \in Stages
  BY DEF Stages
<1>1. CASE UNCHANGED vars
  <2>1. (OnePending /\ PendingIsCurrent /\ ReceiptsIssued)'
    BY <1>1, FenceKept DEF vars, durable, Pending, NoneExists
  <2>2. \A u \in Threads : (Owns(u) /\ Evidence(u))'
    BY <1>1, SameStep DEF vars, durable, history
  <2> QED BY <1>1, <2>1, <2>2, AccountsKept DEF Rest, vars, durable, history
<1>2. ASSUME NEW next \in Stages, Untracked(next) PROVE Rest'
  BY <1>2, UntrackedRest
<1>3. ASSUME NEW t \in Threads, RejectWrite(t) \/ RejectPrepare(t) \/ RejectEnroll(t)
                                \/ RejectCommit(t)
      PROVE  Rest'
  BY <1>3, CorrectRest DEF RejectWrite, RejectPrepare, RejectEnroll, RejectCommit, At, LockedPcs
<1>4. ASSUME NEW t \in Threads, Work(t) PROVE Rest'
  <2>1. CASE Reserve(t) \/ Activate(t)
    BY <2>1, ReserveRest, ActivateRest
  <2>2. CASE ReserveRefused(t) \/ ActivateRefused(t) \/ RaiseUnknown(t) \/ Retire(t)
    BY <2>2, OutsideRest
  <2>3. CASE BeginWrite(t) \/ PublishWrite(t) \/ AcceptWrite(t) \/ DatabaseWrite(t)
    BY <2>3, BeginWriteRest, PublishWriteRest, AcceptRest
  <2>4. CASE RejectWrite(t) \/ RejectPrepare(t) \/ RejectEnroll(t) \/ RejectCommit(t)
    BY <1>3, <2>4
  <2>5. CASE \/ ArmCommit(t) \/ EnrollAtomic(t) \/ EnrollRestartable(t) \/ PublishSidecar(t)
             \/ \E out \in {"move", "partial"} : Prepare(t, out)
    BY <2>5, CommitStepsRest
  <2>6. CASE PublishProduct(t)
    BY <2>6, PublishProductRest
  <2>7. CASE CommitPartial(t) \/ \E next \in Stages : CommitTransition(t, next)
    BY <1>0, <2>7, CommitRest
  <2> QED BY <1>4, <2>1, <2>2, <2>3, <2>4, <2>5, <2>6, <2>7 DEF Work
<1>5. ASSUME NEW t \in Threads,
             \/ IssueRead(t) \/ \E c \in Caps : IssueInsert(t, c)
             \/ \E c \in Caps, r \in Requests : Submit(t, c, r)
             \/ Abort(t)
      PROVE  Rest'
  <2>1. CASE IssueRead(t) \/ Abort(t)
    BY <2>1, OutsideRest
  <2>2. ASSUME NEW c \in Caps, IssueInsert(t, c) PROVE Rest'
    BY <2>2, InsertRest
  <2>3. ASSUME NEW c \in Caps, NEW r \in Requests, Submit(t, c, r) PROVE Rest'
    BY <2>3, SubmitRest
  <2> QED BY <1>5, <2>1, <2>2, <2>3
<1>6. ASSUME NEW t \in Threads, NEW c \in Caps, Recover(t, c) PROVE Rest'
  BY <1>6, RecoverRest
<1> QED BY <1>0, <1>1, <1>2, <1>4, <1>5, <1>6, ExpireRest DEF Next, Mechanical, Cancel

-----------------------------------------------------------------------------
(* What a step may do to a record *)

\* A receipt is created once, settled once while its handler or a recovery has
\* it open, and otherwise never touched; neither are the effects of a
\* capability whose receipt is not open.
RecordStep(c) ==
  \/ UNCHANGED <<receipt[c], done[c], advanced[c]>>
  \/ NoneExists(c) /\ receipt'[c].status = "pending" /\ UNCHANGED <<done[c], advanced[c]>>
  \/ Pending(c) /\ ~NoneExists(c)' /\ receipt'[c].req = receipt[c].req

LEMMA SettleRecord ==
  ASSUME TypeOK, NEW b \in Caps, Pending(b), NEW d, NEW n, NEW k, Settle(b, d, n, k),
         UNCHANGED done, \A c \in Caps \ {b} : advanced'[c] = advanced[c]
  PROVE  \A c \in Caps : RecordStep(c)
BY DEF TypeOK, Settle, RecordStep, NoneExists

LEMMA LockedRecord ==
  ASSUME IndInv, NEW t \in Threads, NEW b, b = job[t].cap,
         \/ PublishWrite(t) \/ DatabaseWrite(t)
         \/ job[t].pc \in LockedPcs /\ Correct(t)
         \/ CommitPartial(t) \/ \E next \in Stages : CommitTransition(t, next)
  PROVE  \A c \in Caps : RecordStep(c)
<1>1. TypeOK /\ job[t].pc \in LockedPcs
  BY DEF IndInv, PublishWrite, DatabaseWrite, CommitPartial, CommitTransition, At, LockedPcs
<1>2. b \in Caps /\ Pending(b)
  BY <1>1, LockedFacts
<1>3. CASE PublishWrite(t) \/ DatabaseWrite(t)
  <2>1. UNCHANGED <<receipt, advanced>> /\ CountEffect(t)
    BY <1>3 DEF PublishWrite, DatabaseWrite
  <2>2. \A c \in Caps \ {b} : done'[c] = done[c]
    BY <1>1, <2>1 DEF CountEffect, TypeOK
  <2> QED BY <1>2, <2>1, <2>2 DEF RecordStep, Pending, NoneExists
<1>4. CASE job[t].pc \in LockedPcs /\ Correct(t)
  <2>1. Settle(b, "corrected", check[b].accepted, FALSE) /\ UNCHANGED <<done, advanced>>
    BY <1>4 DEF Correct, history
  <2> QED BY <1>1, <1>2, <2>1, SettleRecord
<1>5. CASE CommitPartial(t)
  <2>1. Settle(b, "applied", check[b].accepted, FALSE) /\ UNCHANGED <<done, advanced>>
    BY <1>5 DEF CommitPartial, history
  <2> QED BY <1>1, <1>2, <2>1, SettleRecord
<1>6. ASSUME NEW next \in Stages, CommitTransition(t, next) PROVE \A c \in Caps : RecordStep(c)
  <2>1. /\ Settle(b, "applied", check[b].accepted, TRUE) /\ UNCHANGED done
        /\ advanced' = [advanced EXCEPT ![b] = @ + 1]
    BY <1>6 DEF CommitTransition
  <2>2. \A c \in Caps \ {b} : advanced'[c] = advanced[c]
    BY <1>1, <2>1 DEF TypeOK
  <2> QED BY <1>1, <1>2, <2>1, <2>2, SettleRecord
<1> QED BY <1>3, <1>4, <1>5, <1>6

LEMMA RecordKept == IndInv /\ [Next]_vars => \A c \in Caps : RecordStep(c)
<1> SUFFICES ASSUME IndInv, [Next]_vars PROVE \A c \in Caps : RecordStep(c)
  OBVIOUS
<1>1. CASE UNCHANGED <<receipt, done, advanced>>
  BY <1>1 DEF RecordStep
<1>2. ASSUME NEW t \in Threads, Reserve(t) PROVE \A c \in Caps : RecordStep(c)
  <2>1. UNCHANGED <<done, advanced>> /\ NoneExists(job[t].cap)
        /\ receipt' = [receipt EXCEPT ![job[t].cap] = Reservation(job[t].req)]
    BY <1>2 DEF Reserve, MayReserve, history
  <2> QED BY <2>1 DEF RecordStep, IndInv, TypeOK, Reservation
<1>3. ASSUME NEW t \in Threads,
             \/ PublishWrite(t) \/ DatabaseWrite(t)
             \/ RejectWrite(t) \/ RejectPrepare(t) \/ RejectEnroll(t) \/ RejectCommit(t)
             \/ CommitPartial(t) \/ \E next \in Stages : CommitTransition(t, next)
      PROVE  \A c \in Caps : RecordStep(c)
  BY <1>3, LockedRecord DEF RejectWrite, RejectPrepare, RejectEnroll, RejectCommit, At, LockedPcs
<1>4. ASSUME NEW t \in Threads, NEW b \in Caps, Recover(t, b)
      PROVE  \A c \in Caps : RecordStep(c)
  <2>1. Settle(b, "corrected", Retained(b), FALSE) /\ UNCHANGED <<done, advanced>> /\ Pending(b)
    BY <1>4 DEF Recover, history
  <2> QED BY <2>1, SettleRecord DEF IndInv
<1>5. ASSUME NEW t \in Threads, Work(t) PROVE \A c \in Caps : RecordStep(c)
  <2>1. CASE \/ ReserveRefused(t) \/ Activate(t) \/ ActivateRefused(t)
             \/ BeginWrite(t) \/ AcceptWrite(t) \/ ArmCommit(t)
             \/ \E out \in {"move", "partial"} : Prepare(t, out)
             \/ EnrollAtomic(t) \/ EnrollRestartable(t)
             \/ PublishSidecar(t) \/ PublishProduct(t) \/ RaiseUnknown(t) \/ Retire(t)
    <3>1. UNCHANGED <<receipt, done, advanced>>
      BY <2>1 DEF ReserveRefused, Activate, ActivateRefused, BeginWrite, AcceptWrite, ArmCommit,
              Prepare, EnrollAtomic, EnrollRestartable, PublishSidecar, PublishProduct,
              RaiseUnknown, Retire, durable, history
    <3> QED BY <1>1, <3>1
  <2> QED BY <1>2, <1>3, <1>5, <2>1 DEF Work
<1>6. CASE Mechanical \/ Cancel \/ (\E c \in Caps : Expire(c)) \/ UNCHANGED vars
  <2>1. UNCHANGED <<receipt, done, advanced>>
    BY <1>6 DEF Mechanical, Cancel, Untracked, Expire, vars, durable, history
  <2> QED BY <1>1, <2>1
<1>7. ASSUME NEW t \in Threads,
             \/ IssueRead(t) \/ \E c \in Caps : IssueInsert(t, c)
             \/ \E c \in Caps, r \in Requests : Submit(t, c, r)
             \/ Abort(t)
      PROVE  \A c \in Caps : RecordStep(c)
  <2>1. UNCHANGED <<receipt, done, advanced>>
    BY <1>7 DEF IssueRead, IssueInsert, Submit, Abort, durable, history
  <2> QED BY <1>1, <2>1
<1> QED BY <1>4, <1>5, <1>6, <1>7 DEF Next

\* A handler only gets to wait for the flock by reserving.
LEMMA ActivateKept ==
  ASSUME IndInv, [Next]_vars, NEW t \in Threads, job'[t].pc = "activate"
  PROVE  job'[t] = job[t] \/ Reserve(t)
<1>0. TypeOK
  BY DEF IndInv
<1>1. ASSUME NEW u \in Threads, NEW pc, Goto(u, pc), pc # "activate" PROVE job'[t] = job[t]
  BY <1>0, <1>1, GotoFacts
<1>2. ASSUME NEW u \in Threads, Quit(u) PROVE job'[t] = job[t]
  BY <1>0, <1>2 DEF Quit, Idle, Job, TypeOK
<1>3. ASSUME NEW u \in Threads, Work(u) PROVE job'[t] = job[t] \/ Reserve(t)
  <2>1. CASE Reserve(u)
    BY <1>0, <2>1, GotoFacts DEF Reserve
  <2>2. CASE \/ ReserveRefused(u) \/ ActivateRefused(u) \/ RaiseUnknown(u) \/ Retire(u)
    BY <1>2, <2>2 DEF ReserveRefused, ActivateRefused, RaiseUnknown, Retire
  <2>3. CASE \E out \in {"move", "partial"} : Prepare(u, out)
    BY <1>0, <2>3 DEF Prepare, TypeOK, Jobs
  <2>4. CASE DatabaseWrite(u)
    BY <2>4 DEF DatabaseWrite
  <2>5. CASE \/ RejectWrite(u) \/ RejectPrepare(u) \/ RejectEnroll(u) \/ RejectCommit(u)
    BY <1>1, <2>5 DEF RejectWrite, RejectPrepare, RejectEnroll, RejectCommit, Correct
  <2>6. CASE \/ Activate(u) \/ BeginWrite(u) \/ PublishWrite(u) \/ AcceptWrite(u)
    BY <1>1, <2>6 DEF Activate, BeginWrite, PublishWrite, AcceptWrite
  <2>7. CASE \/ ArmCommit(u) \/ EnrollAtomic(u) \/ EnrollRestartable(u)
             \/ PublishSidecar(u) \/ PublishProduct(u)
    BY <1>1, <2>7 DEF ArmCommit, EnrollAtomic, EnrollRestartable, PublishSidecar, PublishProduct
  <2>8. CASE CommitPartial(u) \/ \E next \in Stages : CommitTransition(u, next)
    BY <1>1, <2>8 DEF CommitPartial, CommitTransition
  <2> QED BY <1>3, <2>1, <2>2, <2>3, <2>4, <2>5, <2>6, <2>7, <2>8 DEF Work
<1>4. ASSUME NEW u \in Threads,
             \/ IssueRead(u) \/ \E c \in Caps : IssueInsert(u, c)
             \/ \E c \in Caps, r \in Requests : Submit(u, c, r)
             \/ Abort(u) \/ \E c \in Caps : Recover(u, c)
      PROVE  job'[t] = job[t]
  <2>1. CASE Abort(u) \/ \E c \in Caps : IssueInsert(u, c)
    BY <1>2, <2>1 DEF Abort, IssueInsert
  <2>2. CASE ~(Abort(u) \/ \E c \in Caps : IssueInsert(u, c))
    <3>1. CASE IssueRead(u)
      BY <1>0, <3>1 DEF IssueRead, Job, TypeOK
    <3>2. ASSUME NEW c \in Caps, NEW r \in Requests, Submit(u, c, r) PROVE job'[t] = job[t]
      BY <1>0, <3>2 DEF Submit, Job, TypeOK
    <3>3. ASSUME NEW c \in Caps, Recover(u, c) PROVE job'[t] = job[t]
      BY <1>0, <3>3 DEF Recover, Job, TypeOK
    <3> QED BY <1>4, <2>2, <3>1, <3>2, <3>3
  <2> QED BY <2>1, <2>2
<1>5. CASE Mechanical \/ Cancel \/ (\E c \in Caps : Expire(c)) \/ UNCHANGED vars
  BY <1>5 DEF Mechanical, Cancel, Untracked, Expire, vars
<1> QED BY <1>3, <1>4, <1>5 DEF Next

\* The request a reservation was made for is the one that is executed.
LEMMA ReservedKept == IndInv /\ [Next]_vars => \A t \in Threads : Reserved(t)'
<1> SUFFICES ASSUME IndInv, [Next]_vars, NEW t \in Threads, job'[t].pc = "activate"
             PROVE  ~NoneExists(job[t].cap)' /\ receipt'[job'[t].cap].req = job'[t].req
  BY DEF Reserved, At, NoneExists
<1>1. CASE Reserve(t)
  <2>1. job[t].cap \in Caps
    BY <1>1 DEF IndInv, JobBound, Reserve, At
  <2> QED BY <1>1, <2>1, GotoFacts DEF Reserve, IndInv, TypeOK, Reservation, NoneExists
<1>2. CASE job'[t] = job[t]
  <2>1. job[t].cap \in Caps /\ Reserved(t)
    BY <1>2 DEF IndInv, JobBound
  <2>2. RecordStep(job[t].cap)
    BY <2>1, RecordKept
  <2> QED BY <1>2, <2>1, <2>2 DEF Reserved, At, RecordStep, NoneExists, Pending
<1> QED BY <1>1, <1>2, ActivateKept

-----------------------------------------------------------------------------
(* The fence, the counts and the final receipts *)

LEMMA InitInv == Init => IndInv
<1> SUFFICES ASSUME Init PROVE IndInv
  OBVIOUS
<1>1. TypeOK /\ JobBound
  BY InitType DEF TypeInv
<1>2. \A t \in Threads : Reserved(t) /\ Owns(t) /\ Evidence(t)
  BY DEF Init, Idle, Job, Reserved, Owns, Evidence, At, LockedPcs
<1>3. \A c \in Caps : Accounted(c) /\ NoneExists(c) /\ ~Pending(c)
  BY DEF Init, Accounted, NoneExists, Pending, NoReceipt, NoMarker
<1> QED BY <1>1, <1>2, <1>3 DEF IndInv, OnePending, PendingIsCurrent, ReceiptsIssued

LEMMA Inductive == Spec => []IndInv
<1>1. IndInv /\ [Next]_vars => IndInv'
  <2> SUFFICES ASSUME IndInv, [Next]_vars PROVE IndInv'
    OBVIOUS
  <2>1. (TypeOK /\ JobBound)'
    BY NextType DEF IndInv, TypeInv
  <2> QED BY <2>1, RestKept, ReservedKept DEF IndInv, Rest
<1> QED BY <1>1, InitInv, PTL DEF Spec

\* The fence: a run never has two submissions in flight, and one in flight is
\* always of the current epoch.
THEOREM Fenced == Spec => [](OnePending /\ PendingIsCurrent)
<1>1. IndInv => OnePending /\ PendingIsCurrent
  BY DEF IndInv
<1> QED BY <1>1, Inductive, PTL

\* A settled receipt acknowledges exactly the writes that are in place.
THEOREM CountExact == Spec => []ReceiptCountExact
<1>1. IndInv => ReceiptCountExact
  BY DEF IndInv, Accounted, ReceiptCountExact
<1> QED BY <1>1, Inductive, PTL

\* No write takes effect twice.
THEOREM AtMostOnce == Spec => []EffectOnce
<1>1. IndInv => EffectOnce
  <2> SUFFICES ASSUME IndInv, NEW c \in Caps, NEW i \in Slots PROVE done[c][i] <= 1
    BY DEF EffectOnce
  <2>1. Accounted(c) /\ TypeOK
    BY DEF IndInv
  <2>2. CASE NoneExists(c)
    BY <2>1, <2>2 DEF Accounted
  <2>3. CASE receipt[c].status = "completed"
    BY <2>1, <2>3 DEF Accounted
  <2>4. CASE Pending(c)
    <3>1. check[c].accepted \in Nat
      BY <2>1, FieldTypes
    <3> QED BY <2>1, <2>4, <3>1 DEF Accounted, OpenProgress, Slots
  <2>5. receipt[c].status \in {"none", "pending", "completed"}
    BY <2>1 DEF TypeOK, Receipts
  <2> QED BY <2>2, <2>3, <2>4, <2>5 DEF NoneExists, Pending
<1> QED BY <1>1, Inductive, PTL

\* A transition and the receipt that reports it are the same step.
THEOREM AppliedIsMoved == Spec => []AppliedMeansMoved
<1>1. IndInv => AppliedMeansMoved
  <2> SUFFICES ASSUME IndInv, NEW c \in Caps
               PROVE  advanced[c] = IF Applied(c) /\ receipt[c].complete THEN 1 ELSE 0
    BY DEF AppliedMeansMoved
  <2>1. Accounted(c) /\ receipt[c].status \in {"none", "pending", "completed"}
    BY DEF IndInv, TypeOK, Receipts
  <2> QED BY <2>1 DEF Accounted, Applied, NoneExists, Pending
<1> QED BY <1>1, Inductive, PTL

\* Evidence settles every interruption outside the two ambiguous windows.
THEOREM Recoverable == Spec => []InterruptedIsRecoverable
<1>1. IndInv => InterruptedIsRecoverable
  BY DEF IndInv, Accounted, OpenEvidence, InterruptedIsRecoverable, Reconcilable, Ambiguous,
         FileDecides
<1> QED BY <1>1, Inductive, PTL

\* A settled submission has no further effect and its receipt is final.
THEOREM Final == Spec => SettledIsFinal
<1>1. IndInv /\ [Next]_vars =>
        [\A c \in Caps : receipt[c].status = "completed" =>
            /\ receipt'[c] = receipt[c]
            /\ done'[c] = done[c]
            /\ advanced'[c] = advanced[c]]_vars
  <2> SUFFICES ASSUME IndInv, [Next]_vars, NEW c \in Caps, receipt[c].status = "completed"
               PROVE  receipt'[c] = receipt[c] /\ done'[c] = done[c] /\ advanced'[c] = advanced[c]
    OBVIOUS
  <2>1. RecordStep(c)
    BY RecordKept
  <2> QED BY <2>1 DEF RecordStep, NoneExists, Pending
<1> QED BY <1>1, Inductive, PTL DEF Spec, SettledIsFinal

-----------------------------------------------------------------------------
(* Products: what the evidence of restartable actions says                 *)

\* An open submission belongs to a task that is being worked on.
OpenInTask == \A c \in Caps : Pending(c) => stage \in TaskStages

Untouched(c) == \A s \in sidecars : s.exec # c
PartialHasNoEffect(c) == \A s \in sidecars : s.exec = c => s.before = s.after
\* Evidence of this epoch under another payload belongs to an applied action.
OthersApplied(p) == \A s \in Scope : s.payload # p => Applied(s.exec)

\* What a handler knows of the evidence while it holds the flock.
Tracks(t) ==
  LET j == job[t] IN
  /\ j.pc \in LockedPcs \ {"product", "commit"} => Untouched(j.cap)
  /\ j.pc \in {"product", "commit"} /\ j.out = "partial" => PartialHasNoEffect(j.cap)
  /\ j.pc \in {"enroll", "sidecar", "product"} => OthersApplied(j.req.payload)
  /\ j.pc = "product" => Prior(j.req.payload) # {}
  /\ j.pc = "publish" => journal[j.cap].before <= journal[j.cap].after

\* Evidence is of the past or of the current epoch, one per payload; it was
\* written after its execution armed its commit; and an action with an effect
\* is applied only by leaving the epoch.
EvidenceKept ==
  /\ \A s \in sidecars : /\ s.epoch <= epoch
                         /\ s.after \in {s.before, s.before + 1}
                         /\ ~NoneExists(s.exec)
                         /\ check[s.exec].phase = "commit_ready"
                         /\ Applied(s.exec) /\ s.before # s.after => s.epoch # epoch
  /\ \A s, r \in sidecars : s.epoch = r.epoch /\ s.payload = r.payload => s = r

\* A product installed in this epoch is one that evidence of it describes, and
\* the file has not gone back.
InstallKept ==
  /\ \A e \in Epochs : installed[e] <= 1 /\ (e > epoch => installed[e] = 0)
  /\ installed[epoch] > 0 =>
       \E s \in Scope : s.before # s.after /\ s.after <= files["product"]

ProductInv == OpenInTask /\ EvidenceKept /\ InstallKept /\ \A t \in Threads : Tracks(t)

LEMMA SidecarFacts ==
  ASSUME TypeOK, NEW s \in sidecars
  PROVE  s.exec \in Caps /\ s.epoch \in Epochs /\ s.before \in Nat /\ s.after \in Nat
BY DEF TypeOK, Sidecars

\* A handler outside the lock need not know anything.
LEMMA OutsideTracks ==
  ASSUME NEW u \in Threads, job'[u].pc \notin LockedPcs
  PROVE  Tracks(u)'
BY DEF Tracks, LockedPcs

LEMMA OthersTrack ==
  ASSUME IndInv, NEW t \in Threads, job[t].pc \in LockedPcs \/ lock = None \/ ~AnyPending,
         \A u \in Threads \ {t} : job'[u] = job[u]
  PROVE  \A u \in Threads \ {t} : Tracks(u)'
<1> SUFFICES ASSUME NEW u \in Threads \ {t} PROVE job'[u].pc \notin LockedPcs
  BY OutsideTracks
<1>1. CASE job[t].pc \in LockedPcs
  BY <1>1, LockedFacts
<1>2. CASE lock = None \/ ~AnyPending
  BY <1>2, FreeFacts
<1> QED BY <1>1, <1>2

Stored == OpenInTask /\ EvidenceKept /\ InstallKept

\* A step that writes no evidence and installs nothing.
LEMMA StoreKept ==
  ASSUME TypeOK, TypeOK', Stored, UNCHANGED <<epoch, sidecars, installed>>,
         files["product"] <= files'["product"],
         \A c \in Caps : Pending(c)' => stage' \in TaskStages \/ (Pending(c) /\ stage' = stage),
         \A c \in Caps : ~NoneExists(c) =>
            /\ ~NoneExists(c)'
            /\ check[c].phase = "commit_ready" => check'[c].phase = "commit_ready"
            /\ Applied(c)' => Applied(c) \/ PartialHasNoEffect(c)
  PROVE  Stored'
<1>1. OpenInTask'
  BY DEF Stored, OpenInTask
<1>2. EvidenceKept'
  <2>1. ASSUME NEW s \in sidecars
        PROVE  (/\ s.epoch <= epoch
                /\ s.after \in {s.before, s.before + 1}
                /\ ~NoneExists(s.exec)
                /\ check[s.exec].phase = "commit_ready"
                /\ Applied(s.exec) /\ s.before # s.after => s.epoch # epoch)'
    <3>1. s.exec \in Caps
      BY SidecarFacts
    <3> QED BY <3>1 DEF Stored, EvidenceKept, PartialHasNoEffect
  <2> QED BY <2>1 DEF Stored, EvidenceKept
<1>3. InstallKept'
  <2>1. files["product"] \in Nat /\ files'["product"] \in Nat
    BY DEF TypeOK, Files
  <2>2. ASSUME NEW s \in Scope, s.after <= files["product"]
        PROVE  s \in Scope' /\ s.after <= files'["product"]
    <3>1. s.after \in Nat
      BY SidecarFacts DEF Scope
    <3> QED BY <2>1, <2>2, <3>1 DEF Scope
  <2> QED BY <2>2 DEF Stored, InstallKept
<1> QED BY <1>1, <1>2, <1>3 DEF Stored

\* The epoch ends, with no submission left open: its evidence is of the past.
LEMMA StoreLeft ==
  ASSUME TypeOK, TypeOK', Stored, epoch' = epoch + 1,
         UNCHANGED <<check, files, sidecars, installed>>,
         \A c \in Caps : ~Pending(c)' /\ (~NoneExists(c) => ~NoneExists(c)')
  PROVE  Stored'
<1>0. epoch \in Epochs /\ epoch + 1 \in Epochs /\ epoch \in Nat
  BY DEF TypeOK, Epochs
<1>1. OpenInTask'
  BY DEF OpenInTask
<1>2. EvidenceKept'
  <2>1. ASSUME NEW s \in sidecars
        PROVE  (/\ s.epoch <= epoch
                /\ s.after \in {s.before, s.before + 1}
                /\ ~NoneExists(s.exec)
                /\ check[s.exec].phase = "commit_ready"
                /\ s.epoch # epoch)'
    <3>1. s.exec \in Caps /\ s.epoch \in Nat /\ s.epoch <= epoch
      BY SidecarFacts DEF Stored, EvidenceKept, Epochs
    <3> QED BY <1>0, <3>1 DEF Stored, EvidenceKept
  <2> QED BY <2>1 DEF Stored, EvidenceKept
<1>3. InstallKept'
  <2>1. installed[epoch + 1] = 0
    BY <1>0 DEF Stored, InstallKept
  <2>2. \A e \in Epochs : e > epoch + 1 => e > epoch
    BY <1>0 DEF Epochs
  <2> QED BY <1>0, <2>1, <2>2 DEF Stored, InstallKept
<1> QED BY <1>1, <1>2, <1>3 DEF Stored

LEMMA SettleFacts ==
  ASSUME TypeOK, NEW c \in Caps, Pending(c), NEW d, NEW n, NEW b, Settle(c, d, n, b)
  PROVE  /\ \A e \in Caps : Pending(e)' => Pending(e)
         /\ \A e \in Caps : ~NoneExists(e) => ~NoneExists(e)'
         /\ \A e \in Caps \ {c} : Applied(e)' = Applied(e)
         /\ Applied(c)' => d = "applied"
BY DEF TypeOK, Settle, Pending, NoneExists, Applied

\* An armed commit stays armed.
LEMMA ArmedKept ==
  ASSUME TypeOK, NEW c \in Caps,
         \/ check' = check
         \/ check' = [check EXCEPT ![c].accepted = @ + 1]
         \/ check' = [check EXCEPT ![c].phase = "commit_ready"]
         \/ check' = [check EXCEPT ![c].enrolled = TRUE]
  PROVE  \A d \in Caps : check[d].phase = "commit_ready" => check'[d].phase = "commit_ready"
BY DEF TypeOK, Checkpoints

-----------------------------------------------------------------------------
(* Every action keeps it *)

\* Steps outside the lock.
LEMMA OutsideProduct ==
  ASSUME IndInv, TypeOK', ProductInv,
         UNCHANGED <<epoch, stage, receipt, check, journal, files, sidecars, installed>>,
         \A u \in Threads : job'[u] = job[u] \/ job'[u].pc \notin LockedPcs
  PROVE  ProductInv'
<1>1. TypeOK /\ files["product"] <= files["product"]
  BY DEF IndInv, TypeOK, Files
<1>2. Stored'
  BY <1>1, StoreKept DEF ProductInv, Stored, Pending, NoneExists, Applied
<1>3. ASSUME NEW u \in Threads PROVE Tracks(u)'
  <2>1. CASE job'[u] = job[u]
    BY <2>1 DEF ProductInv, Tracks, Untouched, PartialHasNoEffect, OthersApplied, Scope, Prior,
                Applied
  <2> QED BY <1>3, <2>1, OutsideTracks
<1> QED BY <1>2, <1>3 DEF ProductInv, Stored

LEMMA ReserveProduct ==
  ASSUME IndInv, TypeOK', ProductInv, NEW t \in Threads, NEW c, c = job[t].cap, Reserve(t)
  PROVE  ProductInv'
<1>0. TypeOK
  BY DEF IndInv
<1>1. c \in Caps /\ NoneExists(c) /\ ~AnyPending /\ stage \in TaskStages
  BY DEF IndInv, JobBound, Reserve, At, MayReserve, Authorized
<1>2. /\ job'[t].pc \notin LockedPcs
      /\ \A u \in Threads \ {t} : job'[u] = job[u]
  BY <1>0, GotoFacts DEF Reserve, LockedPcs
<1>3. /\ receipt'[c].status = "pending"
      /\ \A d \in Caps \ {c} : receipt'[d] = receipt[d] /\ check'[d] = check[d]
  BY <1>0, <1>1 DEF Reserve, Reservation, TypeOK
<1>4. UNCHANGED <<epoch, stage, files, sidecars, installed>> /\ files["product"] <= files["product"]
  BY <1>0 DEF Reserve, history, TypeOK, Files
<1>5. Stored'
  BY <1>0, <1>1, <1>3, <1>4, StoreKept DEF ProductInv, Stored, Pending, NoneExists, Applied
<1>6. \A u \in Threads : Tracks(u)'
  BY <1>1, <1>2, OthersTrack, OutsideTracks
<1> QED BY <1>5, <1>6 DEF ProductInv, Stored

LEMMA ActivateProduct ==
  ASSUME IndInv, TypeOK', ProductInv, NEW t \in Threads, NEW c, c = job[t].cap, Activate(t)
  PROVE  ProductInv'
<1>0. TypeOK
  BY DEF IndInv
<1>1. c \in Caps /\ lock = None /\ check[c].phase = "prepared"
  BY DEF IndInv, JobBound, Activate, At, MayActivate
<1>2. /\ job'[t].pc = "write" /\ job'[t].cap = c
      /\ \A u \in Threads \ {t} : job'[u] = job[u]
  BY <1>0, GotoFacts DEF Activate
<1>3. \A d \in Caps \ {c} : check'[d] = check[d]
  BY <1>0 DEF Activate, TypeOK
<1>4. /\ UNCHANGED <<epoch, stage, receipt, files, sidecars, installed>>
      /\ files["product"] <= files["product"]
  BY <1>0 DEF Activate, history, TypeOK, Files
<1>5. Stored'
  BY <1>0, <1>1, <1>3, <1>4, StoreKept DEF ProductInv, Stored, Pending, NoneExists, Applied
<1>6. Tracks(t)'
  <2>1. Untouched(c)
    BY <1>1 DEF ProductInv, EvidenceKept, Untouched
  <2> QED BY <1>2, <1>4, <2>1 DEF Tracks, Untouched
<1> QED BY <1>1, <1>2, <1>5, <1>6, OthersTrack DEF ProductInv, Stored

\* A step of the holder of the flock that settles nothing and writes no evidence.
LEMMA LockedProduct ==
  ASSUME IndInv, TypeOK', ProductInv, NEW t \in Threads, NEW c, c = job[t].cap,
         job[t].pc \in LockedPcs,
         UNCHANGED <<epoch, stage, receipt, sidecars, installed>>,
         files["product"] <= files'["product"],
         \A d \in Caps : check[d].phase = "commit_ready" => check'[d].phase = "commit_ready",
         \A u \in Threads \ {t} : job'[u] = job[u],
         Tracks(t)'
  PROVE  ProductInv'
<1>1. Stored'
  BY StoreKept DEF IndInv, ProductInv, Stored, Pending, NoneExists, Applied
<1> QED BY <1>1, OthersTrack DEF ProductInv, Stored

LEMMA BeginWriteProduct ==
  ASSUME IndInv, TypeOK', ProductInv, NEW t \in Threads, NEW c, c = job[t].cap, BeginWrite(t)
  PROVE  ProductInv'
<1>0. TypeOK
  BY DEF IndInv
<1>1. job[t].pc = "write" /\ job[t].pc \in LockedPcs
  BY DEF BeginWrite, At, LockedPcs
<1>2. c \in Caps
  BY <1>1, LockedFacts
<1>3. /\ job'[t].pc = "publish" /\ job'[t].cap = c
      /\ \A u \in Threads \ {t} : job'[u] = job[u]
  BY <1>0, GotoFacts DEF BeginWrite
<1>4. /\ UNCHANGED <<epoch, stage, receipt, check, files, sidecars, installed>>
      /\ files["product"] <= files["product"]
  BY <1>0 DEF BeginWrite, history, TypeOK, Files
<1>5. journal'[c].before <= journal'[c].after
  <2>1. FileOf(Kind(t)) \in Files
    BY DEF FileOf, Files
  <2>2. files[FileOf(Kind(t))] \in Nat
    BY <1>0, <2>1 DEF TypeOK
  <2>3. \/ journal'[c].after = journal'[c].before /\ journal'[c].before \in Nat
        \/ journal'[c].after = journal'[c].before + 1 /\ journal'[c].before \in Nat
    BY <1>0, <1>2, <2>2 DEF BeginWrite, TypeOK
  <2> QED BY <2>3
<1>6. Tracks(t)'
  <2>1. Untouched(c)
    BY <1>1 DEF ProductInv, Tracks, LockedPcs
  <2> QED BY <1>3, <1>4, <1>5, <2>1 DEF Tracks, Untouched
<1> QED BY <1>1, <1>3, <1>4, <1>6, LockedProduct

LEMMA PublishWriteProduct ==
  ASSUME IndInv, TypeOK', ProductInv, NEW t \in Threads, NEW c, c = job[t].cap, PublishWrite(t)
  PROVE  ProductInv'
<1>0. TypeOK
  BY DEF IndInv
<1>1. job[t].pc = "publish" /\ job[t].pc \in LockedPcs
  BY DEF PublishWrite, At, LockedPcs
<1>2. c \in Caps
  BY <1>1, LockedFacts
<1>3. /\ job'[t].pc = "accept" /\ job'[t].cap = c
      /\ \A u \in Threads \ {t} : job'[u] = job[u]
  BY <1>0, GotoFacts DEF PublishWrite
<1>4. UNCHANGED <<epoch, stage, receipt, check, sidecars, installed>>
  BY DEF PublishWrite
<1>5. files["product"] <= files'["product"]
  <2>1. journal[c].before <= journal[c].after
    BY <1>1 DEF ProductInv, Tracks
  <2>2. files' = [files EXCEPT ![journal[c].file] = journal[c].after]
        /\ files[journal[c].file] = journal[c].before
    BY DEF PublishWrite
  <2>3. files \in [Files -> Nat] /\ "product" \in Files
    BY <1>0 DEF TypeOK, Files
  <2> QED BY <2>1, <2>2, <2>3
<1>6. Tracks(t)'
  <2>1. Untouched(c)
    BY <1>1 DEF ProductInv, Tracks, LockedPcs
  <2> QED BY <1>3, <1>4, <2>1 DEF Tracks, Untouched
<1> QED BY <1>1, <1>3, <1>4, <1>5, <1>6, LockedProduct

LEMMA AcceptProduct ==
  ASSUME IndInv, TypeOK', ProductInv, NEW t \in Threads, NEW c, c = job[t].cap,
         AcceptWrite(t) \/ DatabaseWrite(t) \/ ArmCommit(t)
  PROVE  ProductInv'
<1>0. TypeOK
  BY DEF IndInv
<1>1. job[t].pc \in {"write", "accept"} /\ job[t].pc \in LockedPcs
  BY DEF AcceptWrite, DatabaseWrite, ArmCommit, At, LockedPcs
<1>2. /\ job'[t].pc \in {"write", "prepare"} /\ job'[t].cap = c
      /\ \A u \in Threads \ {t} : job'[u] = job[u]
  <2>1. CASE AcceptWrite(t) \/ ArmCommit(t)
    BY <1>0, <2>1, GotoFacts DEF AcceptWrite, ArmCommit
  <2>2. CASE DatabaseWrite(t)
    BY <2>2 DEF DatabaseWrite, At
  <2> QED BY <2>1, <2>2
<1>3. /\ UNCHANGED <<epoch, stage, receipt, files, sidecars, installed>>
      /\ files["product"] <= files["product"]
  BY <1>0 DEF AcceptWrite, DatabaseWrite, ArmCommit, history, TypeOK, Files
<1>4. \A d \in Caps : check[d].phase = "commit_ready" => check'[d].phase = "commit_ready"
  BY <1>0, <1>1, LockedFacts, ArmedKept DEF AcceptWrite, DatabaseWrite, ArmCommit
<1>5. Tracks(t)'
  <2>1. Untouched(c)
    BY <1>1 DEF ProductInv, Tracks, LockedPcs
  <2> QED BY <1>2, <1>3, <2>1 DEF Tracks, Untouched
<1> QED BY <1>1, <1>2, <1>3, <1>4, <1>5, LockedProduct

LEMMA PrepareProduct ==
  ASSUME IndInv, TypeOK', ProductInv, NEW t \in Threads, NEW c, c = job[t].cap, NEW out,
         Prepare(t, out) \/ EnrollAtomic(t) \/ EnrollRestartable(t)
  PROVE  ProductInv'
<1>0. TypeOK
  BY DEF IndInv
<1>1. job[t].pc \in {"prepare", "enroll"} /\ job[t].pc \in LockedPcs
  BY DEF Prepare, EnrollAtomic, EnrollRestartable, At, LockedPcs
<1>2. /\ UNCHANGED <<epoch, stage, receipt, files, sidecars, installed>>
      /\ files["product"] <= files["product"]
  BY <1>0 DEF Prepare, EnrollAtomic, EnrollRestartable, durable, history, TypeOK, Files
<1>3. \A d \in Caps : check[d].phase = "commit_ready" => check'[d].phase = "commit_ready"
  BY <1>0, <1>1, LockedFacts, ArmedKept DEF Prepare, EnrollAtomic, EnrollRestartable, durable
<1>4. Untouched(c)
  BY <1>1 DEF ProductInv, Tracks, LockedPcs
<1>5. /\ \A u \in Threads \ {t} : job'[u] = job[u]
      /\ Tracks(t)'
  <2>1. CASE Prepare(t, out)
    <3>1. /\ job'[t].pc = "enroll" /\ job'[t].cap = c /\ job'[t].req = job[t].req
          /\ \A u \in Threads \ {t} : job'[u] = job[u]
      BY <1>0, <2>1 DEF Prepare, TypeOK, Jobs
    <3>2. OthersApplied(job[t].req.payload)
      BY <2>1 DEF Prepare, EvidenceAgrees, OthersApplied
    <3> QED BY <1>2, <1>4, <3>1, <3>2 DEF Tracks, Untouched, OthersApplied, Scope, Applied
  <2>2. CASE EnrollAtomic(t)
    <3>1. /\ job'[t].pc = "commit" /\ job'[t].cap = c
          /\ \A u \in Threads \ {t} : job'[u] = job[u]
      BY <1>0, <2>2, GotoFacts DEF EnrollAtomic
    <3> QED BY <1>2, <1>4, <3>1 DEF Tracks, Untouched, PartialHasNoEffect
  <2>3. CASE EnrollRestartable(t)
    <3>1. /\ job'[t].pc = "sidecar" /\ job'[t].cap = c /\ job'[t].req = job[t].req
          /\ \A u \in Threads \ {t} : job'[u] = job[u]
      BY <1>0, <2>3, GotoFacts DEF EnrollRestartable
    <3>2. OthersApplied(job[t].req.payload)
      BY <2>3 DEF ProductInv, Tracks, EnrollRestartable, At
    <3> QED BY <1>2, <1>4, <3>1, <3>2 DEF Tracks, Untouched, OthersApplied, Scope, Applied
  <2> QED BY <2>1, <2>2, <2>3
<1> QED BY <1>1, <1>2, <1>3, <1>5, LockedProduct

LEMMA SidecarProduct ==
  ASSUME IndInv, TypeOK', ProductInv, NEW t \in Threads, NEW c, c = job[t].cap, PublishSidecar(t)
  PROVE  ProductInv'
<1>0. TypeOK
  BY DEF IndInv
<1> DEFINE p == job[t].req.payload
           e == Effect(p, job[t].out)
           s == [epoch |-> epoch, payload |-> p, exec |-> c, before |-> e.before,
                 after |-> e.after]
<1>1. job[t].pc = "sidecar" /\ job[t].pc \in LockedPcs
  BY DEF PublishSidecar, At, LockedPcs
<1>2. c \in Caps /\ Pending(c) /\ p \in Payloads /\ check[c].phase = "commit_ready"
  <2>1. c \in Caps /\ Pending(c) /\ job[t].req \in Requests
    BY <1>1, LockedFacts
  <2> QED BY <1>1, <2>1, ConstantAssumption DEF IndInv, Evidence
<1>3. /\ job'[t].pc = "product" /\ job'[t].cap = c /\ job'[t].req = job[t].req
      /\ job'[t].out = job[t].out
      /\ \A u \in Threads \ {t} : job'[u] = job[u]
  BY <1>0 DEF PublishSidecar, Goto, TypeOK, Jobs
<1>4. UNCHANGED <<epoch, stage, receipt, check, files, installed>>
  BY DEF PublishSidecar, history
<1>5. Untouched(c) /\ OthersApplied(p)
  BY <1>1 DEF ProductInv, Tracks, LockedPcs
<1>6. CASE Prior(p) # {}
  <2>1. sidecars' = sidecars
    BY <1>6 DEF PublishSidecar
  <2>2. Tracks(t)'
    BY <1>3, <1>4, <1>5, <1>6, <2>1
       DEF Tracks, Untouched, PartialHasNoEffect, OthersApplied, Prior, Scope, Applied, LockedPcs
  <2>3. files["product"] <= files["product"]
    BY <1>0 DEF TypeOK, Files
  <2> QED BY <1>1, <1>3, <1>4, <2>1, <2>2, <2>3, LockedProduct
<1>7. CASE Prior(p) = {}
  <2>1. sidecars' = sidecars \cup {s}
    BY <1>7 DEF PublishSidecar
  <2>2. /\ e.before \in Nat /\ e.after \in {e.before, e.before + 1}
        /\ job[t].out = "partial" => e.before = e.after
    BY <1>0, <1>7 DEF Effect, TypeOK, Files
  <2>3. /\ s.epoch = epoch /\ s.payload = p /\ s.exec = c
        /\ s.after \in {s.before, s.before + 1}
        /\ job[t].out = "partial" => s.before = s.after
    BY <2>2
  <2> HIDE DEF s
  <2>4. OpenInTask' /\ InstallKept'
    BY <1>4, <2>1 DEF ProductInv, OpenInTask, InstallKept, Pending, Scope
  <2>5. EvidenceKept'
    <3>1. ASSUME NEW r \in sidecars'
          PROVE  (/\ r.epoch <= epoch
                  /\ r.after \in {r.before, r.before + 1}
                  /\ ~NoneExists(r.exec)
                  /\ check[r.exec].phase = "commit_ready"
                  /\ Applied(r.exec) /\ r.before # r.after => r.epoch # epoch)'
      <4>1. CASE r \in sidecars
        BY <1>4, <4>1 DEF ProductInv, EvidenceKept, NoneExists, Applied
      <4>2. CASE r = s
        <5>1. epoch <= epoch
          BY <1>0 DEF TypeOK, Epochs
        <5> QED BY <1>2, <1>4, <2>3, <4>2, <5>1 DEF NoneExists, Pending, Applied
      <4> QED BY <2>1, <4>1, <4>2
    <3>2. \A r \in sidecars : ~(r.epoch = s.epoch /\ r.payload = s.payload)
      BY <1>7, <2>3 DEF Prior, Scope
    <3>3. \A r, q \in sidecars' : r.epoch = q.epoch /\ r.payload = q.payload => r = q
      BY <2>1, <3>2 DEF ProductInv, EvidenceKept
    <3> QED BY <3>1, <3>3 DEF EvidenceKept
  <2>6. Tracks(t)'
    <3>1. job[t].out = "partial" => PartialHasNoEffect(c)'
      BY <1>5, <2>1, <2>3 DEF Untouched, PartialHasNoEffect
    <3>2. \A r \in Scope' : r.payload # p => Applied(r.exec)'
      BY <1>4, <1>5, <2>1, <2>3 DEF OthersApplied, Scope, Applied
    <3>3. s \in sidecars' /\ s.epoch = epoch' /\ s.payload = p
      BY <1>4, <2>1, <2>3
    <3> QED BY <1>3, <3>1, <3>2, <3>3 DEF Tracks, OthersApplied, Prior, Scope, LockedPcs,
            PartialHasNoEffect
  <2> QED BY <1>1, <1>3, <2>4, <2>5, <2>6, OthersTrack DEF ProductInv
<1> QED BY <1>6, <1>7

\* The product step installs what the evidence of this epoch and payload says,
\* and only over the image the evidence starts from; another installation in this
\* epoch would have left evidence of its own.
LEMMA InstallFacts ==
  ASSUME IndInv, ProductInv, NEW t \in Threads, PublishProduct(t)
  PROVE  \/ UNCHANGED <<files, installed>>
         \/ \E s \in Scope :
              /\ s.before = files["product"] /\ s.after = files["product"] + 1
              /\ files' = [files EXCEPT !["product"] = s.after]
              /\ installed[epoch] = 0
              /\ installed' = [installed EXCEPT ![epoch] = @ + 1]
<1>0. TypeOK
  BY DEF IndInv
<1> DEFINE p == job[t].req.payload
           e == Effect(p, job[t].out)
<1>1. Tracks(t) /\ job[t].pc = "product"
  BY DEF ProductInv, PublishProduct, At
<1>2. OthersApplied(p) /\ Prior(p) # {}
  BY <1>1 DEF Tracks
<1>3. e \in Prior(p)
  BY <1>2, Zenon DEF Effect
<1>4. e \in Scope /\ e \in sidecars /\ e.epoch = epoch /\ e.payload = p
  BY <1>3 DEF Prior, Scope
<1>5. SUFFICES ASSUME e.before # e.after /\ files["product"] # e.after
               PROVE  /\ e.before = files["product"] /\ e.after = files["product"] + 1
                      /\ files' = [files EXCEPT !["product"] = e.after]
                      /\ installed[epoch] = 0
                      /\ installed' = [installed EXCEPT ![epoch] = @ + 1]
  <2>1. CASE e.before # e.after /\ files["product"] # e.after
    BY <1>4, <1>5, <2>1
  <2>2. CASE ~(e.before # e.after /\ files["product"] # e.after)
    BY <2>2 DEF PublishProduct
  <2> QED BY <2>1, <2>2
<1>6. /\ e.before = files["product"]
      /\ files' = [files EXCEPT !["product"] = e.after]
      /\ installed' = [installed EXCEPT ![epoch] = @ + 1]
  BY <1>5 DEF PublishProduct
<1>7. e.after = e.before + 1
  BY <1>4, <1>5 DEF ProductInv, EvidenceKept
<1>8. installed[epoch] = 0
  <2> SUFFICES ASSUME installed[epoch] # 0 PROVE FALSE
    OBVIOUS
  <2>1. installed[epoch] \in Nat
    BY <1>0 DEF TypeOK
  <2>2. PICK s \in Scope : s.before # s.after /\ s.after <= files["product"]
    BY <2>1 DEF ProductInv, InstallKept
  <2>3. s \in sidecars /\ s.epoch = epoch
    BY <2>2 DEF Scope
  <2>4. ~Applied(s.exec)
    BY <2>2, <2>3 DEF ProductInv, EvidenceKept
  <2>5. s.payload = p
    BY <1>2, <2>2, <2>4 DEF OthersApplied
  <2>6. s = e
    BY <1>4, <2>3, <2>5 DEF ProductInv, EvidenceKept
  <2>7. e.before \in Nat
    BY <1>0, <1>4, SidecarFacts
  <2> HIDE DEF e
  <2> QED BY <1>6, <1>7, <2>2, <2>6, <2>7
<1> QED BY <1>6, <1>7, <1>8

LEMMA InstallProduct ==
  ASSUME IndInv, TypeOK', ProductInv, NEW t \in Threads, NEW c, c = job[t].cap, PublishProduct(t)
  PROVE  ProductInv'
<1>0. TypeOK
  BY DEF IndInv
<1>1. job[t].pc = "product" /\ job[t].pc \in LockedPcs
  BY DEF PublishProduct, At, LockedPcs
<1>2. /\ job'[t].pc = "commit" /\ job'[t].cap = c /\ job'[t].out = job[t].out
      /\ \A u \in Threads \ {t} : job'[u] = job[u]
  BY <1>0 DEF PublishProduct, Goto, TypeOK, Jobs
<1>3. UNCHANGED <<epoch, stage, receipt, check, sidecars>>
  BY DEF PublishProduct
<1>4. Tracks(t)'
  <2>1. job[t].out = "partial" => PartialHasNoEffect(c)
    BY <1>1 DEF ProductInv, Tracks
  <2> QED BY <1>2, <1>3, <2>1 DEF Tracks, PartialHasNoEffect, LockedPcs
<1>5. CASE UNCHANGED <<files, installed>>
  <2>1. files["product"] <= files'["product"]
    BY <1>0, <1>5 DEF TypeOK, Files
  <2> QED BY <1>1, <1>2, <1>3, <1>4, <1>5, <2>1, LockedProduct
<1>6. ASSUME NEW s \in Scope,
             s.before = files["product"], s.after = files["product"] + 1,
             files' = [files EXCEPT !["product"] = s.after],
             installed[epoch] = 0,
             installed' = [installed EXCEPT ![epoch] = @ + 1]
      PROVE  ProductInv'
  <2>1. OpenInTask' /\ EvidenceKept'
    BY <1>3 DEF ProductInv, OpenInTask, EvidenceKept, Pending, NoneExists, Applied
  <2>2. InstallKept'
    <3>1. files \in [Files -> Nat] /\ "product" \in Files /\ epoch \in Epochs
          /\ installed \in [Epochs -> Nat]
      BY <1>0 DEF TypeOK, Files
    <3>2. files'["product"] = s.after /\ s.after \in Nat /\ s.before # s.after
      BY <1>6, <3>1
    <3>3. \A e \in Epochs : installed'[e] = IF e = epoch THEN 1 ELSE installed[e]
      BY <1>6, <3>1
    <3>4. \A e \in Epochs : installed'[e] <= 1 /\ (e > epoch => installed'[e] = 0)
      BY <3>1, <3>3 DEF ProductInv, InstallKept, Epochs
    <3>5. s \in Scope'
      BY <1>3 DEF Scope
    <3>6. s.after <= files'["product"]
      BY <3>2
    <3> QED BY <1>3, <3>2, <3>4, <3>5, <3>6 DEF InstallKept
  <2> QED BY <1>1, <1>2, <1>4, <2>1, <2>2, OthersTrack DEF ProductInv
<1> QED BY <1>5, <1>6, InstallFacts

\* A settled submission: its evidence has no effect, or was not applied.
LEMMA SettleProduct ==
  ASSUME IndInv, TypeOK', ProductInv, NEW c \in Caps, Pending(c), NEW d, NEW n, NEW b,
         Settle(c, d, n, b), d = "applied" => PartialHasNoEffect(c),
         UNCHANGED <<epoch, stage, check, files, sidecars, installed>>,
         \A u \in Threads : job'[u].pc \notin LockedPcs
  PROVE  ProductInv'
<1>0. TypeOK /\ files["product"] <= files["product"]
  BY DEF IndInv, TypeOK, Files
<1>1. /\ \A e \in Caps : Pending(e)' => Pending(e)
      /\ \A e \in Caps : ~NoneExists(e) => ~NoneExists(e)'
      /\ \A e \in Caps \ {c} : Applied(e)' = Applied(e)
      /\ Applied(c)' => d = "applied"
  BY <1>0, SettleFacts
<1>2. Stored'
  BY <1>0, <1>1, StoreKept DEF ProductInv, Stored
<1> QED BY <1>2, OutsideTracks DEF ProductInv, Stored

LEMMA CommitProduct ==
  ASSUME IndInv, TypeOK', ProductInv, NEW t \in Threads, NEW c, c = job[t].cap,
         job[t].pc \in LockedPcs,
         Correct(t) \/ CommitPartial(t) \/ \E next \in Stages : CommitTransition(t, next)
  PROVE  ProductInv'
<1>0. TypeOK
  BY DEF IndInv
<1>1. c \in Caps /\ Pending(c) /\ \A d \in Caps \ {c} : ~Pending(d)
  BY LockedFacts
<1>2. \A u \in Threads : job'[u].pc \notin LockedPcs
  <2>1. Goto(t, "retire")
    BY DEF Correct, CommitPartial, CommitTransition
  <2> QED BY <1>0, <2>1, GotoFacts, LockedFacts DEF LockedPcs
<1>3. CASE Correct(t)
  BY <1>1, <1>2, <1>3, SettleProduct DEF Correct, history
<1>4. CASE CommitPartial(t)
  <2>1. PartialHasNoEffect(c)
    BY <1>4 DEF ProductInv, Tracks, CommitPartial, At
  <2> QED BY <1>1, <1>2, <1>4, <2>1, SettleProduct DEF CommitPartial, history
<1>5. ASSUME NEW next \in Stages, CommitTransition(t, next) PROVE ProductInv'
  <2>1. /\ epoch' = epoch + 1 /\ UNCHANGED <<check, files, sidecars, installed>>
        /\ Settle(c, "applied", check[c].accepted, TRUE)
    BY <1>5 DEF CommitTransition, TransitionOn
  <2>2. \A d \in Caps : ~Pending(d)' /\ (~NoneExists(d) => ~NoneExists(d)')
    BY <1>0, <1>1, <2>1 DEF Settle, TypeOK, Pending, NoneExists
  <2>3. Stored'
    BY <1>0, <2>1, <2>2, StoreLeft DEF ProductInv, Stored
  <2> QED BY <1>2, <2>3, OutsideTracks DEF ProductInv, Stored
<1> QED BY <1>3, <1>4, <1>5

LEMMA RecoverProduct ==
  ASSUME IndInv, TypeOK', ProductInv, NEW t \in Threads, NEW c \in Caps, Recover(t, c)
  PROVE  ProductInv'
<1>0. TypeOK
  BY DEF IndInv
<1>1. Pending(c) /\ lock = None
  BY DEF Recover
<1>2. \A u \in Threads : job[u].pc \notin LockedPcs
  BY <1>1, FreeFacts
<1>3. \A u \in Threads : job'[u].pc \notin LockedPcs
  BY <1>0, <1>2 DEF Recover, Job, TypeOK, LockedPcs
<1> QED BY <1>1, <1>3, SettleProduct DEF Recover, history

LEMMA UntrackedProduct ==
  ASSUME IndInv, TypeOK', ProductInv, NEW next, Untracked(next)
  PROVE  ProductInv'
<1>1. /\ ~AnyPending /\ epoch' = epoch + 1
      /\ UNCHANGED <<receipt, check, files, sidecars, installed, job>>
  BY DEF Untracked, TransitionOn, history
<1>2. Stored'
  BY <1>1, StoreLeft DEF IndInv, ProductInv, Stored, AnyPending, Pending, NoneExists
<1>3. \A u \in Threads : Tracks(u)'
  BY <1>1, FreeFacts, OutsideTracks
<1> QED BY <1>2, <1>3 DEF ProductInv, Stored

LEMMA ProductStep == IndInv /\ TypeOK' /\ ProductInv /\ [Next]_vars => ProductInv'
<1> SUFFICES ASSUME IndInv, TypeOK', ProductInv, [Next]_vars PROVE ProductInv'
  OBVIOUS
<1>0. TypeOK
  BY DEF IndInv
<1>1. CASE UNCHANGED vars \/ \E c \in Caps : Expire(c)
  BY <1>1, OutsideProduct DEF vars, Expire, durable, history
<1>2. CASE Mechanical \/ Cancel
  BY <1>2, UntrackedProduct DEF Mechanical, Cancel
<1>3. ASSUME NEW t \in Threads, Work(t) PROVE ProductInv'
  <2>1. CASE ReserveRefused(t) \/ ActivateRefused(t) \/ RaiseUnknown(t) \/ Retire(t)
    <3>1. Quit(t)
      BY <2>1 DEF ReserveRefused, ActivateRefused, RaiseUnknown, Retire
    <3>2. UNCHANGED <<epoch, stage, receipt, check, journal, files, sidecars, installed>>
      BY <2>1 DEF ReserveRefused, ActivateRefused, RaiseUnknown, Retire, durable, history
    <3> QED BY <1>0, <3>1, <3>2, QuitFacts, OutsideProduct
  <2>2. CASE Reserve(t) \/ Activate(t)
    BY <2>2, ReserveProduct, ActivateProduct
  <2>3. CASE BeginWrite(t) \/ PublishWrite(t) \/ AcceptWrite(t) \/ DatabaseWrite(t) \/ ArmCommit(t)
    BY <2>3, BeginWriteProduct, PublishWriteProduct, AcceptProduct
  <2>4. CASE \/ \E out \in {"move", "partial"} : Prepare(t, out)
             \/ EnrollAtomic(t) \/ EnrollRestartable(t)
    BY <2>4, PrepareProduct
  <2>5. CASE PublishSidecar(t) \/ PublishProduct(t)
    BY <2>5, SidecarProduct, InstallProduct
  <2>6. CASE \/ RejectWrite(t) \/ RejectPrepare(t) \/ RejectEnroll(t) \/ RejectCommit(t)
             \/ CommitPartial(t) \/ \E next \in Stages : CommitTransition(t, next)
    BY <2>6, CommitProduct DEF RejectWrite, RejectPrepare, RejectEnroll, RejectCommit,
                               CommitPartial, CommitTransition, At, LockedPcs
  <2> QED BY <1>3, <2>1, <2>2, <2>3, <2>4, <2>5, <2>6 DEF Work
<1>4. ASSUME NEW t \in Threads,
             \/ IssueRead(t) \/ Abort(t) \/ \E c \in Caps : IssueInsert(t, c)
             \/ \E c \in Caps, r \in Requests : Submit(t, c, r)
      PROVE  ProductInv'
  <2>1. UNCHANGED <<epoch, stage, receipt, check, journal, files, sidecars, installed>>
    BY <1>4 DEF IssueRead, Abort, IssueInsert, Submit, durable, history
  <2>2. \A u \in Threads : job'[u] = job[u] \/ job'[u].pc \notin LockedPcs
    <3>1. CASE Abort(t) \/ \E c \in Caps : IssueInsert(t, c)
      BY <1>0, <3>1, QuitFacts DEF Abort, IssueInsert
    <3>2. CASE IssueRead(t) \/ \E c \in Caps, r \in Requests : Submit(t, c, r)
      BY <1>0, <3>2 DEF IssueRead, Submit, Job, LockedPcs, TypeOK
    <3> QED BY <1>4, <3>1, <3>2
  <2> QED BY <2>1, <2>2, OutsideProduct
<1>5. ASSUME NEW t \in Threads, NEW c \in Caps, Recover(t, c) PROVE ProductInv'
  BY <1>5, RecoverProduct
<1> QED BY <1>1, <1>2, <1>3, <1>4, <1>5 DEF Next

LEMMA ProductInvariant == Spec => []ProductInv
<1>1. Init => ProductInv
  <2> SUFFICES ASSUME Init PROVE ProductInv
    OBVIOUS
  <2>1. \A t \in Threads : Tracks(t)
    BY DEF Init, Idle, Job, Tracks, LockedPcs
  <2>2. epoch \in Epochs
    BY ValueTypes DEF Init
  <2> QED BY <2>1, <2>2 DEF Init, ProductInv, OpenInTask, EvidenceKept, InstallKept, Pending,
                           NoReceipt
<1>2. IndInv => TypeOK
  BY DEF IndInv
<1> QED BY <1>1, <1>2, ProductStep, Inductive, PTL DEF Spec

\* However often a restartable action is interrupted and submitted again, its
\* product is installed at most once in an epoch.
THEOREM InstalledOnce == Spec => []ProductOnce
<1>1. ProductInv => ProductOnce
  BY DEF ProductInv, InstallKept, ProductOnce
<1> QED BY <1>1, ProductInvariant, PTL

\* No write takes effect for a capability of another epoch, or in a closed run.
THEOREM EffectsInTheirEpoch == Spec => EffectsInOwnEpoch
<1>1. IndInv /\ ProductInv /\ [Next]_vars =>
        [\A c \in Caps : done'[c] # done[c] => cap[c].epoch = epoch /\ stage # "closed"]_vars
  <2> SUFFICES ASSUME IndInv, ProductInv, [Next]_vars, NEW c \in Caps, done'[c] # done[c]
               PROVE  cap[c].epoch = epoch /\ stage # "closed"
    OBVIOUS
  <2>1. Pending(c)
    BY RecordKept DEF RecordStep
  <2>2. cap[c].epoch = epoch /\ stage \in TaskStages
    BY <2>1 DEF IndInv, PendingIsCurrent, ProductInv, OpenInTask
  <2> QED BY <2>2 DEF TaskStages
<1> QED BY <1>1, Inductive, ProductInvariant, PTL DEF Spec, EffectsInOwnEpoch

-----------------------------------------------------------------------------
(* The protocol implements the ledger                                      *)

InPlace(c) == {i \in Slots : done[c][i] > 0}

LEMMA InPlaceFinite ==
  ASSUME NEW c \in Caps
  PROVE  IsFiniteSet(InPlace(c)) /\ Cardinality(InPlace(c)) \in Nat
<1>1. IsFiniteSet(Slots)
  BY ConstantAssumption, FS_Interval DEF Slots
<1>2. InPlace(c) \in SUBSET Slots
  BY DEF InPlace
<1> QED BY <1>1, <1>2, FS_Subset, FS_CardinalityType

\* One more write in place is one more effect, and there was room for it.
LEMMA OneMore ==
  ASSUME TypeOK, NEW c \in Caps, NEW n \in Slots, done[c][n] = 0,
         done' = [done EXCEPT ![c][n] = @ + 1]
  PROVE  /\ Cardinality(InPlace(c)) < MaxWrites
         /\ Cardinality(InPlace(c))' = Cardinality(InPlace(c)) + 1
         /\ \A d \in Caps \ {c} : InPlace(d)' = InPlace(d)
<1>1. done \in [Caps -> [Slots -> Nat]]
  BY DEF TypeOK
<1>2. done'[c][n] = 1 /\ \A i \in Slots \ {n} : done'[c][i] = done[c][i]
  BY <1>1
<1>3. \A d \in Caps \ {c} : done'[d] = done[d]
  BY <1>1
<1>4. n \notin InPlace(c) /\ InPlace(c)' = InPlace(c) \cup {n}
  BY <1>2 DEF InPlace
<1>5. Cardinality(InPlace(c))' = Cardinality(InPlace(c)) + 1
  BY <1>4, InPlaceFinite, FS_AddElement
<1>6. Cardinality(InPlace(c)) < MaxWrites
  <2>1. MaxWrites \in Nat /\ Slots = 1..MaxWrites
    BY ConstantAssumption DEF Slots
  <2>2. IsFiniteSet(Slots) /\ Cardinality(Slots) = MaxWrites
    <3>1. 1 \in Int /\ MaxWrites \in Int
      BY <2>1
    <3>2. /\ IsFiniteSet(1..MaxWrites)
          /\ Cardinality(1..MaxWrites) = IF 1 > MaxWrites THEN 0 ELSE MaxWrites - 1 + 1
      BY <3>1, FS_Interval, Zenon
    <3>3. (IF 1 > MaxWrites THEN 0 ELSE MaxWrites - 1 + 1) = MaxWrites
      BY <2>1
    <3> QED BY <2>1, <3>2, <3>3
  <2>3. InPlace(c) \in SUBSET Slots /\ InPlace(c) # Slots
    BY <1>4 DEF InPlace
  <2>4. /\ Cardinality(InPlace(c)) <= Cardinality(Slots)
        /\ Cardinality(Slots) = Cardinality(InPlace(c)) => Slots = InPlace(c)
    BY <2>2, <2>3, FS_Subset
  <2> QED BY <2>1, <2>2, <2>3, <2>4, InPlaceFinite
<1> QED BY <1>3, <1>5, <1>6 DEF InPlace

\* Every write that takes effect is the next one, and it has not yet.
LEMMA NextWrite ==
  ASSUME IndInv, NEW t \in Threads, PublishWrite(t) \/ DatabaseWrite(t)
  PROVE  /\ job[t].cap \in Caps /\ Pending(job[t].cap)
         /\ Slot(t) \in Slots /\ done[job[t].cap][Slot(t)] = 0
         /\ done' = [done EXCEPT ![job[t].cap][Slot(t)] = @ + 1]
         /\ UNCHANGED <<epoch, receipt>>
<1>0. TypeOK /\ job[t].pc \in LockedPcs /\ Evidence(t)
  BY DEF IndInv, PublishWrite, DatabaseWrite, At, LockedPcs
<1> DEFINE c == job[t].cap
<1>1. c \in Caps /\ job[t].req \in Requests /\ Pending(c) /\ OpenEvidence(c) /\ OpenProgress(c)
  BY <1>0, LockedFacts
<1>2. check[c].accepted \in Nat
  BY <1>0, <1>1, FieldTypes
<1>3. CASE PublishWrite(t)
  BY <1>0, <1>1, <1>3 DEF PublishWrite, At, Evidence, OpenEvidence, Slot, CountEffect
<1>4. CASE DatabaseWrite(t)
  <2>1. Slot(t) \in Slots
    <3>1. Slot(t) <= Len(job[t].req.writes)
      BY <1>4 DEF DatabaseWrite, MoreWrites
    <3>2. Len(job[t].req.writes) <= MaxWrites /\ Len(job[t].req.writes) \in Nat
      BY <1>1, ConstantAssumption
    <3>3. Slot(t) = check[c].accepted + 1
      BY DEF Slot
    <3> HIDE DEF c
    <3> QED BY <1>2, <3>1, <3>2, <3>3, ConstantAssumption DEF Slots
  <2>2. done[c][Slot(t)] = 0
    <3>1. journal[c].kind = "between"
      BY <1>0, <1>4 DEF DatabaseWrite, At, Evidence
    <3> QED BY <1>1, <2>1, <3>1 DEF OpenProgress, Slot
  <2> QED BY <1>1, <1>4, <2>1, <2>2 DEF DatabaseWrite, CountEffect
<1> QED BY <1>3, <1>4

\* What the ledger sees of a step: only receipts, effects and the epoch.
LEMMA LedgerStutter ==
  ASSUME UNCHANGED <<epoch, receipt, done>>
  PROVE  UNCHANGED Ledger!ledger
<1>1. \A c \in Caps : OutcomeOf(c)' = OutcomeOf(c)
  BY DEF OutcomeOf, NoneExists, Pending
<1>2. [c \in Caps |-> OutcomeOf(c)]' = [c \in Caps |-> OutcomeOf(c)]
  BY <1>1
<1>3. \A c \in Caps : {i \in Slots : done'[c][i] > 0} = {i \in Slots : done[c][i] > 0}
  OBVIOUS
<1> QED BY <1>2, <1>3 DEF Ledger!ledger

LEMMA LedgerOpen ==
  ASSUME IndInv, NEW t \in Threads, NEW c, c = job[t].cap, Reserve(t)
  PROVE  Ledger!Open(c) /\ c \in Caps
<1>1. c \in Caps /\ TypeOK
  BY DEF IndInv, JobBound, Reserve, At
<1>2. NoneExists(c) /\ ~AnyPending /\ UNCHANGED <<epoch, done>>
      /\ receipt' = [receipt EXCEPT ![c] = Reservation(job[t].req)]
  BY DEF Reserve, MayReserve, history
<1>3. receipt'[c].status = "pending" /\ \A d \in Caps \ {c} : receipt'[d] = receipt[d]
  BY <1>1, <1>2 DEF TypeOK, Reservation
<1>4. OutcomeOf(c) = "unused" /\ OutcomeOf(c)' = "open"
  BY <1>2, <1>3 DEF OutcomeOf, NoneExists, Pending
<1>5. \A d \in Caps : OutcomeOf(d) # "open"
  BY <1>2 DEF OutcomeOf, AnyPending, NoneExists, Pending
<1>6. \A d \in Caps \ {c} : OutcomeOf(d)' = OutcomeOf(d)
  BY <1>3 DEF OutcomeOf, NoneExists, Pending
<1>7. [d \in Caps |-> OutcomeOf(d)]' = [[d \in Caps |-> OutcomeOf(d)] EXCEPT ![c] = "open"]
  BY <1>1, <1>4, <1>6
<1> QED BY <1>1, <1>2, <1>4, <1>5, <1>7 DEF Ledger!Open

LEMMA LedgerWrite ==
  ASSUME IndInv, NEW t \in Threads, NEW c, c = job[t].cap, PublishWrite(t) \/ DatabaseWrite(t)
  PROVE  Ledger!Write(c) /\ c \in Caps
<1> DEFINE inPlace == [d \in Caps |-> Cardinality(InPlace(d))]
<1>1. TypeOK
  BY DEF IndInv
<1>2. /\ c \in Caps /\ Pending(c) /\ UNCHANGED <<epoch, receipt>>
      /\ Slot(t) \in Slots /\ done[c][Slot(t)] = 0
      /\ done' = [done EXCEPT ![c][Slot(t)] = @ + 1]
  BY NextWrite
<1>3. /\ Cardinality(InPlace(c)) < MaxWrites
      /\ Cardinality(InPlace(c))' = Cardinality(InPlace(c)) + 1
      /\ \A d \in Caps \ {c} : InPlace(d)' = InPlace(d)
  BY <1>1, <1>2, OneMore
<1>4. OutcomeOf(c) = "open" /\ \A d \in Caps : OutcomeOf(d)' = OutcomeOf(d)
  BY <1>2 DEF OutcomeOf, NoneExists, Pending
<1>5. inPlace' = [inPlace EXCEPT ![c] = @ + 1]
  BY <1>2, <1>3
<1>6. inPlace[c] < MaxWrites
  BY <1>2, <1>3
<1>7. inPlace = [d \in Caps |-> Cardinality({i \in Slots : done[d][i] > 0})]
  BY DEF InPlace
<1> QED BY <1>2, <1>4, <1>5, <1>6, <1>7 DEF Ledger!Write, InPlace

\* A receipt that is settled is the ledger's verdict.
Verdict(d, b) ==
  IF d = "corrected" THEN "corrected" ELSE IF b THEN "moved" ELSE "partial"

LEMMA SettledOutcome ==
  ASSUME TypeOK, NEW c \in Caps, Pending(c), NEW d \in {"applied", "corrected"},
         NEW n, NEW b \in BOOLEAN, Settle(c, d, n, b)
  PROVE  /\ OutcomeOf(c) = "open"
         /\ [e \in Caps |-> OutcomeOf(e)]'
              = [[e \in Caps |-> OutcomeOf(e)] EXCEPT ![c] = Verdict(d, b)]
<1>1. /\ receipt'[c].status = "completed" /\ receipt'[c].disposition = d
      /\ receipt'[c].complete = b
      /\ \A e \in Caps \ {c} : receipt'[e] = receipt[e]
  BY DEF Settle, TypeOK
<1>2. OutcomeOf(c) = "open"
  BY DEF OutcomeOf, NoneExists, Pending
<1>3. OutcomeOf(c)' = Verdict(d, b)
  BY <1>1 DEF OutcomeOf, NoneExists, Pending, Verdict
<1>4. \A e \in Caps \ {c} : OutcomeOf(e)' = OutcomeOf(e)
  BY <1>1 DEF OutcomeOf, NoneExists, Pending
<1> QED BY <1>2, <1>3, <1>4

LEMMA LedgerSettle ==
  ASSUME IndInv, NEW c \in Caps, Pending(c), NEW n, UNCHANGED <<epoch, done>>
  PROVE  /\ Settle(c, "corrected", n, FALSE) => Ledger!Settle(c, "corrected")
         /\ Settle(c, "applied", n, FALSE) => Ledger!Settle(c, "partial")
<1>1. TypeOK
  BY DEF IndInv
<1>2. ASSUME Settle(c, "corrected", n, FALSE) PROVE Ledger!Settle(c, "corrected")
  BY <1>1, <1>2, SettledOutcome DEF Verdict, Ledger!Settle
<1>3. ASSUME Settle(c, "applied", n, FALSE) PROVE Ledger!Settle(c, "partial")
  BY <1>1, <1>3, SettledOutcome DEF Verdict, Ledger!Settle
<1> QED BY <1>2, <1>3

LEMMA LedgerMove ==
  ASSUME IndInv, NEW t \in Threads, NEW c, c = job[t].cap, NEW next,
         CommitTransition(t, next)
  PROVE  Ledger!Move(c) /\ c \in Caps
<1>1. TypeOK /\ job[t].pc \in LockedPcs
  BY DEF IndInv, CommitTransition, At, LockedPcs
<1>2. c \in Caps /\ Pending(c)
  BY <1>1, LockedFacts
<1>3. epoch' = epoch + 1 /\ UNCHANGED done /\ Settle(c, "applied", check[c].accepted, TRUE)
  BY DEF CommitTransition, TransitionOn
<1> QED BY <1>1, <1>2, <1>3, SettledOutcome DEF Verdict, Ledger!Move

LEMMA LedgerAdvance ==
  ASSUME NEW next, Untracked(next)
  PROVE  Ledger!Advance
<1>1. ~AnyPending /\ epoch' = epoch + 1 /\ UNCHANGED <<receipt, done>>
  BY DEF Untracked, TransitionOn, history
<1>2. \A c \in Caps : OutcomeOf(c) # "open"
  BY <1>1 DEF AnyPending, NoneExists, Pending, OutcomeOf
<1>3. \A c \in Caps : OutcomeOf(c)' = OutcomeOf(c)
  BY <1>1 DEF OutcomeOf, NoneExists, Pending
<1> QED BY <1>1, <1>2, <1>3 DEF Ledger!Advance

LEMMA LedgerCorrect ==
  ASSUME IndInv, NEW t \in Threads, NEW c, c = job[t].cap, job[t].pc \in LockedPcs,
         Correct(t)
  PROVE  Ledger!Settle(c, "corrected") /\ c \in Caps
<1>1. c \in Caps /\ Pending(c)
  BY LockedFacts
<1> QED BY <1>1, LedgerSettle DEF Correct, history

LEMMA LedgerPartial ==
  ASSUME IndInv, NEW t \in Threads, NEW c, c = job[t].cap, CommitPartial(t)
  PROVE  Ledger!Settle(c, "partial") /\ c \in Caps
<1>1. job[t].pc \in LockedPcs
  BY DEF CommitPartial, At, LockedPcs
<1>2. c \in Caps /\ Pending(c)
  BY <1>1, LockedFacts
<1> QED BY <1>2, LedgerSettle DEF CommitPartial, history

LEMMA LedgerStep == IndInv /\ [Next]_vars => [Ledger!Next]_(Ledger!ledger)
<1> SUFFICES ASSUME IndInv, [Next]_vars
             PROVE  Ledger!Next \/ UNCHANGED Ledger!ledger
  OBVIOUS
<1>1. CASE UNCHANGED <<epoch, receipt, done>>
  BY <1>1, LedgerStutter
<1>2. ASSUME NEW t \in Threads, Work(t) PROVE Ledger!Next \/ UNCHANGED Ledger!ledger
  <2>1. CASE Reserve(t)
    BY <2>1, LedgerOpen DEF Ledger!Next
  <2>2. CASE PublishWrite(t) \/ DatabaseWrite(t)
    BY <2>2, LedgerWrite DEF Ledger!Next
  <2>3. CASE RejectWrite(t) \/ RejectPrepare(t) \/ RejectEnroll(t) \/ RejectCommit(t)
    BY <2>3, LedgerCorrect DEF Ledger!Next, RejectWrite, RejectPrepare, RejectEnroll, RejectCommit,
                               At, LockedPcs
  <2>4. CASE CommitPartial(t)
    BY <2>4, LedgerPartial DEF Ledger!Next
  <2>5. CASE \E next \in Stages : CommitTransition(t, next)
    BY <2>5, LedgerMove DEF Ledger!Next
  <2>6. CASE \/ ReserveRefused(t) \/ Activate(t) \/ ActivateRefused(t)
             \/ BeginWrite(t) \/ AcceptWrite(t) \/ ArmCommit(t)
             \/ \E out \in {"move", "partial"} : Prepare(t, out)
             \/ EnrollAtomic(t) \/ EnrollRestartable(t)
             \/ PublishSidecar(t) \/ PublishProduct(t) \/ RaiseUnknown(t) \/ Retire(t)
    <3>1. UNCHANGED <<epoch, receipt, done>>
      BY <2>6 DEF ReserveRefused, Activate, ActivateRefused, BeginWrite, AcceptWrite, ArmCommit,
              Prepare, EnrollAtomic, EnrollRestartable, PublishSidecar, PublishProduct,
              RaiseUnknown, Retire, durable, history
    <3> QED BY <1>1, <3>1
  <2> QED BY <1>2, <2>1, <2>2, <2>3, <2>4, <2>5, <2>6 DEF Work
<1>3. CASE Mechanical \/ Cancel
  BY <1>3, LedgerAdvance DEF Ledger!Next, Mechanical, Cancel
<1>4. ASSUME NEW t \in Threads, NEW c \in Caps, Recover(t, c)
      PROVE  Ledger!Next \/ UNCHANGED Ledger!ledger
  BY <1>4, LedgerSettle DEF Ledger!Next, Recover, history
<1>5. CASE \/ UNCHANGED vars \/ \E c \in Caps : Expire(c)
           \/ \E t \in Threads :
                \/ IssueRead(t) \/ Abort(t) \/ \E c \in Caps : IssueInsert(t, c)
                \/ \E c \in Caps, r \in Requests : Submit(t, c, r)
  <2>1. UNCHANGED <<epoch, receipt, done>>
    BY <1>5 DEF vars, Expire, IssueRead, Abort, IssueInsert, Submit, durable, history
  <2> QED BY <1>1, <2>1
<1> QED BY <1>2, <1>3, <1>4, <1>5 DEF Next

\* The protocol implements the ledger.
THEOREM Refinement == Spec => LedgerSpec
<1>1. Init => Ledger!Init
  <2> SUFFICES ASSUME Init PROVE Ledger!Init
    OBVIOUS
  <2>1. \A c \in Caps : OutcomeOf(c) = "unused" /\ InPlace(c) = {}
    BY DEF Init, OutcomeOf, NoneExists, Pending, NoReceipt, InPlace
  <2>2. \A c \in Caps : Cardinality({i \in Slots : done[c][i] > 0}) = 0
    BY <2>1, FS_EmptySet DEF InPlace
  <2> QED BY <2>1, <2>2 DEF Init, Ledger!Init
<1> QED BY <1>1, LedgerStep, Inductive, PTL DEF Spec, LedgerSpec, Ledger!Spec
=============================================================================
