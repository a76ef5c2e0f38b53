----------------------------- MODULE Submission -----------------------------
(***************************************************************************)
(* The durable submission protocol of one workflow run: how `rethlas_step` *)
(* turns a capability, a list of logical writes and a commit action into   *)
(* private files, database rows and at most one state transition, and how  *)
(* an interrupted submission is reconciled.                                *)
(*                                                                         *)
(* Threads are request handlers of the threaded server.  A thread may die  *)
(* at any step (Abort): a process crash, an exception of a category that   *)
(* `step` re-raises, or an I/O error; its flock is released and whatever   *)
(* it had made durable stays.  Every action is one SQLite transaction, one *)
(* published file, or one thread-local step that reads nothing shared.     *)
(*                                                                         *)
(* File contents are abstracted to version numbers: an append or a         *)
(* replacement by new bytes is a new version, a replacement by the same    *)
(* bytes keeps it.                                                         *)
(***************************************************************************)
EXTENDS Integers, Sequences, FiniteSets

CONSTANTS
  Threads,     \* request handlers
  Caps,        \* capability tokens the server can issue
  Payloads,    \* commit payloads
  Requests,    \* request bodies: a payload and an ordered list of writes
  MaxWrites,   \* bound on the writes of one request (65536 in the code)
  MaxEpoch,    \* bound on the run's epoch
  None         \* no thread, no capability, no request

WriteKinds  == {"memory", "product", "same", "db"}
Files       == {"memory", "product"}
Slots       == 1..MaxWrites
TaskStages  == {"atomic", "restartable", "screening"}
Stages      == TaskStages \cup {"mechanical", "closed"}
LockedPcs   == {"write", "publish", "accept", "prepare", "enroll",
                "sidecar", "product", "commit"}
Pcs         == LockedPcs \cup {"idle", "issue", "reserve", "activate", "retire"}

ASSUME ConstantAssumption ==
  /\ MaxWrites \in Nat
  /\ MaxEpoch \in Nat
  /\ Requests \subseteq [payload : Payloads, writes : Seq(WriteKinds)]
  /\ \A r \in Requests : Len(r.writes) <= MaxWrites
  /\ None \notin Threads \cup Caps \cup Requests

VARIABLES
  epoch,      \* runs.epoch
  stage,      \* what kind of work runs.state stands for
  cap,        \* capabilities: registry status and the epoch it was issued for
  expired,    \* capabilities whose expires_at has passed
  receipt,    \* step_receipts
  check,      \* step_checkpoints
  journal,    \* step_write_journals
  files,      \* versions of the private files of the run
  sidecars,   \* debug/state/action-*.json: evidence of restartable actions
  lock,       \* holder of the run's flock
  job,        \* request handlers
  done,       \* history: times write i of capability c took effect
  advanced,   \* history: transitions capability c caused
  installed   \* history: times an action product was published in an epoch

durable == <<epoch, stage, cap, receipt, check, journal, files, sidecars>>
history == <<done, advanced, installed>>
vars    == <<durable, expired, lock, job, history>>

Epochs == 0..MaxEpoch

NoReceipt == [status |-> "none", req |-> None, disposition |-> "none",
              writes |-> 0, complete |-> FALSE]
NoCheck   == [phase |-> "none", accepted |-> 0, enrolled |-> FALSE]
NoMarker  == [kind |-> "none", file |-> "memory", before |-> 0, after |-> 0]
Reservation(r) == [status |-> "pending", req |-> r, disposition |-> "none",
                   writes |-> 0, complete |-> FALSE]
Between   == [NoMarker EXCEPT !.kind = "between"]
Job(pc, c, r, e) == [pc |-> pc, cap |-> c, req |-> r, out |-> "move", epoch |-> e]
Idle      == Job("idle", None, None, 0)

Rows        == [status : {"none", "live", "revoked"}, epoch : Epochs]
Receipts    == [status : {"none", "pending", "completed"}, req : Requests \cup {None},
                disposition : {"none", "applied", "corrected"},
                writes : Nat, complete : BOOLEAN]
Checkpoints == [phase : {"none", "prepared", "running", "commit_ready"},
                accepted : Nat, enrolled : BOOLEAN]
Markers     == [kind : {"none", "between", "file", "restartable"},
                file : Files, before : Nat, after : Nat]
Sidecars    == [epoch : Epochs, payload : Payloads, exec : Caps, before : Nat, after : Nat]
Jobs        == [pc : Pcs, cap : Caps \cup {None}, req : Requests \cup {None},
                out : {"move", "partial"}, epoch : Epochs]

TypeOK ==
  /\ epoch \in Epochs
  /\ stage \in Stages
  /\ cap \in [Caps -> Rows]
  /\ expired \subseteq Caps
  /\ receipt \in [Caps -> Receipts]
  /\ check \in [Caps -> Checkpoints]
  /\ journal \in [Caps -> Markers]
  /\ files \in [Files -> Nat]
  /\ sidecars \subseteq Sidecars
  /\ lock \in Threads \cup {None}
  /\ job \in [Threads -> Jobs]
  /\ done \in [Caps -> [Slots -> Nat]]
  /\ advanced \in [Caps -> Nat]
  /\ installed \in [Epochs -> Nat]

Init ==
  /\ epoch = 0                   \* the epoch the run is in when it is looked at first
  /\ stage \in TaskStages \cup {"mechanical"}
  /\ cap = [c \in Caps |-> [status |-> "none", epoch |-> 0]]
  /\ expired = {}
  /\ receipt = [c \in Caps |-> NoReceipt]
  /\ check = [c \in Caps |-> NoCheck]
  /\ journal = [c \in Caps |-> NoMarker]
  /\ files = [f \in Files |-> 0]
  /\ sidecars = {}
  /\ lock = None
  /\ job = [t \in Threads |-> Idle]
  /\ done = [c \in Caps |-> [i \in Slots |-> 0]]
  /\ advanced = [c \in Caps |-> 0]
  /\ installed = [e \in Epochs |-> 0]

-----------------------------------------------------------------------------
(* Helpers *)

Pending(c)   == receipt[c].status = "pending"
AnyPending   == \E c \in Caps : Pending(c)
NoneExists(c) == receipt[c].status = "none"

\* MUTANT of Authorized: the epoch comparison is forgotten.
AuthorizedAnyEpoch(c) == cap[c].status = "live" /\ c \notin expired /\ stage \in TaskStages

\* recheck_authority: the registry row, the run and its domain still agree.
Authorized(c) ==
  /\ cap[c].status = "live"
  /\ c \notin expired
  /\ cap[c].epoch = epoch
  /\ stage \in TaskStages

At(t, pc)  == job[t].pc = pc
Goto(t, pc) == job' = [job EXCEPT ![t].pc = pc]
Quit(t)    == job' = [job EXCEPT ![t] = Idle]
Release(t) == lock' = IF lock = t THEN None ELSE lock

\* finish_on: the one write that settles a receipt.
Settle(c, disposition, n, complete) ==
  receipt' = [receipt EXCEPT ![c] = [status |-> "completed", req |-> @.req,
                                     disposition |-> disposition,
                                     writes |-> n, complete |-> complete]]

\* The write a thread is about to perform.
Slot(t)     == check[job[t].cap].accepted + 1
MoreWrites(t) == Slot(t) <= Len(job[t].req.writes)
Kind(t)     == job[t].req.writes[Slot(t)]
FileOf(k)   == IF k = "product" THEN "product" ELSE "memory"

CountEffect(t) ==
  done' = [done EXCEPT ![job[t].cap][Slot(t)] = @ + 1]

\* Evidence left by an earlier attempt at this action in this epoch.
Scope      == {s \in sidecars : s.epoch = epoch}
Prior(p)   == {s \in Scope : s.payload = p}
Applied(c) == receipt[c].status = "completed" /\ receipt[c].disposition = "applied"

\* The product versions this action goes between: those of its prior evidence
\* or, for a first attempt, the current one and its successor (no file effect
\* for an incomplete screening).
Effect(p, out) ==
  IF Prior(p) # {} THEN CHOOSE s \in Prior(p) : TRUE
  ELSE [before |-> files["product"],
        after |-> IF out = "partial" THEN files["product"] ELSE files["product"] + 1]

\* MUTANT of EvidenceAgrees: a changed payload adopts retained effects.
EvidenceIgnored(p, out) == TRUE

\* PreparedAction and apply_files before enrolment: evidence of an unapplied
\* attempt binds the payload, and retained bytes must be one of its images.
EvidenceAgrees(p, out) ==
  /\ \A s \in Scope : s.payload # p => Applied(s.exec)
  /\ \A s \in Prior(p) :
       /\ (out = "partial") <=> (s.before = s.after)
       /\ out = "move" => files["product"] \in {s.before, s.after}

-----------------------------------------------------------------------------
(* Transitions: every one bumps the epoch and revokes the run's capabilities *)

TransitionOn(next) ==
  /\ epoch < MaxEpoch            \* bound
  /\ epoch' = epoch + 1
  /\ stage' = next
  /\ cap' = [c \in Caps |-> IF cap[c].status = "live"
                            THEN [cap[c] EXCEPT !.status = "revoked"] ELSE cap[c]]

\* MUTANT of Untracked: the pending fence is dropped.
UntrackedUnfenced(next) ==
  /\ TransitionOn(next)
  /\ UNCHANGED <<expired, receipt, check, journal, files, sidecars, lock, job, history>>

\* LaTeX gate, branch preparation, finalization, cancellation: a transition
\* that carries no execution id is refused while a submission is pending.
Untracked(next) ==
  /\ ~AnyPending
  /\ TransitionOn(next)
  /\ UNCHANGED <<expired, receipt, check, journal, files, sidecars, lock, job, history>>

Mechanical == stage = "mechanical" /\ \E next \in Stages : Untracked(next)

Cancel == stage # "closed" /\ Untracked("closed")

\* time passes an expires_at.
Expire(c) ==
  /\ cap[c].status # "none"
  /\ expired' = expired \cup {c}
  /\ UNCHANGED <<durable, lock, job, history>>

-----------------------------------------------------------------------------
(* Issuing a task: next_task and CapabilityAuthority.issue *)

IssueRead(t) ==
  /\ At(t, "idle")
  /\ ~AnyPending
  /\ stage \in TaskStages
  /\ epoch < MaxEpoch            \* bound
  /\ job' = [job EXCEPT ![t] = Job("issue", None, None, epoch)]
  /\ UNCHANGED <<durable, expired, lock, history>>

\* The row is inserted for the epoch read before, even if the run moved since.
IssueInsert(t, c) ==
  /\ At(t, "issue")
  /\ cap[c].status = "none"
  /\ cap' = [cap EXCEPT ![c] = [status |-> "live", epoch |-> job[t].epoch]]
  /\ Quit(t)
  /\ UNCHANGED <<epoch, stage, expired, receipt, check, journal, files, sidecars, lock, history>>

-----------------------------------------------------------------------------
(* step: lookup, reservation, activation *)

\* No receipt is found for the token and it validates: new work.
Submit(t, c, r) ==
  /\ At(t, "idle")
  /\ NoneExists(c)
  /\ Authorized(c)
  /\ job' = [job EXCEPT ![t] = Job("reserve", c, r, 0)]
  /\ UNCHANGED <<durable, expired, lock, history>>

MayReserveAgain(c) == ~AnyPending /\ Authorized(c)

MayReserve(c) == NoneExists(c) /\ ~AnyPending /\ Authorized(c)

Reserve(t) ==
  LET c == job[t].cap IN
  /\ At(t, "reserve")
  /\ MayReserve(c)
  /\ receipt' = [receipt EXCEPT ![c] = Reservation(job[t].req)]
  /\ check' = [check EXCEPT ![c] = [NoCheck EXCEPT !.phase = "prepared"]]
  /\ Goto(t, "activate")
  /\ UNCHANGED <<epoch, stage, cap, expired, journal, files, sidecars, lock, history>>

ReserveRefused(t) ==
  /\ At(t, "reserve")
  /\ ~MayReserve(job[t].cap)
  /\ Quit(t)
  /\ UNCHANGED <<durable, expired, lock, history>>

\* MUTANT of MayActivate: the reservation is not looked at again.
MayActivateStale(c) == Authorized(c)

MayActivate(c) == Pending(c) /\ check[c].phase = "prepared" /\ Authorized(c)

\* The flock is taken and the reservation becomes an execution.
Activate(t) ==
  LET c == job[t].cap IN
  /\ At(t, "activate")
  /\ lock = None
  /\ MayActivate(c)
  /\ lock' = t
  /\ check' = [check EXCEPT ![c].phase = "running"]
  /\ journal' = [journal EXCEPT ![c] = Between]
  /\ Goto(t, "write")
  /\ UNCHANGED <<epoch, stage, cap, expired, receipt, files, sidecars, history>>

ActivateRefused(t) ==
  /\ At(t, "activate")
  /\ lock = None
  /\ ~MayActivate(job[t].cap)
  /\ Quit(t)
  /\ UNCHANGED <<durable, expired, lock, history>>

-----------------------------------------------------------------------------
(* Caller writes *)

\* Enrol a file effect: the images of the file before and after it.
BeginWrite(t) ==
  LET c == job[t].cap  f == FileOf(Kind(t)) IN
  /\ At(t, "write")
  /\ MoreWrites(t)
  /\ Kind(t) # "db"
  /\ Authorized(c)
  /\ journal' = [journal EXCEPT ![c] =
       [kind |-> "file", file |-> f, before |-> files[f],
        after |-> IF Kind(t) = "same" THEN files[f] ELSE files[f] + 1]]
  /\ Goto(t, "publish")
  /\ UNCHANGED <<epoch, stage, cap, expired, receipt, check, files, sidecars, lock, history>>

\* PreparedFiles.apply: replace the file if it still is the enrolled image.
PublishWrite(t) ==
  LET m == journal[job[t].cap] IN
  /\ At(t, "publish")
  /\ files[m.file] = m.before
  /\ files' = [files EXCEPT ![m.file] = m.after]
  /\ CountEffect(t)
  /\ Goto(t, "accept")
  /\ UNCHANGED <<epoch, stage, cap, expired, receipt, check, journal, sidecars, lock,
                 advanced, installed>>

\* checkpoint_submission_write
AcceptWrite(t) ==
  LET c == job[t].cap IN
  /\ At(t, "accept")
  /\ check' = [check EXCEPT ![c].accepted = @ + 1]
  /\ journal' = [journal EXCEPT ![c] = Between]
  /\ Goto(t, "write")
  /\ UNCHANGED <<epoch, stage, cap, expired, receipt, files, sidecars, lock, history>>

\* proof_manifest and reference_audit rows commit with their checkpoint.
DatabaseWrite(t) ==
  LET c == job[t].cap IN
  /\ At(t, "write")
  /\ MoreWrites(t)
  /\ Kind(t) = "db"
  /\ Authorized(c)
  /\ check' = [check EXCEPT ![c].accepted = @ + 1]
  /\ CountEffect(t)
  /\ UNCHANGED <<epoch, stage, cap, expired, receipt, journal, files, sidecars, lock, job,
                 advanced, installed>>

\* A rejected write or commit between effects settles the receipt as a correction.
Correct(t) ==
  LET c == job[t].cap IN
  /\ journal[c].kind = "between"
  /\ Settle(c, "corrected", check[c].accepted, FALSE)
  /\ Goto(t, "retire")
  /\ UNCHANGED <<epoch, stage, cap, expired, check, journal, files, sidecars, lock, history>>

\* The content of a write is refused: validation, conflict, role access.
RejectWrite(t) == At(t, "write") /\ MoreWrites(t) /\ Correct(t)

-----------------------------------------------------------------------------
(* The commit action *)

ArmCommit(t) ==
  LET c == job[t].cap IN
  /\ At(t, "write")
  /\ ~MoreWrites(t)
  /\ check' = [check EXCEPT ![c].phase = "commit_ready"]
  /\ Goto(t, "prepare")
  /\ UNCHANGED <<epoch, stage, cap, expired, receipt, journal, files, sidecars, lock, history>>

\* The action's facts are computed without effects; an incomplete direct
\* screening is the one action that does not end the task.
Prepare(t, out) ==
  /\ At(t, "prepare")
  /\ out = "partial" => stage = "screening"
  /\ EvidenceAgrees(job[t].req.payload, out)
  /\ job' = [job EXCEPT ![t].pc = "enroll", ![t].out = out]
  /\ UNCHANGED <<durable, expired, lock, history>>

\* Missing records, invalid payload, or disagreeing action evidence.
RejectPrepare(t) == At(t, "prepare") /\ Correct(t)

EnrollAtomic(t) ==
  LET c == job[t].cap IN
  /\ At(t, "enroll")
  /\ stage = "atomic"
  /\ Authorized(c)
  /\ check' = [check EXCEPT ![c].enrolled = TRUE]
  /\ Goto(t, "commit")
  /\ UNCHANGED <<epoch, stage, cap, expired, receipt, journal, files, sidecars, lock, history>>

EnrollRestartable(t) ==
  LET c == job[t].cap IN
  /\ At(t, "enroll")
  /\ stage \in {"restartable", "screening"}
  /\ Authorized(c)
  /\ journal' = [journal EXCEPT ![c] = [NoMarker EXCEPT !.kind = "restartable"]]
  /\ Goto(t, "sidecar")
  /\ UNCHANGED <<epoch, stage, cap, expired, receipt, check, files, sidecars, lock, history>>

\* Authority lapsed before enrolment: still between effects.
RejectEnroll(t) == At(t, "enroll") /\ ~Authorized(job[t].cap) /\ Correct(t)

\* The sidecar keeps the execution and images of the first attempt.
PublishSidecar(t) ==
  LET p == job[t].req.payload  e == Effect(p, job[t].out) IN
  /\ At(t, "sidecar")
  /\ sidecars' = IF Prior(p) # {} THEN sidecars
                 ELSE sidecars \cup {[epoch |-> epoch, payload |-> p, exec |-> job[t].cap,
                                      before |-> e.before, after |-> e.after]}
  /\ Goto(t, "product")
  /\ UNCHANGED <<epoch, stage, cap, expired, receipt, check, journal, files, lock, history>>

\* An effect that is already installed is not installed again.
PublishProduct(t) ==
  LET e == Effect(job[t].req.payload, job[t].out)
      install == e.before # e.after /\ files["product"] # e.after IN
  /\ At(t, "product")
  /\ install => files["product"] = e.before
  /\ files' = IF install THEN [files EXCEPT !["product"] = e.after] ELSE files
  /\ installed' = IF install THEN [installed EXCEPT ![epoch] = @ + 1] ELSE installed
  /\ Goto(t, "commit")
  /\ UNCHANGED <<epoch, stage, cap, expired, receipt, check, journal, sidecars, lock,
                 done, advanced>>

\* check_task: only a fully enrolled execution may settle with its effects.
Committable(c) ==
  /\ Authorized(c)
  /\ Pending(c)
  /\ check[c].phase = "commit_ready"
  /\ check[c].accepted = Len(receipt[c].req.writes)
  /\ IF stage = "atomic" THEN journal[c].kind = "between"
                         ELSE journal[c].kind = "restartable"

\* MUTANT of CommitTransition: the receipt is left to a later transaction.
CommitUnsettled(t, next) ==
  LET c == job[t].cap IN
  /\ At(t, "commit") /\ job[t].out = "move"
  /\ Committable(c)
  /\ TransitionOn(next)
  /\ journal' = [journal EXCEPT ![c] = Between]
  /\ advanced' = [advanced EXCEPT ![c] = @ + 1]
  /\ Goto(t, "retire")
  /\ UNCHANGED <<expired, receipt, check, files, sidecars, lock, done, installed>>

\* transition_task: facts, sealing, transition and receipt in one transaction.
CommitTransition(t, next) ==
  LET c == job[t].cap IN
  /\ At(t, "commit") /\ job[t].out = "move"
  /\ Committable(c)
  /\ TransitionOn(next)
  /\ journal' = [journal EXCEPT ![c] = Between]
  /\ Settle(c, "applied", check[c].accepted, TRUE)
  /\ advanced' = [advanced EXCEPT ![c] = @ + 1]
  /\ Goto(t, "retire")
  /\ UNCHANGED <<expired, check, files, sidecars, lock, done, installed>>

\* complete_partial_task: accept incomplete screening, keep the task open.
CommitPartial(t) ==
  LET c == job[t].cap IN
  /\ At(t, "commit") /\ job[t].out = "partial"
  /\ Committable(c)
  /\ journal' = [journal EXCEPT ![c] = Between]
  /\ Settle(c, "applied", check[c].accepted, FALSE)
  /\ Goto(t, "retire")
  /\ UNCHANGED <<epoch, stage, cap, expired, check, files, sidecars, lock, history>>

\* Authority lapsed in the last step: only an atomic action is between effects.
RejectCommit(t) == At(t, "commit") /\ ~Authorized(job[t].cap) /\ Correct(t)

\* A step that finds its precondition gone after an effect was enrolled.
StepFails(t) ==
  LET m == journal[job[t].cap]  e == Effect(job[t].req.payload, job[t].out) IN
  CASE At(t, "publish") -> files[m.file] # m.before
    [] At(t, "product") -> e.before # e.after /\ files["product"] \notin {e.before, e.after}
    [] At(t, "commit")  -> ~Authorized(job[t].cap) /\ m.kind = "restartable"
    [] OTHER -> FALSE

\* No correction can be recorded over an enrolled effect: RESULT_UNKNOWN, and
\* the receipt stays pending.
RaiseUnknown(t) ==
  /\ StepFails(t)
  /\ Release(t)
  /\ Quit(t)
  /\ UNCHANGED <<durable, expired, history>>

\* Revoke the consumed capability, leave the lock.
Retire(t) ==
  /\ At(t, "retire")
  /\ cap' = [cap EXCEPT ![job[t].cap].status = "revoked"]
  /\ Release(t)
  /\ Quit(t)
  /\ UNCHANGED <<epoch, stage, expired, receipt, check, journal, files, sidecars, history>>

-----------------------------------------------------------------------------
(* Interruption and reconciliation *)

\* MUTANT of Abort: a lock file survives its owner.
AbortKeepingLock(t) ==
  /\ ~At(t, "idle")
  /\ Quit(t)
  /\ UNCHANGED <<durable, expired, lock, history>>

\* The handler dies: its flock is released, its volatile state is gone.
Abort(t) ==
  /\ ~At(t, "idle")
  /\ Release(t)
  /\ Quit(t)
  /\ UNCHANGED <<durable, expired, history>>

\* Evidence decides whether an interrupted submission can be settled.
FileDecides(m) == m.before # m.after /\ files[m.file] \in {m.before, m.after}

\* MUTANT of Reconcilable: restartable actions are not recognised.
ReconcilableCallerOnly(c) ==
  LET k == check[c]  m == journal[c] IN
  \/ k.phase = "prepared"
  \/ k.phase = "running" /\ m.kind = "between"
  \/ k.phase = "running" /\ m.kind = "file" /\ FileDecides(m)
  \/ k.phase = "commit_ready" /\ k.enrolled /\ m.kind = "between"

Reconcilable(c) ==
  LET k == check[c]  m == journal[c] IN
  \/ k.phase = "prepared"
  \/ k.phase = "running" /\ m.kind = "between"
  \/ k.phase = "running" /\ m.kind = "file" /\ FileDecides(m)
  \/ k.phase = "commit_ready" /\ k.enrolled /\ m.kind = "between"
  \/ k.phase = "commit_ready" /\ ~k.enrolled /\ m.kind = "restartable"

\* MUTANT of Retained: the file is not looked at.
RetainedUnobserved(c) == check[c].accepted

\* Writes the correction acknowledges: a published file counts as one more.
Retained(c) ==
  LET m == journal[c] IN
  IF check[c].phase = "running" /\ m.kind = "file" /\ files[m.file] = m.after
  THEN check[c].accepted + 1
  ELSE check[c].accepted

\* MUTANT of Recover: an enrolled action is guessed successful.
RecoverAsApplied(t, c) ==
  /\ At(t, "idle")
  /\ lock = None
  /\ Pending(c)
  /\ Reconcilable(c)
  /\ Settle(c, "applied", Retained(c), TRUE)
  /\ job' = [job EXCEPT ![t] = Job("retire", c, None, 0)]
  /\ UNCHANGED <<epoch, stage, cap, expired, check, journal, files, sidecars, lock, history>>

\* recover_only under the run's flock: settle as a correction, execute nothing.
Recover(t, c) ==
  /\ At(t, "idle")
  /\ lock = None
  /\ Pending(c)
  /\ Reconcilable(c)
  /\ Settle(c, "corrected", Retained(c), FALSE)
  /\ job' = [job EXCEPT ![t] = Job("retire", c, None, 0)]
  /\ UNCHANGED <<epoch, stage, cap, expired, check, journal, files, sidecars, lock, history>>

-----------------------------------------------------------------------------
(* The specification *)

Work(t) ==
  \/ Reserve(t) \/ ReserveRefused(t) \/ Activate(t) \/ ActivateRefused(t)
  \/ BeginWrite(t) \/ PublishWrite(t) \/ AcceptWrite(t) \/ DatabaseWrite(t)
  \/ RejectWrite(t) \/ ArmCommit(t)
  \/ \E out \in {"move", "partial"} : Prepare(t, out)
  \/ RejectPrepare(t) \/ EnrollAtomic(t) \/ EnrollRestartable(t) \/ RejectEnroll(t)
  \/ PublishSidecar(t) \/ PublishProduct(t)
  \/ \E next \in Stages : CommitTransition(t, next)
  \/ CommitPartial(t) \/ RejectCommit(t) \/ RaiseUnknown(t) \/ Retire(t)

Next ==
  \/ Mechanical \/ Cancel
  \/ \E c \in Caps : Expire(c)
  \/ \E t \in Threads :
       \/ IssueRead(t)
       \/ \E c \in Caps : IssueInsert(t, c)
       \/ \E c \in Caps, r \in Requests : Submit(t, c, r)
       \/ Work(t)
       \/ Abort(t)
       \/ \E c \in Caps : Recover(t, c)

Spec == Init /\ [][Next]_vars

(* Handlers that are not interrupted run on, and the client repeats its      *)
(* recover_only call until one is not interrupted.                           *)
Fairness ==
  /\ \A t \in Threads : WF_vars(Work(t))
  /\ \A c \in Caps : SF_vars(\E t \in Threads : Recover(t, c))
FairSpec == Spec /\ Fairness

-----------------------------------------------------------------------------
(* Properties *)

\* A run has at most one submission in flight (the reservation fence).
OnePending == \A c, d \in Caps : Pending(c) /\ Pending(d) => c = d

\* While a submission is in flight the run does not move under it: no
\* cancellation, mechanical step or other submission changes its epoch.
PendingIsCurrent == \A c \in Caps : Pending(c) => cap[c].epoch = epoch

\* No write of a submission ever takes effect twice, whatever the client
\* replays and wherever the handler dies.
EffectOnce == \A c \in Caps, i \in Slots : done[c][i] <= 1

\* A settled receipt tells the client exactly which prefix of its writes is in
\* place: the client is told to omit that prefix and nothing else.
ReceiptCountExact ==
  \A c \in Caps : receipt[c].status = "completed" =>
    \A i \in Slots : done[c][i] = IF i <= receipt[c].writes THEN 1 ELSE 0

\* A complete applied receipt stands for exactly one transition and every other
\* submission for none.
AppliedMeansMoved ==
  \A c \in Caps :
    advanced[c] = IF Applied(c) /\ receipt[c].complete THEN 1 ELSE 0

\* A restartable action publishes its product at most once per task, although
\* it may be interrupted and resubmitted under new capabilities.
ProductOnce == \A e \in Epochs : installed[e] <= 1

\* Once settled, a submission never has another effect and its receipt never
\* changes: a handler that outlives a recovery cannot act.
SettledIsFinal ==
  [][\A c \in Caps : receipt[c].status = "completed" =>
       /\ receipt'[c] = receipt[c]
       /\ done'[c] = done[c]
       /\ advanced'[c] = advanced[c]]_vars

\* Nothing is written for a capability of a past epoch, or of a closed run.
EffectsInOwnEpoch ==
  [][\A c \in Caps : done'[c] # done[c] => cap[c].epoch = epoch /\ stage # "closed"]_vars

\* Where an interrupted submission cannot be settled: the gap between arming
\* the commit and enrolling its action, and a file replaced by equal bytes.
Ambiguous(c) ==
  \/ check[c].phase = "commit_ready" /\ ~check[c].enrolled /\ journal[c].kind = "between"
  \/ journal[c].kind = "file" /\ journal[c].before = journal[c].after

\* Every interruption outside those two windows leaves evidence recovery can use.
InterruptedIsRecoverable ==
  \A c \in Caps : Pending(c) => Reconcilable(c) \/ Ambiguous(c)

\* An in-flight submission is eventually settled unless it stops in one of
\* those windows; there it blocks the run for good.
PendingSettles ==
  \A c \in Caps : Pending(c) ~> (~Pending(c) \/ Ambiguous(c))

-----------------------------------------------------------------------------
(* The inductive invariant: what makes the properties above hold *)

\* A handler past its first step knows its capability, and its request until
\* the receipt is settled.
JobBound ==
  \A t \in Threads :
    /\ job[t].pc \notin {"idle", "issue"} => job[t].cap \in Caps
    /\ job[t].pc \notin {"idle", "issue", "retire"} => job[t].req \in Requests

\* A capability with a receipt was issued.
ReceiptsIssued == \A c \in Caps : ~NoneExists(c) => cap[c].status # "none"

\* A handler between two locked steps owns the flock and the only open receipt.
Owns(t) ==
  job[t].pc \in LockedPcs =>
    /\ lock = t
    /\ Pending(job[t].cap)
    /\ receipt[job[t].cap].req = job[t].req

\* A handler that waits for the flock made the reservation it will activate.
Reserved(t) ==
  At(t, "activate") => ~NoneExists(job[t].cap) /\ receipt[job[t].cap].req = job[t].req

\* Which evidence exists at each step of a handler.
Evidence(t) ==
  LET k == check[job[t].cap]  m == journal[job[t].cap] IN
  /\ At(t, "write") => k.phase = "running" /\ m.kind = "between"
  /\ At(t, "publish") => m.kind = "file" /\ done[job[t].cap][Slot(t)] = 0
                         /\ files[m.file] = m.before
  /\ At(t, "accept") => m.kind = "file" /\ done[job[t].cap][Slot(t)] = 1
  /\ job[t].pc \in {"prepare", "enroll"} =>
       k.phase = "commit_ready" /\ m.kind = "between" /\ ~k.enrolled
  /\ job[t].pc \in {"sidecar", "product", "commit"} => k.phase = "commit_ready"

\* The phases of an open receipt and the marker each one leaves.
OpenEvidence(c) ==
  LET k == check[c]  m == journal[c] IN
  /\ k.phase \in {"prepared", "running", "commit_ready"}
  /\ k.phase = "prepared" => m.kind = "none" /\ ~k.enrolled
  /\ k.phase = "running" => m.kind \in {"between", "file"} /\ ~k.enrolled
  /\ k.phase = "commit_ready" => m.kind \in {"between", "restartable"}
  /\ m.kind = "restartable" => ~k.enrolled
  /\ m.kind = "file" => k.accepted + 1 \in Slots
  /\ m.kind = "file" /\ m.before # m.after => files[m.file] \in {m.before, m.after}

\* Accepted writes took effect once; the next one did if the file shows it.
OpenProgress(c) ==
  LET k == check[c]  m == journal[c] IN
  \A i \in Slots :
    /\ i <= k.accepted => done[c][i] = 1
    /\ i > k.accepted + 1 => done[c][i] = 0
    /\ i = k.accepted + 1 =>
         IF m.kind # "file" THEN done[c][i] = 0
         ELSE IF m.before # m.after
              THEN done[c][i] = IF files[m.file] = m.after THEN 1 ELSE 0
              ELSE done[c][i] \in {0, 1}

\* What is on record for a capability agrees with what happened.
Accounted(c) ==
  /\ NoneExists(c) => /\ \A i \in Slots : done[c][i] = 0
                      /\ advanced[c] = 0
                      /\ journal[c].kind = "none"
  /\ Pending(c) => OpenEvidence(c) /\ OpenProgress(c) /\ advanced[c] = 0
  /\ receipt[c].status = "completed" =>
       /\ \A i \in Slots : done[c][i] = IF i <= receipt[c].writes THEN 1 ELSE 0
       /\ advanced[c] = IF Applied(c) /\ receipt[c].complete THEN 1 ELSE 0

IndInv ==
  /\ TypeOK
  /\ JobBound
  /\ OnePending
  /\ PendingIsCurrent
  /\ ReceiptsIssued
  /\ \A t \in Threads : Reserved(t) /\ Owns(t) /\ Evidence(t)
  /\ \A c \in Caps : Accounted(c)

-----------------------------------------------------------------------------
(* Refinement *)

OutcomeOf(c) ==
  IF NoneExists(c) THEN "unused"
  ELSE IF Pending(c) THEN "open"
  ELSE IF receipt[c].disposition = "corrected" THEN "corrected"
  ELSE IF receipt[c].complete THEN "moved" ELSE "partial"

Ledger == INSTANCE SubmissionLedger WITH
  version <- epoch,
  outcome <- [c \in Caps |-> OutcomeOf(c)],
  effects <- [c \in Caps |-> Cardinality({i \in Slots : done[c][i] > 0})]

\* The protocol implements the ledger: reservations, effects, transitions and
\* settlements happen in the ledger's order and nowhere else.
LedgerSpec == Ledger!Spec
=============================================================================
