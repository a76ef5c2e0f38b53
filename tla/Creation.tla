------------------------------ MODULE Creation ------------------------------
(***************************************************************************)
(* Creating a run (`rethlas_start`) under a creation key the client may    *)
(* repeat: a receipt binds the key to one request and one run, files are   *)
(* published exactly, the run's rows are written in one transaction, and   *)
(* the transition to `assess` completes the receipt.                       *)
(*                                                                         *)
(* One owner and one key: receipts of other keys are other rows and other  *)
(* runs.  A request that carries no key gets a fresh one and cannot be     *)
(* repeated.  A file's content is the request it was written for.          *)
(***************************************************************************)
EXTENDS Naturals, FiniteSets

CONSTANTS
  Threads,   \* request handlers
  Requests,  \* what a client may ask for under the key
  Runs,      \* run identities the server may issue
  LastFile,  \* a run's input files are 1..LastFile, in the order they are written
  None       \* no request, no run

ASSUME ConstantAssumption ==
  /\ LastFile \in Nat \ {0}
  /\ None \notin Threads \cup Requests \cup Runs

VARIABLES
  receipt,     \* creation_receipts: the row of the key
  checkpoint,  \* creation_initializations: the request whose rows were written
  run,         \* runs.state
  files,       \* private files of each run
  lock,        \* holder of each run's flock
  job,         \* request handlers
  answers      \* history: runs reported as created

vars == <<receipt, checkpoint, run, files, lock, job, answers>>

Files == 1..LastFile
Receipts == [status : {"none", "pending", "completed"}, request : Requests \cup {None},
             run : Runs \cup {None}]
Jobs == [pc : {"idle", "reserve", "lock", "publish", "prepare", "complete"},
         request : Requests \cup {None}, run : Runs \cup {None}, next : 1..(LastFile + 1)]

NoReceipt == [status |-> "none", request |-> None, run |-> None]
Idle == [pc |-> "idle", request |-> None, run |-> None, next |-> 1]

TypeOK ==
  /\ receipt \in Receipts
  /\ checkpoint \in [Runs -> Requests \cup {None}]
  /\ run \in [Runs -> {"none", "created", "assess", "closed"}]
  /\ files \in [Runs -> [Files -> Requests \cup {None}]]
  /\ lock \in [Runs -> Threads \cup {None}]
  /\ job \in [Threads -> Jobs]
  /\ answers \subseteq Runs
  /\ \A r \in Runs : checkpoint[r] # None <=> run[r] # "none"
  /\ receipt.status = "none" <=> receipt.run = None

Init ==
  /\ receipt = NoReceipt
  /\ checkpoint = [r \in Runs |-> None]
  /\ run = [r \in Runs |-> "none"]
  /\ files = [r \in Runs |-> [f \in Files |-> None]]
  /\ lock = [r \in Runs |-> None]
  /\ job = [t \in Threads |-> Idle]
  /\ answers = {}

-----------------------------------------------------------------------------
At(t, pc) == job[t].pc = pc
Step(t, j) == job' = [job EXCEPT ![t] = j]
Goto(t, pc) == Step(t, [job[t] EXCEPT !.pc = pc])

\* The handler answers or fails, leaving the run's lock.
Leave(t) ==
  /\ Step(t, Idle)
  /\ lock' = [r \in Runs |-> IF lock[r] = t THEN None ELSE lock[r]]

Start(t, q) ==
  /\ At(t, "idle")
  /\ Step(t, [job[t] EXCEPT !.pc = "reserve", !.request = q])
  /\ UNCHANGED <<receipt, checkpoint, run, files, lock, answers>>

\* MUTANTS of Fresh and BoundTo: a receipt that is still pending is taken for an abandoned one; the
\* request is not compared with the one the key was first used for.
FreshIfPending == receipt.status # "completed"
BoundToAny(q) == TRUE

Fresh == receipt.status = "none"
BoundTo(q) == receipt.request = q

\* A run identity nobody has used.
Unused(r) == run[r] = "none" /\ receipt.run # r /\ \A t \in Threads : job[t].run # r

\* reserve_creation: a first use of the key makes the receipt and its
\* initialization record; a repetition finds them.
ReserveNew(t, r) ==
  /\ At(t, "reserve")
  /\ Fresh
  /\ Unused(r)
  /\ receipt' = [status |-> "pending", request |-> job[t].request, run |-> r]
  /\ Step(t, [job[t] EXCEPT !.pc = "lock", !.run = r])
  /\ UNCHANGED <<checkpoint, run, files, lock, answers>>

ReserveAgain(t) ==
  /\ At(t, "reserve")
  /\ ~ Fresh
  /\ IF BoundTo(job[t].request)
     THEN Step(t, [job[t] EXCEPT !.pc = "lock", !.run = receipt.run])
     ELSE Step(t, Idle)
  /\ UNCHANGED <<receipt, checkpoint, run, files, lock, answers>>

\* The receipt is read again under the lock: a repetition that waited for the
\* first attempt to finish answers what it created.
Resume(t) ==
  LET r == job[t].run IN
  /\ At(t, "lock")
  /\ lock[r] = None
  /\ \/ /\ receipt.status = "pending"
        /\ lock' = [lock EXCEPT ![r] = t]
        /\ Goto(t, "publish")
        /\ UNCHANGED answers
     \/ /\ receipt.status = "completed"
        /\ answers' = answers \cup {r}
        /\ Leave(t)
  /\ UNCHANGED <<receipt, checkpoint, run, files>>

\* MUTANT of MayPublish: a file an earlier attempt left is a conflict.
MayPublishFirst(r, f, q) == files[r][f] = None

\* publish(exact): an existing file must hold the same bytes.
MayPublish(r, f, q) == files[r][f] \in {None, q}

Publish(t) ==
  LET r == job[t].run  f == job[t].next IN
  /\ At(t, "publish")
  /\ f \in Files
  /\ MayPublish(r, f, job[t].request)
  /\ files' = [files EXCEPT ![r][f] = job[t].request]
  /\ Step(t, [job[t] EXCEPT !.next = f + 1, !.pc = IF f = LastFile THEN "prepare" ELSE "publish"])
  /\ UNCHANGED <<receipt, checkpoint, run, lock, answers>>

Enrolled(r, q) == [checkpoint EXCEPT ![r] = q]

\* prepare_creation_records: the rows of run, project link and references are
\* written once, together with the digest that says so; later attempts must
\* find them as they were.
Prepare(t) ==
  LET r == job[t].run IN
  /\ At(t, "prepare")
  /\ \/ /\ checkpoint[r] = None
        /\ run' = [run EXCEPT ![r] = "created"]
        /\ checkpoint' = Enrolled(r, job[t].request)
        /\ Goto(t, "complete")
        /\ UNCHANGED lock
     \/ /\ checkpoint[r] = job[t].request
        /\ run[r] = "created"
        /\ Goto(t, "complete")
        /\ UNCHANGED <<run, checkpoint, lock>>
     \/ /\ checkpoint[r] # None
        /\ run[r] # "created"
        /\ Leave(t)
        /\ UNCHANGED <<run, checkpoint>>
  /\ UNCHANGED <<receipt, files, answers>>

\* complete_creation: the transition and the receipt in one transaction; a run
\* that was cancelled in between cannot be started.
Complete(t) ==
  LET r == job[t].run IN
  /\ At(t, "complete")
  /\ \/ /\ run[r] = "created"
        /\ run' = [run EXCEPT ![r] = "assess"]
        /\ receipt' = [receipt EXCEPT !.status = "completed"]
        /\ answers' = answers \cup {r}
     \/ /\ run[r] # "created"
        /\ UNCHANGED <<run, receipt, answers>>
  /\ Leave(t)
  /\ UNCHANGED <<checkpoint, files>>

\* The owner may cancel any run that has a row, one that is being created too.
Cancel(r) ==
  /\ run[r] \in {"created", "assess"}
  /\ run' = [run EXCEPT ![r] = "closed"]
  /\ UNCHANGED <<receipt, checkpoint, files, lock, job, answers>>

\* The handler dies; what was made durable stays.
Crash(t) ==
  /\ ~ At(t, "idle")
  /\ Leave(t)
  /\ UNCHANGED <<receipt, checkpoint, run, files, answers>>

-----------------------------------------------------------------------------
Next ==
  \/ \E t \in Threads :
       \/ \E q \in Requests : Start(t, q)
       \/ \E r \in Runs : ReserveNew(t, r)
       \/ ReserveAgain(t) \/ Resume(t) \/ Publish(t) \/ Prepare(t) \/ Complete(t) \/ Crash(t)
  \/ \E r \in Runs : Cancel(r)

Spec == Init /\ [][Next]_vars

\* The client that first used the key repeats its request, and no step of an
\* attempt is interrupted every time: Publish of each file counts by itself.
Fairness ==
  /\ SF_vars(receipt.request \in Requests /\ \E t \in Threads : Start(t, receipt.request))
  /\ \A q \in Requests : SF_vars(\E t \in Threads : job[t].request = q /\ ReserveAgain(t))
  /\ SF_vars(\E t \in Threads : Resume(t))
  /\ \A f \in Files : SF_vars(\E t \in Threads : job[t].next = f /\ Publish(t))
  /\ SF_vars(\E t \in Threads : Prepare(t))
  /\ SF_vars(\E t \in Threads : Complete(t))
FairSpec == Spec /\ Fairness

-----------------------------------------------------------------------------
(* Properties *)

\* However often and however concurrently a creation is repeated, and wherever
\* an attempt is interrupted, the key makes one run, and every answer names it.
OneRunPerKey ==
  /\ \A r \in Runs : run[r] # "none" => r = receipt.run
  /\ answers \subseteq {receipt.run}

\* A run that can be worked on has all its files and rows, all from the one
\* request its key is bound to, although attempts may have been interrupted
\* between any two of them.
StartedIsWhole ==
  \A r \in Runs : run[r] = "assess" \/ r \in answers =>
    /\ receipt.status = "completed"
    /\ checkpoint[r] = receipt.request
    /\ \A f \in Files : files[r][f] = receipt.request

\* However creations of one key race and are interrupted, there is one run, and
\* whoever works on it or was told of it has it whole.
CreationIsSound == OneRunPerKey /\ StartedIsWhole

\* A creation whose client repeats it is completed, unless its run is
\* cancelled before it starts: then no repetition can complete it.
CreationSettles ==
  receipt.status = "pending" ~>
    (receipt.status = "completed" \/ \E r \in Runs : run[r] = "closed")
=============================================================================
