-------------------------- MODULE Creation_proofs --------------------------
(***************************************************************************)
(* A creation key makes one run, and a run that may be worked on is whole, *)
(* for any number of handlers, requests, runs and input files.             *)
(*                                                                         *)
(* Neither property is inductive: that a repetition finishes what another  *)
(* attempt began rests on who holds the lock, on the order of the steps of *)
(* an attempt and on files never being replaced, which Bound, Held and     *)
(* Progress record.                                                        *)
(***************************************************************************)
EXTENDS Creation, TLAPS

Types ==
  /\ receipt \in Receipts
  /\ checkpoint \in [Runs -> Requests \cup {None}]
  /\ run \in [Runs -> {"none", "created", "assess", "closed"}]
  /\ files \in [Runs -> [Files -> Requests \cup {None}]]
  /\ lock \in [Runs -> Threads \cup {None}]
  /\ job \in [Threads -> Jobs]
  /\ answers \subseteq Runs

\* What is durable belongs to the run of the receipt and to its request.
Bound ==
  /\ receipt.status = "none" <=> receipt.run = None
  /\ receipt.status # "none" => receipt.request # None
  /\ \A r \in Runs : checkpoint[r] # None <=> run[r] # "none"
  /\ \A r \in Runs : run[r] # "none" => r = receipt.run /\ checkpoint[r] = receipt.request
  /\ \A r \in Runs, f \in Files : files[r][f] # None => r = receipt.run /\ files[r][f] = receipt.request

\* The steps after `lock` are taken by its holder, while the receipt is pending.
Working == {"publish", "prepare", "complete"}
Held ==
  \A t \in Threads :
    /\ job[t].pc # "idle" => job[t].request # None
    /\ job[t].pc \in {"lock"} \cup Working => job[t].run = receipt.run /\ job[t].run # None
                                            /\ job[t].request = receipt.request
    /\ job[t].pc \in Working => lock[job[t].run] = t /\ receipt.status = "pending"

\* A file before the next one, a row after the last file, the receipt after the rows.
Whole(r) == \A f \in Files : files[r][f] = receipt.request
Progress ==
  /\ \A t \in Threads : job[t].pc \in {"idle", "reserve", "lock"} => job[t].next = 1
  /\ \A t \in Threads : job[t].pc = "publish" =>
       \A f \in Files : f < job[t].next => files[job[t].run][f] = receipt.request
  /\ \A t \in Threads : job[t].pc \in {"prepare", "complete"} => Whole(job[t].run)
  /\ \A t \in Threads : job[t].pc = "complete" => checkpoint[job[t].run] = receipt.request
  /\ \A r \in Runs : checkpoint[r] # None => Whole(r)
  /\ \A r \in Runs : run[r] = "assess" \/ r \in answers =>
       receipt.status = "completed" /\ r = receipt.run
  /\ receipt.status = "completed" => checkpoint[receipt.run] = receipt.request

IndInv == Types /\ Bound /\ Held /\ Progress

-----------------------------------------------------------------------------
LEMMA Establish == Init => IndInv
<1> SUFFICES ASSUME Init PROVE IndInv
  OBVIOUS
<1> USE ConstantAssumption
<1>1. Types
  BY DEF Init, Types, Receipts, NoReceipt, Jobs, Idle, Files
<1>2. Bound
  BY DEF Init, Bound, NoReceipt
<1>3. Held
  BY DEF Init, Held, Idle, Working
<1>4. Progress
  BY DEF Init, Progress, Idle, NoReceipt
<1> QED BY <1>1, <1>2, <1>3, <1>4 DEF IndInv

\* What a step of one handler leaves of the others.
LEMMA Stepped ==
  ASSUME Types, NEW t \in Threads, NEW j \in Jobs, Step(t, j)
  PROVE  /\ job' \in [Threads -> Jobs]
         /\ job'[t] = j
         /\ \A u \in Threads : u # t => job'[u] = job[u]
BY DEF Types, Step

LEMMA IdleJob == Idle \in Jobs /\ Idle.pc = "idle" /\ Idle.next = 1
BY ConstantAssumption DEF Idle, Jobs

\* The lock is released by a handler only if it holds it, and its next step is
\* a new request.
LEMMA Left ==
  ASSUME IndInv, NEW t \in Threads, Leave(t), UNCHANGED receipt
  PROVE  /\ lock' \in [Runs -> Threads \cup {None}]
         /\ job' \in [Threads -> Jobs]
         /\ Held'
         /\ job'[t] = Idle
         /\ \A u \in Threads : u # t => job'[u] = job[u]
<1> USE ConstantAssumption
<1>1. /\ job' \in [Threads -> Jobs]
      /\ job'[t] = Idle
      /\ \A u \in Threads : u # t => job'[u] = job[u]
  BY Stepped, IdleJob DEF Leave, IndInv
<1>2. /\ lock' \in [Runs -> Threads \cup {None}]
      /\ \A r \in Runs : lock[r] # t => lock'[r] = lock[r]
  BY DEF Leave, IndInv, Types
<1>3. Held'
  <2>1. \A u \in Threads : job[u].pc \in Working => job[u].run \in Runs
    BY DEF IndInv, Types, Held, Jobs
  <2> QED BY <1>1, <1>2, <2>1, IdleJob DEF IndInv, Held, Working
<1> QED BY <1>1, <1>2, <1>3

-----------------------------------------------------------------------------
(* Every step keeps the invariant *)

\* A handler that gives up changes nothing durable.
LEMMA QuitStep ==
  ASSUME IndInv, NEW t \in Threads, Leave(t),
         UNCHANGED <<receipt, checkpoint, run, files, answers>>
  PROVE  IndInv'
<1>1. /\ lock' \in [Runs -> Threads \cup {None}]
      /\ job' \in [Threads -> Jobs]
      /\ Held'
      /\ job'[t] = Idle
      /\ \A u \in Threads : u # t => job'[u] = job[u]
  BY Left
<1>2. Types' /\ Bound'
  BY <1>1 DEF IndInv, Types, Bound
<1>3. Progress'
  BY <1>1, IdleJob DEF IndInv, Progress, Whole
<1> QED BY <1>1, <1>2, <1>3 DEF IndInv

LEMMA StartStep ==
  ASSUME IndInv, NEW t \in Threads, NEW q \in Requests, Start(t, q)
  PROVE  IndInv'
<1> USE ConstantAssumption DEF Start, At
<1> DEFINE j == [job[t] EXCEPT !.pc = "reserve", !.request = q]
<1>1. j \in Jobs /\ j.pc = "reserve" /\ j.request = q /\ j.next = job[t].next
  BY DEF IndInv, Types, Jobs
<1>2. /\ job' \in [Threads -> Jobs]
      /\ job'[t] = j
      /\ \A u \in Threads : u # t => job'[u] = job[u]
  BY <1>1, Stepped DEF IndInv
<1> HIDE DEF j
<1>3. Types' /\ Bound'
  BY <1>2 DEF IndInv, Types, Bound
<1>4. Held'
  BY <1>1, <1>2 DEF IndInv, Held, Working
<1>5. Progress'
  BY <1>1, <1>2 DEF IndInv, Progress, Whole
<1> QED BY <1>3, <1>4, <1>5 DEF IndInv

LEMMA ReserveNewStep ==
  ASSUME IndInv, NEW t \in Threads, NEW r \in Runs, ReserveNew(t, r)
  PROVE  IndInv'
<1> USE ConstantAssumption DEF ReserveNew, At, Fresh
<1> DEFINE j == [job[t] EXCEPT !.pc = "lock", !.run = r]
<1>1. /\ receipt.status = "none" /\ receipt.run = None
      /\ job[t].request \in Requests
      /\ r # None
  BY DEF IndInv, Types, Jobs, Bound, Held
<1>2. /\ receipt' \in Receipts
      /\ receipt'.status = "pending" /\ receipt'.request = job[t].request /\ receipt'.run = r
  BY <1>1 DEF Receipts
<1>3. /\ j \in Jobs /\ j.pc = "lock" /\ j.run = r
      /\ j.request = job[t].request /\ j.next = job[t].next
  BY DEF IndInv, Types, Jobs
<1>4. /\ job' \in [Threads -> Jobs]
      /\ job'[t] = j
      /\ \A u \in Threads : u # t => job'[u] = job[u]
  BY <1>3, Stepped DEF IndInv
<1> HIDE DEF j
<1>5. \A u \in Threads : job[u].pc \notin {"lock"} \cup Working
  BY <1>1 DEF IndInv, Held
<1>6. /\ \A s \in Runs : run[s] = "none" /\ checkpoint[s] = None
      /\ \A s \in Runs, f \in Files : files[s][f] = None
      /\ answers = {}
  BY <1>1 DEF IndInv, Types, Bound, Progress
<1>7. Types' /\ Bound'
  BY <1>1, <1>2, <1>4, <1>6 DEF IndInv, Types, Bound
<1>8. Held'
  BY <1>1, <1>2, <1>3, <1>4, <1>5 DEF IndInv, Held, Working
<1>9. Progress'
  BY <1>2, <1>3, <1>4, <1>5, <1>6 DEF IndInv, Progress, Working
<1> QED BY <1>7, <1>8, <1>9 DEF IndInv

LEMMA ReserveAgainStep ==
  ASSUME IndInv, NEW t \in Threads, ReserveAgain(t)
  PROVE  IndInv'
<1> USE ConstantAssumption DEF ReserveAgain, At, Fresh, BoundTo
<1>1. receipt.status # "none" /\ receipt.run \in Runs
  BY DEF IndInv, Bound, Types, Receipts
<1>2. PICK j \in Jobs :
        /\ Step(t, j)
        /\ \/ j.pc = "lock" /\ j.run = receipt.run /\ j.request = receipt.request
           \/ j.pc = "idle"
        /\ j.next = 1
  <2> DEFINE again == [job[t] EXCEPT !.pc = "lock", !.run = receipt.run]
  <2>1. CASE BoundTo(job[t].request)
    <3>1. /\ again \in Jobs /\ again.pc = "lock" /\ again.run = receipt.run
          /\ again.request = job[t].request /\ again.next = job[t].next
      BY <1>1 DEF IndInv, Types, Jobs
    <3> QED BY <2>1, <3>1 DEF IndInv, Progress
  <2>2. CASE ~ BoundTo(job[t].request)
    BY <2>2, IdleJob
  <2> QED BY <2>1, <2>2
<1>3. /\ job' \in [Threads -> Jobs]
      /\ job'[t] = j
      /\ \A u \in Threads : u # t => job'[u] = job[u]
  BY <1>2, Stepped DEF IndInv
<1>4. Types' /\ Bound'
  BY <1>3 DEF IndInv, Types, Bound
<1>5. Held'
  BY <1>1, <1>2, <1>3 DEF IndInv, Bound, Held, Working
<1>6. Progress'
  BY <1>2, <1>3 DEF IndInv, Progress, Whole
<1> QED BY <1>4, <1>5, <1>6 DEF IndInv

LEMMA ResumeStep ==
  ASSUME IndInv, NEW t \in Threads, Resume(t)
  PROVE  IndInv'
<1> USE ConstantAssumption DEF At
<1> DEFINE r == job[t].run
           j == [job[t] EXCEPT !.pc = "publish"]
<1>1. /\ job[t].pc = "lock" /\ r = receipt.run /\ r \in Runs /\ job[t].request = receipt.request
      /\ receipt.request # None /\ lock[r] = None /\ job[t].next = 1
  BY DEF Resume, IndInv, Types, Jobs, Held, Progress
<1>2. CASE receipt.status = "pending"
  <2>1. /\ lock' = [lock EXCEPT ![r] = t] /\ Step(t, j)
        /\ UNCHANGED <<receipt, checkpoint, run, files, answers>>
    BY <1>2 DEF Resume, Goto
  <2>2. /\ j \in Jobs /\ j.pc = "publish" /\ j.run = r
        /\ j.request = job[t].request /\ j.next = 1
    BY <1>1 DEF IndInv, Types, Jobs
  <2>3. /\ job' \in [Threads -> Jobs]
        /\ job'[t] = j
        /\ \A u \in Threads : u # t => job'[u] = job[u]
    BY <2>1, <2>2, Stepped DEF IndInv
  <2> HIDE DEF j
  <2>4. lock' \in [Runs -> Threads \cup {None}] /\ lock'[r] = t
    BY <1>1, <2>1 DEF IndInv, Types
  <2>5. \A u \in Threads : u # t => job[u].pc \notin Working
    BY <1>1 DEF IndInv, Held, Working
  <2>6. Types' /\ Bound'
    BY <2>1, <2>3, <2>4 DEF IndInv, Types, Bound
  <2>7. Held'
    BY <1>1, <1>2, <2>1, <2>2, <2>3, <2>4, <2>5 DEF IndInv, Held, Working
  <2>8. Progress'
    BY <1>1, <2>1, <2>2, <2>3 DEF IndInv, Progress, Whole, Files
  <2> QED BY <2>6, <2>7, <2>8 DEF IndInv
<1>3. CASE receipt.status # "pending"
  <2>1. /\ receipt.status = "completed" /\ Leave(t) /\ answers' = answers \cup {r}
        /\ UNCHANGED <<receipt, checkpoint, run, files>>
    BY <1>3 DEF Resume
  <2>2. /\ lock' \in [Runs -> Threads \cup {None}]
        /\ job' \in [Threads -> Jobs]
        /\ Held'
        /\ job'[t] = Idle
        /\ \A u \in Threads : u # t => job'[u] = job[u]
    BY <2>1, Left
  <2>3. Types' /\ Bound'
    BY <1>1, <2>1, <2>2 DEF IndInv, Types, Bound
  <2>4. Progress'
    BY <1>1, <2>1, <2>2, IdleJob DEF IndInv, Progress, Whole
  <2> QED BY <2>2, <2>3, <2>4 DEF IndInv
<1> QED BY <1>2, <1>3

LEMMA PublishStep ==
  ASSUME IndInv, NEW t \in Threads, Publish(t)
  PROVE  IndInv'
<1> USE ConstantAssumption DEF Publish, At
<1> DEFINE r == job[t].run
           f == job[t].next
           q == job[t].request
           pc == IF f = LastFile THEN "prepare" ELSE "publish"
           j == [job[t] EXCEPT !.next = f + 1, !.pc = pc]
<1>1. /\ job[t].pc = "publish" /\ r = receipt.run /\ r \in Runs /\ q = receipt.request
      /\ q \in Requests /\ lock[r] = t /\ receipt.status = "pending" /\ f \in Files
  BY DEF IndInv, Types, Jobs, Held, Working
<1>2. /\ j \in Jobs /\ j.pc = pc /\ j.run = r
      /\ j.request = q /\ j.next = f + 1
  <2>1. f + 1 \in 1..(LastFile + 1) /\ pc \in {"publish", "prepare"}
    BY <1>1 DEF Files
  <2> HIDE DEF pc
  <2> QED BY <2>1 DEF IndInv, Types, Jobs
<1>3. /\ job' \in [Threads -> Jobs]
      /\ job'[t] = j
      /\ \A u \in Threads : u # t => job'[u] = job[u]
  BY <1>2, Stepped DEF IndInv
<1> HIDE DEF j
<1>4. /\ files' \in [Runs -> [Files -> Requests \cup {None}]]
      /\ files'[r][f] = q
      /\ \A s \in Runs, g \in Files : files'[s][g] = files[s][g] \/ (s = r /\ files'[s][g] = q)
  BY <1>1 DEF IndInv, Types
<1>5. Types' /\ Bound'
  BY <1>1, <1>3, <1>4 DEF IndInv, Types, Bound
<1>6. Held'
  BY <1>1, <1>2, <1>3 DEF IndInv, Held, Working
<1>7. \A s \in Runs : Whole(s) => Whole(s)'
  BY <1>1, <1>4 DEF Whole
<1>8. \A g \in Files : g < f + 1 => files'[r][g] = receipt.request
  <2>1. \A g \in Files : g < f => files[r][g] = receipt.request
    BY <1>1 DEF IndInv, Progress
  <2> QED BY <1>1, <1>4, <2>1 DEF Files
<1>9. \A s \in Runs : s = r /\ f = LastFile => Whole(s)'
  BY <1>1, <1>8 DEF Whole, Files
<1>10. \A u \in Threads : u # t => job[u].pc \notin Working
  BY <1>1 DEF IndInv, Held
<1>11. Progress'
  <2>1. \A u \in Threads : job'[u].pc \in {"prepare", "complete"} =>
          \A g \in Files : files'[job'[u].run][g] = receipt'.request
    <3>1. f = LastFile => \A g \in Files : files'[r][g] = receipt'.request
      BY <1>1, <1>9 DEF Whole
    <3> QED BY <1>1, <1>2, <1>3, <1>10, <3>1 DEF Working
  <2>2. \A u \in Threads : job'[u].pc = "publish" =>
          \A g \in Files : g < job'[u].next => files'[job'[u].run][g] = receipt'.request
    BY <1>1, <1>2, <1>3, <1>8, <1>10 DEF Working
  <2>3. /\ \A u \in Threads : job'[u].pc \in {"idle", "reserve", "lock"} => job'[u].next = 1
        /\ \A u \in Threads : job'[u].pc = "complete" => checkpoint'[job'[u].run] = receipt'.request
    BY <1>1, <1>2, <1>3, <1>10 DEF IndInv, Progress, Working
  <2>4. \A s \in Runs : checkpoint'[s] # None => Whole(s)'
    BY <1>1, <1>7 DEF IndInv, Progress
  <2>5. /\ \A s \in Runs : run'[s] = "assess" \/ s \in answers' =>
              receipt'.status = "completed" /\ s = receipt'.run
        /\ receipt'.status = "completed" => checkpoint'[receipt'.run] = receipt'.request
    BY <1>1 DEF IndInv, Progress
  <2> QED BY <2>1, <2>2, <2>3, <2>4, <2>5 DEF Progress, Whole
<1> QED BY <1>5, <1>6, <1>11 DEF IndInv

LEMMA PrepareStep ==
  ASSUME IndInv, NEW t \in Threads, Prepare(t)
  PROVE  IndInv'
<1> USE ConstantAssumption DEF At, Enrolled
<1> DEFINE r == job[t].run
           j == [job[t] EXCEPT !.pc = "complete"]
<1>1. /\ job[t].pc = "prepare" /\ r = receipt.run /\ r \in Runs /\ job[t].request = receipt.request
      /\ receipt.request \in Requests /\ lock[r] = t /\ receipt.status = "pending" /\ Whole(r)
  BY DEF Prepare, IndInv, Types, Receipts, Jobs, Held, Working, Bound, Progress
<1>2. /\ j \in Jobs /\ j.pc = "complete" /\ j.run = r
      /\ j.request = job[t].request /\ j.next = job[t].next
  BY DEF IndInv, Types, Jobs
<1>3. CASE checkpoint[r] = None
  <2>1. /\ run' = [run EXCEPT ![r] = "created"]
        /\ checkpoint' = [checkpoint EXCEPT ![r] = job[t].request]
        /\ Step(t, j)
        /\ UNCHANGED <<receipt, files, lock, answers>>
    BY <1>1, <1>3 DEF Prepare, Goto
  <2>2. /\ job' \in [Threads -> Jobs]
        /\ job'[t] = j
        /\ \A u \in Threads : u # t => job'[u] = job[u]
    BY <1>2, <2>1, Stepped DEF IndInv
  <2> HIDE DEF j
  <2>3. /\ run' \in [Runs -> {"none", "created", "assess", "closed"}]
        /\ checkpoint' \in [Runs -> Requests \cup {None}]
        /\ run'[r] = "created" /\ checkpoint'[r] = receipt.request
        /\ \A s \in Runs : s # r => run'[s] = run[s] /\ checkpoint'[s] = checkpoint[s]
    BY <1>1, <2>1 DEF IndInv, Types
  <2>4. Types' /\ Bound'
    BY <1>1, <2>1, <2>2, <2>3 DEF IndInv, Types, Bound
  <2>5. Held'
    BY <1>1, <1>2, <2>1, <2>2 DEF IndInv, Held, Working
  <2>6. Progress'
    BY <1>1, <1>2, <2>1, <2>2, <2>3 DEF IndInv, Progress, Whole
  <2> QED BY <2>4, <2>5, <2>6 DEF IndInv
<1>4. CASE checkpoint[r] # None /\ run[r] = "created"
  <2>1. Step(t, j) /\ UNCHANGED <<receipt, run, checkpoint, files, lock, answers>>
    BY <1>4 DEF Prepare, Goto
  <2>2. /\ job' \in [Threads -> Jobs]
        /\ job'[t] = j
        /\ \A u \in Threads : u # t => job'[u] = job[u]
    BY <1>2, <2>1, Stepped DEF IndInv
  <2> HIDE DEF j
  <2>3. checkpoint[r] = receipt.request
    BY <1>1, <1>4 DEF IndInv, Bound
  <2>4. Types' /\ Bound'
    BY <2>1, <2>2 DEF IndInv, Types, Bound
  <2>5. Held'
    BY <1>1, <1>2, <2>1, <2>2 DEF IndInv, Held, Working
  <2>6. Progress'
    BY <1>1, <1>2, <2>1, <2>2, <2>3 DEF IndInv, Progress, Whole
  <2> QED BY <2>4, <2>5, <2>6 DEF IndInv
<1>5. CASE checkpoint[r] # None /\ run[r] # "created"
  <2>1. Leave(t) /\ UNCHANGED <<receipt, run, checkpoint, files, answers>>
    BY <1>5 DEF Prepare
  <2> QED BY <2>1, QuitStep
<1> QED BY <1>3, <1>4, <1>5

LEMMA CompleteStep ==
  ASSUME IndInv, NEW t \in Threads, Complete(t)
  PROVE  IndInv'
<1> USE ConstantAssumption DEF At
<1> DEFINE r == job[t].run
<1>1. /\ job[t].pc = "complete" /\ r = receipt.run /\ r \in Runs
      /\ lock[r] = t /\ receipt.status = "pending" /\ checkpoint[r] = receipt.request
  BY DEF Complete, IndInv, Types, Jobs, Held, Working, Progress
<1>2. CASE run[r] = "created"
  <2>1. /\ run' = [run EXCEPT ![r] = "assess"]
        /\ receipt' = [receipt EXCEPT !.status = "completed"]
        /\ answers' = answers \cup {r}
        /\ Leave(t)
        /\ UNCHANGED <<checkpoint, files>>
    BY <1>2 DEF Complete
  <2>2. /\ receipt' \in Receipts /\ receipt'.status = "completed"
        /\ receipt'.run = receipt.run /\ receipt'.request = receipt.request
    BY <2>1 DEF IndInv, Types, Receipts
  <2>3. /\ run' \in [Runs -> {"none", "created", "assess", "closed"}]
        /\ run'[r] = "assess" /\ \A s \in Runs : s # r => run'[s] = run[s]
    BY <1>1, <2>1 DEF IndInv, Types
  <2>4. /\ lock' \in [Runs -> Threads \cup {None}]
        /\ \A s \in Runs : lock[s] # t => lock'[s] = lock[s]
    BY <2>1 DEF Leave, IndInv, Types
  <2>5. /\ job' \in [Threads -> Jobs]
        /\ job'[t] = Idle
        /\ \A u \in Threads : u # t => job'[u] = job[u]
    BY <2>1, IdleJob, Stepped DEF Leave, IndInv
  <2>6. \A u \in Threads : u # t => job[u].pc \notin Working
    BY <1>1 DEF IndInv, Held
  <2>7. Types' /\ Bound'
    BY <1>1, <1>2, <2>1, <2>2, <2>3, <2>4, <2>5 DEF IndInv, Types, Bound
  <2>8. Held'
    BY <2>2, <2>5, <2>6, IdleJob DEF IndInv, Held, Working
  <2>9. Progress'
    <3>1. \A u \in Threads : job'[u].pc \notin Working
      BY <2>5, <2>6, IdleJob DEF Working
    <3>2. \A u \in Threads : job'[u].pc \in {"idle", "reserve", "lock"} => job'[u].next = 1
      BY <2>5, IdleJob DEF IndInv, Progress
    <3>3. \A s \in Runs : checkpoint'[s] # None => Whole(s)'
      BY <2>1, <2>2 DEF IndInv, Progress, Whole
    <3>4. \A s \in Runs : run'[s] = "assess" \/ s \in answers' => s = receipt'.run
      BY <1>1, <2>1, <2>2, <2>3 DEF IndInv, Progress
    <3>5. checkpoint'[receipt'.run] = receipt'.request
      BY <1>1, <2>1, <2>2
    <3> QED BY <2>2, <3>1, <3>2, <3>3, <3>4, <3>5 DEF Progress, Working
  <2> QED BY <2>7, <2>8, <2>9 DEF IndInv
<1>3. CASE run[r] # "created"
  <2>1. Leave(t) /\ UNCHANGED <<receipt, run, checkpoint, files, answers>>
    BY <1>3 DEF Complete
  <2> QED BY <2>1, QuitStep
<1> QED BY <1>2, <1>3

LEMMA CancelStep ==
  ASSUME IndInv, NEW r \in Runs, Cancel(r)
  PROVE  IndInv'
<1>1. /\ run[r] \in {"created", "assess"}
      /\ run' \in [Runs -> {"none", "created", "assess", "closed"}]
      /\ run'[r] = "closed" /\ \A s \in Runs : s # r => run'[s] = run[s]
      /\ UNCHANGED <<receipt, checkpoint, files, lock, job, answers>>
  BY DEF Cancel, IndInv, Types
<1>2. Types' /\ Bound'
  BY <1>1 DEF IndInv, Types, Bound
<1>3. Held'
  BY <1>1 DEF IndInv, Held
<1>4. Progress'
  BY <1>1 DEF IndInv, Progress, Whole
<1> QED BY <1>2, <1>3, <1>4 DEF IndInv

THEOREM Invariance == Spec => []IndInv
<1>1. ASSUME IndInv, Next PROVE IndInv'
  <2>1. ASSUME NEW t \in Threads, NEW q \in Requests, Start(t, q) PROVE IndInv'
    BY <1>1, <2>1, StartStep
  <2>2. ASSUME NEW t \in Threads, NEW r \in Runs, ReserveNew(t, r) PROVE IndInv'
    BY <1>1, <2>2, ReserveNewStep
  <2>3. ASSUME NEW t \in Threads, ReserveAgain(t) PROVE IndInv'
    BY <1>1, <2>3, ReserveAgainStep
  <2>4. ASSUME NEW t \in Threads, Resume(t) PROVE IndInv'
    BY <1>1, <2>4, ResumeStep
  <2>5. ASSUME NEW t \in Threads, Publish(t) PROVE IndInv'
    BY <1>1, <2>5, PublishStep
  <2>6. ASSUME NEW t \in Threads, Prepare(t) PROVE IndInv'
    BY <1>1, <2>6, PrepareStep
  <2>7. ASSUME NEW t \in Threads, Complete(t) PROVE IndInv'
    BY <1>1, <2>7, CompleteStep
  <2>8. ASSUME NEW t \in Threads, Crash(t) PROVE IndInv'
    BY <1>1, <2>8, QuitStep DEF Crash
  <2>9. ASSUME NEW r \in Runs, Cancel(r) PROVE IndInv'
    BY <1>1, <2>9, CancelStep
  <2> QED BY <1>1, <2>1, <2>2, <2>3, <2>4, <2>5, <2>6, <2>7, <2>8, <2>9 DEF Next
<1>2. ASSUME IndInv, UNCHANGED vars PROVE IndInv'
  BY <1>2 DEF vars, IndInv, Types, Bound, Held, Progress, Whole
<1> QED BY Establish, <1>1, <1>2, PTL DEF Spec

-----------------------------------------------------------------------------
(* What follows *)

\* Every reachable state has its type, and a run has rows exactly if the digest
\* of its initialization says so.
THEOREM TypeCorrect == Spec => []TypeOK
<1>1. IndInv => TypeOK
  BY DEF IndInv, Types, Bound, TypeOK
<1> QED BY <1>1, Invariance, PTL

\* However many handlers repeat a creation, its key makes one run, and every
\* answer names that run.
THEOREM OneRun == Spec => []OneRunPerKey
<1>1. IndInv => OneRunPerKey
  BY DEF IndInv, Types, Bound, Progress, OneRunPerKey
<1> QED BY <1>1, Invariance, PTL

\* A run that may be worked on, or was reported, has all its files and rows,
\* all of the one request its key is bound to.
THEOREM Started == Spec => []StartedIsWhole
<1>1. IndInv => StartedIsWhole
  <2> SUFFICES ASSUME IndInv, NEW r \in Runs, run[r] = "assess" \/ r \in answers
               PROVE  /\ receipt.status = "completed"
                      /\ checkpoint[r] = receipt.request
                      /\ \A f \in Files : files[r][f] = receipt.request
    BY DEF StartedIsWhole
  <2>1. receipt.status = "completed" /\ r = receipt.run /\ checkpoint[r] = receipt.request
    BY DEF IndInv, Progress
  <2>2. checkpoint[r] # None
    BY <2>1 DEF IndInv, Bound
  <2> QED BY <2>1, <2>2 DEF IndInv, Progress, Whole
<1> QED BY <1>1, Invariance, PTL

\* Both together: one run, and whole for everybody who works on it.
THEOREM CreationSound == Spec => []CreationIsSound
<1> QED BY OneRun, Started, PTL DEF CreationIsSound
=============================================================================
