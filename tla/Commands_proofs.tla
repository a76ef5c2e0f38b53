--------------------------- MODULE Commands_proofs ---------------------------
(***************************************************************************)
(* What is said of a command's end, and what the manager's tables list,    *)
(* for any number of commands and request threads.                         *)
(*                                                                         *)
(* What is said: only a process that is gone is recorded as ended, every   *)
(* step leaves the record of such a process alone, and an id is spawned by *)
(* the one start that was given it, so a process that is gone stays gone.  *)
(* What is listed: a thread that will take a command out of the table of   *)
(* active ones when it comes to it has seen it end or has doomed it, which *)
(* stays true whatever others do meanwhile.                                *)
(***************************************************************************)
EXTENDS Commands, FiniteSetTheorems, WellFoundedInduction, TLAPS

Sources == {"none", "command_timeout", "explicit_kill", "startup_failure", "parent_shutdown",
            "external_or_unknown"}
Procs == [state : {"none", "running", "exited"}, code : {"none", "exited", "signal"}, killed : BOOLEAN]
Records == [timedOut : BOOLEAN, completed : BOOLEAN, observed : BOOLEAN, callback : BOOLEAN,
            source : Sources, outcome : {"running", "timeout", "exited", "signal"}]
Positions == {"idle", "refresh", "move", "admit", "setup", "abandon", "forget", "lookup", "observe",
              "format", "terminate", "wait", "close", "close_term", "close_kill"}
Handling == [op : Ops, c : Ids, todo : SUBSET Ids, forced : BOOLEAN, was : BOOLEAN,
             seen : {"running", "timeout", "exited", "signal"}, pc : Positions]
Reports == [outcome : {"running", "timeout", "exited", "signal"}, source : Sources]

Coded(p) == p.state = "exited" => p.code # "none"
ProcTypes == /\ proc \in [Ids -> Procs] /\ cmd \in [Ids -> Records]
             /\ \A c \in Ids : Coded(proc[c])
ThreadTypes == thread \in [RequestThreads -> Handling] /\ active \subseteq Ids

\* The record of an end is about a process that is gone.
EndIsExit == \A c \in Ids : cmd[c].completed => Exited(c)

\* A start that has not spawned its process yet has an id of its own.
Starting(t) == thread[t].op = "start" /\ thread[t].pc \in {"refresh", "move", "admit"}
IdIsOwn ==
  \A t \in RequestThreads : Starting(t) =>
    /\ proc[thread[t].c].state = "none"
    /\ \A u \in RequestThreads : Starting(u) /\ thread[u].c = thread[t].c => u = t
AdmitIsStart == \A t \in RequestThreads : thread[t].pc = "admit" => thread[t].op = "start"

\* A report was made by an observation of the end, and says what is recorded.
ReportsRecorded ==
  \A c \in Ids : \/ reports[c] = <<>>
                 \/ /\ cmd[c].completed /\ cmd[c].observed
                    /\ reports[c] = <<[outcome |-> cmd[c].outcome, source |-> cmd[c].source]>>

CommandInv ==
  /\ ProcTypes /\ ThreadTypes /\ EndIsExit /\ IdIsOwn /\ AdmitIsStart
  /\ ReportsRecorded /\ DOMAIN reports = Ids

----------------------------------------------------------------------------
(* What a step may do to the record of a command and to its process.       *)

Unchanging(k, n) == /\ n.completed /\ n.outcome = k.outcome /\ n.source = k.source
                    /\ n.timedOut = k.timedOut /\ (k.observed => n.observed)
RecordsKept ==
  /\ cmd' \in [Ids -> Records]
  /\ \A c \in Ids : /\ cmd[c].completed => Unchanging(cmd[c], cmd'[c])
                    /\ cmd'[c].completed => Exited(c)
ProcsKept ==
  /\ proc' \in [Ids -> Procs]
  /\ \A c \in Ids : (Exited(c) => Exited(c)') /\ Coded(proc'[c])
NoneSpawned == \A c \in Ids : proc[c].state = "none" => proc'[c].state = "none"

\* A request to terminate leaves a record that says the process ended alone.
LEMMA TerminatedKeeps ==
  ASSUME NEW k \in Records, NEW p \in Procs, k.completed => p.state = "exited",
         NEW source \in Sources
  PROVE  /\ Terminated(k, p, source) \in Records
         /\ k.completed => Terminated(k, p, source) = k
         /\ Terminated(k, p, source).completed = k.completed
         /\ Terminated(k, p, source).observed = k.observed
  BY DEF Terminated, Records

LEMMA SignalledKeeps ==
  ASSUME NEW p \in Procs, NEW signal
  PROVE  /\ Signalled(p, signal) \in Procs /\ Signalled(p, signal).state = p.state
         /\ Signalled(p, signal).code = p.code
  BY DEF Signalled, Procs

\* So does a refresh, which records an end only of a process that is gone.
LEMMA RefreshedKeeps ==
  ASSUME ProcTypes, EndIsExit, NEW c \in Ids, NEW late \in BOOLEAN
  PROVE  /\ RefreshedCmd(c, late) \in Records
         /\ cmd[c].completed => RefreshedCmd(c, late) = cmd[c]
         /\ RefreshedCmd(c, late).completed => Exited(c)
         /\ RefreshedCmd(c, late).observed = cmd[c].observed
<1> DEFINE k == IF late THEN Terminated(cmd[c], proc[c], "command_timeout") ELSE cmd[c]
<1>1. cmd[c] \in Records /\ proc[c] \in Procs /\ (cmd[c].completed => proc[c].state = "exited")
  BY DEF ProcTypes, EndIsExit, Exited
<1>2. /\ k \in Records /\ (cmd[c].completed => k = cmd[c])
      /\ k.completed = cmd[c].completed /\ k.observed = cmd[c].observed
  <2> DEFINE n == Terminated(cmd[c], proc[c], "command_timeout")
  <2>1. /\ n \in Records /\ (cmd[c].completed => n = cmd[c])
        /\ n.completed = cmd[c].completed /\ n.observed = cmd[c].observed
    <3>1. "command_timeout" \in Sources
      BY DEF Sources
    <3> QED BY <1>1, <3>1, TerminatedKeeps
  <2>2. k = n \/ k = cmd[c]
    OBVIOUS
  <2> HIDE DEF k, n
  <2> QED BY <1>1, <2>1, <2>2
<1>3. RefreshedCmd(c, late) =
        IF k.completed \/ ~ Exited(c) THEN k
        ELSE [k EXCEPT !.completed = TRUE, !.outcome = Outcome(k, proc[c]),
                       !.source = IF @ = "none" /\ proc[c].code = "signal" THEN "external_or_unknown" ELSE @]
  BY DEF RefreshedCmd
<1> HIDE DEF k
<1>4. CASE k.completed \/ ~ Exited(c)
  BY <1>1, <1>2, <1>3, <1>4 DEF EndIsExit, Exited
<1>5. CASE ~ k.completed /\ Exited(c)
  <2>1. proc[c].code \in {"exited", "signal"}
    BY <1>1, <1>5 DEF ProcTypes, Coded, Exited, Procs
  <2> QED BY <1>2, <1>3, <1>5, <2>1 DEF Outcome, Records, Sources
<1> QED BY <1>4, <1>5

LEMMA ObservedKeeps ==
  ASSUME ProcTypes, EndIsExit, NEW c \in Ids, NEW late \in BOOLEAN
  PROVE  /\ ObservedCmd(c, late) \in Records
         /\ cmd[c].completed => Unchanging(cmd[c], ObservedCmd(c, late))
         /\ ObservedCmd(c, late).completed => Exited(c)
         /\ ObservedCmd(c, late).completed = RefreshedCmd(c, late).completed
         /\ ObservedCmd(c, late).observed = RefreshedCmd(c, late).completed
         /\ ObservedCmd(c, late).outcome = RefreshedCmd(c, late).outcome
         /\ ObservedCmd(c, late).source = RefreshedCmd(c, late).source
  BY RefreshedKeeps DEF ObservedCmd, Unchanging, Records

\* One record changed, or none.
LEMMA OneRecord ==
  ASSUME ProcTypes, EndIsExit, NEW c \in Ids, NEW k \in Records,
         cmd' = [cmd EXCEPT ![c] = k],
         cmd[c].completed => Unchanging(cmd[c], k), k.completed => Exited(c)
  PROVE  RecordsKept
  BY DEF RecordsKept, ProcTypes, EndIsExit, Unchanging

LEMMA NoRecord ==
  ASSUME ProcTypes, EndIsExit, cmd' = cmd
  PROVE  RecordsKept
  BY DEF RecordsKept, ProcTypes, EndIsExit, Unchanging

LEMMA NoProcess ==
  ASSUME ProcTypes, proc' = proc
  PROVE  ProcsKept /\ NoneSpawned
  BY DEF ProcsKept, NoneSpawned, ProcTypes, Exited

\* A process was signalled and its record says by whom.
LEMMA Signalling ==
  ASSUME ProcTypes, EndIsExit, NEW c \in Ids, NEW signal, NEW source \in Sources,
         NEW callback \in BOOLEAN,
         proc' = [proc EXCEPT ![c] = Signalled(proc[c], signal)],
         \/ cmd' = [cmd EXCEPT ![c] = Terminated(cmd[c], proc[c], source)]
         \/ cmd' = [cmd EXCEPT ![c] = [Terminated(cmd[c], proc[c], source) EXCEPT !.callback = callback]]
  PROVE  RecordsKept /\ ProcsKept /\ NoneSpawned
<1> DEFINE k == Terminated(cmd[c], proc[c], source)
<1>1. /\ cmd[c] \in Records /\ proc[c] \in Procs /\ Coded(proc[c])
      /\ cmd[c].completed => proc[c].state = "exited"
  BY DEF ProcTypes, EndIsExit, Exited
<1>2. /\ k \in Records /\ (cmd[c].completed => k = cmd[c]) /\ k.completed = cmd[c].completed
  BY <1>1, TerminatedKeeps
<1> HIDE DEF k
<1>3. [k EXCEPT !.callback = callback] \in Records
  BY <1>2 DEF Records
<1>4. RecordsKept
  <2>1. CASE cmd' = [cmd EXCEPT ![c] = k]
    BY <1>1, <1>2, <2>1, OneRecord DEF Unchanging, Exited
  <2>2. CASE cmd' = [cmd EXCEPT ![c] = [k EXCEPT !.callback = callback]]
    <3>1. cmd[c].completed => Unchanging(cmd[c], [k EXCEPT !.callback = callback])
      BY <1>2 DEF Unchanging, Records
    <3>2. [k EXCEPT !.callback = callback].completed => Exited(c)
      BY <1>1, <1>2 DEF Records, Exited
    <3> QED BY <1>3, <2>2, <3>1, <3>2, OneRecord
  <2> QED BY <2>1, <2>2 DEF k
<1>5. /\ Signalled(proc[c], signal) \in Procs /\ Signalled(proc[c], signal).state = proc[c].state
      /\ Signalled(proc[c], signal).code = proc[c].code
  BY <1>1, SignalledKeeps
<1>6. ProcsKept /\ NoneSpawned
  BY <1>1, <1>5 DEF ProcsKept, NoneSpawned, ProcTypes, Exited, Coded
<1> QED BY <1>4, <1>6

----------------------------------------------------------------------------
(* Steps of one request thread.                                            *)

ThreadKept(t) ==
  /\ thread' \in [RequestThreads -> Handling] /\ active' \subseteq Ids
  /\ \A u \in RequestThreads \ {t} : thread'[u] = thread[u]
  /\ Starting(t)' => Starting(t) /\ thread'[t].c = thread[t].c
  /\ thread'[t].pc = "admit" => thread'[t].op = "start"

ReportsKept == reports' = reports

\* A step that spawns nothing keeps all of the invariant but what is of the reports.
LEMMA StepKeeps ==
  ASSUME CommandInv, RecordsKept, ProcsKept, NoneSpawned,
         \/ \E t \in RequestThreads : ThreadKept(t)
         \/ thread' = thread /\ active' = active
  PROVE  ProcTypes' /\ EndIsExit' /\ ThreadTypes' /\ AdmitIsStart' /\ IdIsOwn'
<1>1. ProcTypes' /\ EndIsExit'
  BY DEF RecordsKept, ProcsKept, ProcTypes, EndIsExit
<1>3. /\ ThreadTypes' /\ AdmitIsStart'
      /\ \A u \in RequestThreads : Starting(u)' => Starting(u) /\ thread'[u].c = thread[u].c
  <2>1. CASE thread' = thread /\ active' = active
    BY <2>1 DEF CommandInv, ThreadTypes, AdmitIsStart, Starting
  <2>2. ASSUME NEW t \in RequestThreads, ThreadKept(t)
        PROVE  /\ ThreadTypes' /\ AdmitIsStart'
               /\ \A u \in RequestThreads : Starting(u)' => Starting(u) /\ thread'[u].c = thread[u].c
    BY <2>2 DEF CommandInv, ThreadTypes, AdmitIsStart, ThreadKept, Starting
  <2> QED BY <2>1, <2>2
<1>4. \A u \in RequestThreads : thread[u].c \in Ids
  BY DEF CommandInv, ThreadTypes, Handling
<1>5. ASSUME NEW u \in RequestThreads, Starting(u)'
      PROVE  /\ proc'[thread'[u].c].state = "none"
             /\ \A v \in RequestThreads : Starting(v)' /\ thread'[v].c = thread'[u].c => v = u
  <2>1. Starting(u) /\ thread'[u].c = thread[u].c
    BY <1>3, <1>5
  <2>2. proc[thread[u].c].state = "none"
    BY <2>1 DEF CommandInv, IdIsOwn
  <2>3. proc'[thread[u].c].state = "none"
    BY <1>4, <2>2 DEF NoneSpawned
  <2>4. ASSUME NEW v \in RequestThreads, Starting(v)', thread'[v].c = thread'[u].c PROVE v = u
    BY <1>3, <2>1, <2>4 DEF CommandInv, IdIsOwn
  <2> QED BY <2>1, <2>3, <2>4
<1>6. IdIsOwn'
  BY <1>5 DEF IdIsOwn
<1> QED BY <1>1, <1>3, <1>6

\* If it reports nothing either it keeps the invariant.
LEMMA QuietStep ==
  ASSUME CommandInv, RecordsKept, ProcsKept, NoneSpawned, ReportsKept,
         \/ \E t \in RequestThreads : ThreadKept(t)
         \/ thread' = thread /\ active' = active
  PROVE  CommandInv'
<1>1. ReportsRecorded' /\ DOMAIN reports' = Ids
  BY DEF RecordsKept, ReportsKept, CommandInv, ReportsRecorded, Unchanging
<1> QED BY <1>1, StepKeeps DEF CommandInv

\* What a thread goes on to, unless it is an admission or another refresh.
LEMMA GoesOn ==
  ASSUME CommandInv, NEW t \in RequestThreads, NEW h \in Handling,
         thread' = [thread EXCEPT ![t] = h], active' \subseteq Ids,
         \/ h.pc \notin {"refresh", "move", "admit"}
         \/ /\ thread[t].pc \in {"refresh", "move", "admit"}
            /\ h.op = thread[t].op /\ h.c = thread[t].c /\ (h.pc = "admit" => h.op = "start")
  PROVE  ThreadKept(t)
  BY DEF CommandInv, ThreadTypes, ThreadKept, Starting, Handling

LEMMA Idle == NoThread \in Handling /\ NoThread.pc = "idle"
  BY CommandNames DEF NoThread, Handling, Ops, Positions

LEMMA RequestKeeps ==
  ASSUME CommandInv, NEW t \in RequestThreads, Request(t)
  PROVE  CommandInv'
<1>1. PICK op \in Ops, c \in Ids :
        /\ op = "start" => ~ Issued(c)
        /\ thread' = [thread EXCEPT ![t] = [NoThread EXCEPT !.op = op, !.c = c,
                        !.pc = IF op = "close" THEN "close" ELSE "refresh",
                        !.todo = IF op = "close" THEN {} ELSE active]]
  BY DEF Request
<1> DEFINE h == [NoThread EXCEPT !.op = op, !.c = c, !.pc = IF op = "close" THEN "close" ELSE "refresh",
                                 !.todo = IF op = "close" THEN {} ELSE active]
<1>2. h \in Handling /\ h.op = op /\ h.c = c /\ h.pc \in {"close", "refresh"}
  BY Idle DEF CommandInv, ThreadTypes, Handling, Positions
<1>3. thread' = [thread EXCEPT ![t] = h]
  BY <1>1
<1> HIDE DEF h
<1>4. UNCHANGED <<proc, cmd, active, reports>>
  BY DEF Request, tableVars
<1>5. \A u \in RequestThreads : thread'[u] = IF u = t THEN h ELSE thread[u]
  BY <1>3 DEF CommandInv, ThreadTypes
<1>6. ThreadTypes' /\ AdmitIsStart'
  BY <1>2, <1>3, <1>4, <1>5 DEF CommandInv, ThreadTypes, AdmitIsStart
<1>7. IdIsOwn'
  <2>1. \A u \in RequestThreads : op = "start" /\ u # t /\ Starting(u) => thread[u].c # c
    BY <1>1 DEF Issued, Starting, Doing
  <2>2. op = "start" => proc[c].state = "none"
    BY <1>1 DEF Issued
  <2>3. \A u \in RequestThreads : u # t => (Starting(u)' <=> Starting(u)) /\ thread'[u].c = thread[u].c
    BY <1>5 DEF Starting
  <2>4. (Starting(t)' => op = "start") /\ thread'[t].c = c
    BY <1>2, <1>5 DEF Starting
  <2> QED BY <1>4, <2>1, <2>2, <2>3, <2>4 DEF CommandInv, IdIsOwn
<1>8. ProcTypes' /\ EndIsExit' /\ ReportsRecorded' /\ DOMAIN reports' = Ids
  BY <1>4 DEF CommandInv, ProcTypes, EndIsExit, Exited, ReportsRecorded
<1> QED BY <1>6, <1>7, <1>8 DEF CommandInv

LEMMA PruneRefreshKeeps ==
  ASSUME CommandInv, NEW t \in RequestThreads, PruneRefresh(t)
  PROVE  CommandInv' /\ RecordsKept
<1> DEFINE c == CHOOSE d \in thread[t].todo : TRUE
           moved == [thread[t] EXCEPT !.pc = "move"]
           next == [thread[t] EXCEPT !.todo = @ \ {c}]
<1>1. thread[t] \in Handling /\ thread[t].pc = "refresh" /\ thread[t].todo # {}
  BY DEF PruneRefresh, Doing, CommandInv, ThreadTypes
<1>2. c \in Ids
  BY <1>1 DEF Handling
<1>3. PICK late \in BOOLEAN : cmd' = [cmd EXCEPT ![c] = RefreshedCmd(c, late)]
  BY DEF PruneRefresh, MayBeLate
<1>4. thread' = [thread EXCEPT ![t] = moved] \/ thread' = [thread EXCEPT ![t] = next]
  BY <1>1 DEF PruneRefresh
<1>5. UNCHANGED <<proc, active, reports>>
  BY DEF PruneRefresh, tableVars
<1>6. /\ moved \in Handling /\ moved.op = thread[t].op /\ moved.c = thread[t].c /\ moved.pc = "move"
      /\ next \in Handling /\ next.op = thread[t].op /\ next.c = thread[t].c /\ next.pc = "refresh"
  BY <1>1 DEF Handling, Positions
<1> HIDE DEF c, moved, next
<1>7. RecordsKept
  <2>1. cmd[c].completed => Unchanging(cmd[c], RefreshedCmd(c, late))
    BY <1>2, RefreshedKeeps DEF CommandInv, Unchanging
  <2> QED BY <1>2, <1>3, <2>1, RefreshedKeeps, OneRecord DEF CommandInv
<1>8. ThreadKept(t)
  BY <1>1, <1>4, <1>5, <1>6, GoesOn DEF CommandInv, ThreadTypes
<1>9. ProcsKept /\ NoneSpawned /\ ReportsKept
  BY <1>5, NoProcess DEF CommandInv, ReportsKept
<1> QED BY <1>7, <1>8, <1>9, QuietStep

LEMMA PruneMoveKeeps ==
  ASSUME CommandInv, NEW t \in RequestThreads, PruneMove(t)
  PROVE  CommandInv' /\ RecordsKept
<1> DEFINE c == CHOOSE d \in thread[t].todo : TRUE
           h == [thread[t] EXCEPT !.pc = "refresh", !.todo = @ \ {c}]
<1>1. thread[t] \in Handling /\ thread[t].pc = "move"
  BY DEF PruneMove, Doing, CommandInv, ThreadTypes
<1>2. thread' = [thread EXCEPT ![t] = h] /\ active' = active \ {c}
  BY <1>1 DEF PruneMove
<1>3. UNCHANGED <<proc, cmd, reports>>
  BY DEF PruneMove
<1>4. h \in Handling /\ h.op = thread[t].op /\ h.c = thread[t].c /\ h.pc = "refresh"
  BY <1>1 DEF Handling, Positions
<1> HIDE DEF c, h
<1>5. ThreadKept(t)
  BY <1>1, <1>2, <1>4, GoesOn DEF CommandInv, ThreadTypes
<1>6. RecordsKept /\ ProcsKept /\ NoneSpawned /\ ReportsKept
  BY <1>3, NoRecord, NoProcess DEF CommandInv, ReportsKept
<1> QED BY <1>5, <1>6, QuietStep

\* Steps that only move the thread, and perhaps change what is listed.
LEMMA MoveKeeps ==
  ASSUME CommandInv, NEW t \in RequestThreads, NEW pc \in Positions \ {"refresh", "move"},
         pc = "admit" => thread[t].pc = "refresh" /\ thread[t].op = "start",
         \/ GoOn(t, pc)
         \/ End(t)
         \/ \E todo \in SUBSET Ids : thread' = [thread EXCEPT ![t].pc = pc, ![t].todo = todo],
         active' \subseteq Ids, UNCHANGED <<proc, cmd, reports>>
  PROVE  CommandInv' /\ RecordsKept
<1>1. thread[t] \in Handling
  BY DEF CommandInv, ThreadTypes
<1>2. PICK h : /\ h \in Handling /\ thread' = [thread EXCEPT ![t] = h]
               /\ \/ h.pc \notin {"refresh", "move", "admit"}
                  \/ h.pc = "admit" /\ pc = "admit" /\ h.op = thread[t].op /\ h.c = thread[t].c
  <2>1. CASE GoOn(t, pc)
    <3> DEFINE h == [thread[t] EXCEPT !.pc = pc]
    <3>1. h \in Handling /\ h.pc = pc /\ h.op = thread[t].op /\ h.c = thread[t].c
      BY <1>1 DEF Handling
    <3>2. thread' = [thread EXCEPT ![t] = h]
      BY <2>1 DEF GoOn
    <3> HIDE DEF h
    <3> QED BY <3>1, <3>2
  <2>2. CASE End(t)
    BY <2>2, Idle DEF End
  <2>3. ASSUME NEW todo \in SUBSET Ids, thread' = [thread EXCEPT ![t].pc = pc, ![t].todo = todo]
        PROVE  \E h : /\ h \in Handling /\ thread' = [thread EXCEPT ![t] = h]
                     /\ \/ h.pc \notin {"refresh", "move", "admit"}
                        \/ h.pc = "admit" /\ pc = "admit" /\ h.op = thread[t].op /\ h.c = thread[t].c
    <3> DEFINE h == [thread[t] EXCEPT !.pc = pc, !.todo = todo]
    <3>1. h \in Handling /\ h.pc = pc /\ h.op = thread[t].op /\ h.c = thread[t].c
      BY <1>1 DEF Handling
    <3>2. thread' = [thread EXCEPT ![t] = h]
      BY <2>3 DEF CommandInv, ThreadTypes
    <3> HIDE DEF h
    <3> QED BY <3>1, <3>2
  <2> QED BY <2>1, <2>2, <2>3
<1>3. ThreadKept(t)
  BY <1>2, GoesOn
<1>4. RecordsKept /\ ProcsKept /\ NoneSpawned /\ ReportsKept
  BY NoRecord, NoProcess DEF CommandInv, ReportsKept
<1> QED BY <1>3, <1>4, QuietStep

LEMMA EndKeeps ==
  ASSUME CommandInv, NEW t \in RequestThreads, End(t), active' \subseteq Ids,
         UNCHANGED <<proc, cmd, reports>>
  PROVE  CommandInv' /\ RecordsKept
<1>1. "idle" \in Positions \ {"refresh", "move"}
  BY DEF Positions
<1> QED BY <1>1, MoveKeeps

LEMMA MovesKeep ==
  ASSUME CommandInv, NEW t \in RequestThreads,
         \/ PruneExpire(t) \/ (Admit(t) /\ proc' = proc) \/ SetUp(t) \/ Forget(t) \/ Lookup(t)
         \/ Format(t) \/ CloseMark(t)
  PROVE  CommandInv' /\ RecordsKept
<1> USE DEF Positions
<1>1. active \subseteq Ids /\ thread[t].c \in Ids /\ thread[t].op \in Ops
  BY DEF CommandInv, ThreadTypes, Handling
<1>2. CASE PruneExpire(t)
  <2> DEFINE pc == IF thread[t].op = "start" THEN "admit" ELSE "lookup"
  <2>1. /\ pc \in Positions \ {"refresh", "move"}
        /\ pc = "admit" => thread[t].pc = "refresh" /\ thread[t].op = "start"
    BY <1>2 DEF PruneExpire, Doing
  <2>2. GoOn(t, pc) /\ UNCHANGED <<proc, cmd, reports, active>>
    BY <1>2 DEF PruneExpire
  <2> HIDE DEF pc
  <2> QED BY <1>1, <2>1, <2>2, MoveKeeps
<1>3. CASE Admit(t) /\ proc' = proc
  <2>1. CASE Refuse(t)
    BY <1>1, <2>1, EndKeeps DEF Refuse, tableVars
  <2>2. CASE GoOn(t, "setup") /\ active' = active \cup {thread[t].c} /\ UNCHANGED <<cmd, reports>>
    BY <1>1, <1>3, <2>2, MoveKeeps
  <2> QED BY <1>3, <2>1, <2>2 DEF Admit
<1>4. CASE SetUp(t)
  BY <1>1, <1>4, MoveKeeps DEF SetUp, tableVars
<1>5. CASE Forget(t)
  BY <1>1, <1>5, EndKeeps DEF Forget
<1>6. CASE Lookup(t)
  <2>1. \E pc \in {"terminate", "observe"} : GoOn(t, pc) \/ End(t)
    BY <1>6 DEF Lookup, Refuse
  <2>2. UNCHANGED <<proc, cmd, reports, active>>
    BY <1>6 DEF Lookup, Refuse, tableVars
  <2> QED BY <1>1, <2>1, <2>2, EndKeeps, MoveKeeps
<1>7. CASE Format(t)
  <2>1. GoOn(t, "forget") \/ End(t)
    BY <1>7 DEF Format
  <2>2. UNCHANGED <<proc, cmd, reports>> /\ active' \subseteq active
    BY <1>7 DEF Format
  <2> QED BY <1>1, <2>1, <2>2, EndKeeps, MoveKeeps
<1>8. CASE CloseMark(t)
  <2>1. thread' = [thread EXCEPT ![t].pc = "close_term", ![t].todo = active]
    BY <1>8 DEF CloseMark
  <2>2. UNCHANGED <<proc, cmd, reports, active>>
    BY <1>8 DEF CloseMark
  <2> QED BY <1>1, <2>1, <2>2, MoveKeeps
<1> QED BY <1>2, <1>3, <1>4, <1>5, <1>6, <1>7, <1>8

\* The id that is spawned has not been spawned before, by this start or another.
LEMMA SpawnKeeps ==
  ASSUME CommandInv, NEW t \in RequestThreads, Admit(t), proc' # proc
  PROVE  CommandInv' /\ RecordsKept
<1> DEFINE c == thread[t].c
           h == [thread[t] EXCEPT !.pc = "setup"]
           p == [proc[c] EXCEPT !.state = "running"]
<1>1. thread[t] \in Handling /\ thread[t].pc = "admit" /\ c \in Ids
  BY DEF Admit, Doing, CommandInv, ThreadTypes, Handling
<1>2. Starting(t) /\ proc[c].state = "none"
  BY <1>1 DEF CommandInv, AdmitIsStart, IdIsOwn, Starting
<1>3. /\ proc' = [proc EXCEPT ![c] = p] /\ active' = active \cup {c}
      /\ thread' = [thread EXCEPT ![t] = h] /\ UNCHANGED <<cmd, reports>>
  BY DEF Admit, Refuse, Spawned, GoOn
<1>4. /\ p \in Procs /\ p.state = "running"
      /\ h \in Handling /\ h.pc = "setup" /\ h.op = thread[t].op /\ h.c = c
  BY <1>1 DEF CommandInv, ProcTypes, Procs, Handling, Positions
<1>5. \A u \in RequestThreads : u # t /\ Starting(u) => thread[u].c # c
  BY <1>2 DEF CommandInv, IdIsOwn
<1>6. \A u \in RequestThreads : thread[u].c \in Ids
  BY DEF CommandInv, ThreadTypes, Handling
<1> HIDE DEF p, h, c
<1>7. RecordsKept
  BY <1>3, NoRecord DEF CommandInv
<1>8. ProcTypes' /\ EndIsExit'
  <2>1. proc' \in [Ids -> Procs] /\ \A d \in Ids : d # c => proc'[d] = proc[d]
    BY <1>1, <1>3, <1>4 DEF CommandInv, ProcTypes, c
  <2>2. proc'[c] = p /\ cmd[c].completed = FALSE
    BY <1>1, <1>2, <1>3 DEF CommandInv, ProcTypes, EndIsExit, Exited, c, Records
  <2> QED BY <1>3, <1>4, <2>1, <2>2 DEF CommandInv, ProcTypes, EndIsExit, Exited, Coded
<1>9. /\ thread' \in [RequestThreads -> Handling]
      /\ \A u \in RequestThreads : thread'[u] = IF u = t THEN h ELSE thread[u]
  BY <1>1, <1>3, <1>4 DEF CommandInv, ThreadTypes
<1>10. ThreadTypes' /\ AdmitIsStart'
  BY <1>1, <1>3, <1>4, <1>9 DEF CommandInv, ThreadTypes, AdmitIsStart, c
<1>11. IdIsOwn'
  <2>1. \A u \in RequestThreads : Starting(u)' => u # t /\ Starting(u) /\ thread'[u].c = thread[u].c
    BY <1>4, <1>9 DEF Starting
  <2>2. \A u \in RequestThreads : Starting(u)' => proc'[thread[u].c] = proc[thread[u].c]
    BY <1>1, <1>3, <1>5, <1>6, <2>1 DEF CommandInv, ProcTypes, c
  <2> QED BY <2>1, <2>2 DEF CommandInv, IdIsOwn
<1>12. ReportsRecorded' /\ DOMAIN reports' = Ids
  BY <1>3 DEF CommandInv, ReportsRecorded
<1> QED BY <1>7, <1>8, <1>10, <1>11, <1>12 DEF CommandInv

LEMMA ObserveKeeps ==
  ASSUME CommandInv, NEW t \in RequestThreads, Observe(t)
  PROVE  CommandInv' /\ RecordsKept
<1> DEFINE c == thread[t].c
           now == RefreshedCmd(c, FALSE)
           seen == [thread[t] EXCEPT !.seen = now.outcome, !.pc = "format"]
<1>1. thread[t] \in Handling /\ c \in Ids
  BY DEF CommandInv, ThreadTypes, Handling
<1>2. PICK late \in BOOLEAN : late \in MayBeLate(c) /\ cmd' = [cmd EXCEPT ![c] = ObservedCmd(c, late)]
  BY DEF Observe, MayBeLate
<1>3. reports' = Report(c) /\ UNCHANGED <<proc, active>>
  BY DEF Observe, tableVars
<1>4. seen \in Handling /\ seen.pc = "format"
  <2>1. now.outcome \in {"running", "timeout", "exited", "signal"}
    BY <1>1, RefreshedKeeps DEF CommandInv, Records
  <2> HIDE DEF now
  <2> QED BY <1>1, <2>1 DEF Handling, Positions
<1>5. thread' = [thread EXCEPT ![t] = NoThread] \/ thread' = [thread EXCEPT ![t] = seen]
  BY <1>1 DEF Observe, End, CommandInv, ThreadTypes
<1> HIDE DEF c, seen, now
<1>6. ThreadKept(t)
  BY <1>3, <1>4, <1>5, Idle, GoesOn DEF CommandInv, ThreadTypes
<1>7. RecordsKept
  BY <1>1, <1>2, ObservedKeeps, OneRecord DEF CommandInv
<1>8. ProcsKept /\ NoneSpawned
  BY <1>3, NoProcess DEF CommandInv
<1>9. ReportsRecorded' /\ DOMAIN reports' = Ids
  <2> DEFINE n == ObservedCmd(c, late)
  <2>1. /\ cmd'[c] = n /\ \A d \in Ids \ {c} : cmd'[d] = cmd[d]
    BY <1>1, <1>2 DEF CommandInv, ProcTypes
  <2>2. /\ n.observed = n.completed
        /\ cmd[c].completed => Unchanging(cmd[c], n)
    BY <1>1, ObservedKeeps DEF CommandInv
  <2>3. now.completed => now.outcome = n.outcome /\ now.source = n.source /\ n.completed
    <3>1. now.completed => Exited(c)
      BY <1>1, RefreshedKeeps DEF CommandInv, now
    <3>2. Exited(c) => late = FALSE
      BY <1>2 DEF MayBeLate, Exited, Alive
    <3> QED BY <1>1, <3>1, <3>2, ObservedKeeps DEF CommandInv, now
  <2> HIDE DEF n
  <2>4. CASE reports' = reports
    BY <2>1, <2>2, <2>4 DEF CommandInv, ReportsRecorded, Unchanging
  <2>5. CASE /\ now.completed /\ ~ cmd[c].observed
             /\ reports' = [reports EXCEPT ![c] = Append(@, [outcome |-> now.outcome, source |-> now.source])]
    <3>1. reports[c] = <<>>
      BY <1>1, <2>5 DEF CommandInv, ReportsRecorded
    <3>2. /\ DOMAIN reports' = Ids /\ \A d \in Ids \ {c} : reports'[d] = reports[d]
          /\ reports'[c] = Append(<<>>, [outcome |-> now.outcome, source |-> now.source])
      BY <1>1, <2>5, <3>1 DEF CommandInv
    <3>3. reports'[c] = <<[outcome |-> n.outcome, source |-> n.source]>>
      BY <2>3, <2>5, <3>2
    <3> QED BY <2>1, <2>2, <2>3, <2>5, <3>2, <3>3 DEF CommandInv, ReportsRecorded
  <2> QED BY <1>3, <2>4, <2>5 DEF Report, now
<1>10. /\ ThreadTypes' /\ AdmitIsStart' /\ IdIsOwn' /\ ProcTypes' /\ EndIsExit'
  BY <1>6, <1>7, <1>8, StepKeeps
<1> QED BY <1>7, <1>9, <1>10 DEF CommandInv

----------------------------------------------------------------------------
(* Signals, deadlines and exits.                                           *)

LEMMA SignalsKeep ==
  ASSUME CommandInv, NEW t \in RequestThreads, Abandon(t) \/ KillSend(t) \/ KillWait(t)
  PROVE  CommandInv' /\ RecordsKept
<1> DEFINE c == thread[t].c
<1>1. thread[t] \in Handling /\ c \in Ids
  BY DEF CommandInv, ThreadTypes, Handling
<1>2. {"startup_failure", "explicit_kill"} \subseteq Sources
  BY DEF Sources
<1>3. reports' = reports /\ active' = active
  BY DEF Abandon, KillSend, KillWait, tableVars
<1>4. PICK h : /\ h \in Handling /\ thread' = [thread EXCEPT ![t] = h]
               /\ h.pc \notin {"refresh", "move", "admit"}
  <2>1. CASE Abandon(t)
    <3> DEFINE h == [thread[t] EXCEPT !.pc = "forget"]
    <3>1. h \in Handling /\ h.pc = "forget"
      BY <1>1 DEF Handling, Positions
    <3>2. thread' = [thread EXCEPT ![t] = h]
      BY <2>1 DEF Abandon, GoOn
    <3> HIDE DEF h
    <3> QED BY <3>1, <3>2
  <2>2. CASE KillSend(t)
    <3>1. PICK signal \in {"TERM", "KILL"} :
            thread' = [thread EXCEPT ![t].was = Alive(c), ![t].forced = Alive(c) /\ signal = "KILL",
                                     ![t].pc = IF Alive(c) THEN "wait" ELSE "observe"]
      BY <2>2 DEF KillSend
    <3> DEFINE alive == proc[c].state = "running"
               h == [thread[t] EXCEPT !.was = alive, !.forced = alive /\ signal = "KILL",
                                      !.pc = IF alive THEN "wait" ELSE "observe"]
    <3>2. h \in Handling /\ h.pc \in {"wait", "observe"}
      BY <1>1 DEF Handling, Positions
    <3>3. thread' = [thread EXCEPT ![t] = h]
      BY <1>1, <3>1 DEF CommandInv, ThreadTypes, Alive
    <3> HIDE DEF h
    <3> QED BY <3>2, <3>3
  <2>3. CASE KillWait(t)
    <3> DEFINE h == [thread[t] EXCEPT !.pc = "observe", !.forced = FALSE]
               f == [thread[t] EXCEPT !.forced = TRUE]
    <3>1. /\ h \in Handling /\ h.pc = "observe" /\ f \in Handling
          /\ f.pc = "wait"
      BY <1>1, <2>3 DEF Handling, Positions, KillWait, Doing
    <3>2. thread' = [thread EXCEPT ![t] = h] \/ thread' = [thread EXCEPT ![t] = f]
      BY <1>1, <2>3 DEF KillWait, CommandInv, ThreadTypes
    <3> HIDE DEF h, f
    <3> QED BY <3>1, <3>2
  <2> QED BY <2>1, <2>2, <2>3
<1>5. ThreadKept(t)
  BY <1>3, <1>4, GoesOn DEF CommandInv, ThreadTypes
<1>6. RecordsKept /\ ProcsKept /\ NoneSpawned
  <2>1. CASE Abandon(t)
    <3>1. /\ proc' = [proc EXCEPT ![c] = Signalled(proc[c], "KILL")]
          /\ cmd' = [cmd EXCEPT ![c] = [Terminated(cmd[c], proc[c], "startup_failure")
                                         EXCEPT !.callback = FALSE]]
      BY <2>1 DEF Abandon
    <3> HIDE DEF c
    <3> QED BY <1>1, <1>2, <3>1, Signalling DEF CommandInv
  <2>2. CASE KillSend(t)
    <3>1. PICK signal \in {"TERM", "KILL"} :
            /\ proc' = [proc EXCEPT ![c] = Signalled(proc[c], signal)]
            /\ cmd' = [cmd EXCEPT ![c] = Terminated(cmd[c], proc[c], "explicit_kill")]
      BY <2>2 DEF KillSend
    <3> HIDE DEF c
    <3>2. FALSE \in BOOLEAN
      OBVIOUS
    <3> QED BY <1>1, <1>2, <3>1, <3>2, Signalling DEF CommandInv
  <2>3. CASE KillWait(t)
    <3>1. CASE UNCHANGED <<proc, cmd>>
      BY <3>1, NoRecord, NoProcess DEF CommandInv
    <3>2. CASE /\ proc' = [proc EXCEPT ![c] = Signalled(proc[c], "KILL")]
               /\ cmd' = [cmd EXCEPT ![c] = Terminated(cmd[c], proc[c], "explicit_kill")]
      <4> HIDE DEF c
      <4>1. FALSE \in BOOLEAN
        OBVIOUS
      <4> QED BY <1>1, <1>2, <3>2, <4>1, Signalling DEF CommandInv
    <3> QED BY <2>3, <3>1, <3>2 DEF KillWait
  <2> QED BY <2>1, <2>2, <2>3
<1> QED BY <1>3, <1>5, <1>6, QuietStep DEF ReportsKept

\* Closing signals every command that was listed.
LEMMA CloseKeeps ==
  ASSUME CommandInv, NEW t \in RequestThreads, CloseSignal(t)
  PROVE  CommandInv' /\ RecordsKept
<1>1. PICK signal \in {"TERM", "KILL"} :
        /\ proc' = [c \in Ids |-> IF c \in thread[t].todo THEN Signalled(proc[c], signal) ELSE proc[c]]
        /\ cmd' = [c \in Ids |-> IF c \in thread[t].todo
                                  THEN Terminated(cmd[c], proc[c], "parent_shutdown") ELSE cmd[c]]
        /\ GoOn(t, "close_kill") \/ End(t)
  BY DEF CloseSignal
<1>2. reports' = reports /\ active' = active
  BY DEF CloseSignal, tableVars
<1> DEFINE h == [thread[t] EXCEPT !.pc = "close_kill"]
<1>3. h \in Handling /\ h.pc = "close_kill"
  BY DEF CommandInv, ThreadTypes, Handling, Positions
<1>4. thread' = [thread EXCEPT ![t] = h] \/ thread' = [thread EXCEPT ![t] = NoThread]
  BY <1>1 DEF GoOn, End
<1> HIDE DEF h
<1>5. ThreadKept(t)
  BY <1>2, <1>3, <1>4, Idle, GoesOn DEF CommandInv, ThreadTypes
<1>6. "parent_shutdown" \in Sources
  BY DEF Sources
<1>7. ASSUME NEW c \in Ids
      PROVE  /\ cmd'[c] \in Records /\ (cmd[c].completed => cmd'[c] = cmd[c])
             /\ cmd'[c].completed = cmd[c].completed
             /\ proc'[c] \in Procs /\ proc'[c].state = proc[c].state /\ proc'[c].code = proc[c].code
  <2>1. /\ cmd[c] \in Records /\ proc[c] \in Procs
        /\ cmd[c].completed => proc[c].state = "exited"
    BY DEF CommandInv, ProcTypes, EndIsExit, Exited
  <2>2. CASE c \in thread[t].todo
    <3>1. /\ cmd'[c] = Terminated(cmd[c], proc[c], "parent_shutdown")
          /\ proc'[c] = Signalled(proc[c], signal)
      BY <1>1, <2>2
    <3> QED BY <1>6, <2>1, <3>1, TerminatedKeeps, SignalledKeeps
  <2>3. CASE c \notin thread[t].todo
    BY <1>1, <2>1, <2>3
  <2> QED BY <2>2, <2>3
<1>8. RecordsKept
  <2>1. cmd' = [c \in Ids |-> cmd'[c]]
    BY <1>1
  <2> QED BY <1>7, <2>1 DEF RecordsKept, Unchanging, CommandInv, EndIsExit
<1>9. ProcsKept /\ NoneSpawned
  <2>1. proc' = [c \in Ids |-> proc'[c]]
    BY <1>1
  <2> QED BY <1>7, <2>1 DEF ProcsKept, NoneSpawned, Exited, CommandInv, ProcTypes, Coded
<1> QED BY <1>2, <1>5, <1>8, <1>9, QuietStep DEF ReportsKept

LEMMA WatchdogKeeps ==
  ASSUME CommandInv, NEW c \in Ids, WatchdogStep(c)
  PROVE  CommandInv' /\ RecordsKept
<1>1. thread' = thread /\ active' = active /\ ReportsKept
  BY DEF WatchdogStep, WatchdogLate, WatchdogEnd, tableVars, ReportsKept
<1>2. CASE WatchdogLate(c)
  <2>1. PICK signal \in {"TERM", "KILL"} :
          /\ proc' = [proc EXCEPT ![c] = Signalled(proc[c], signal)]
          /\ cmd' = [cmd EXCEPT ![c] = Terminated(cmd[c], proc[c], "command_timeout")]
    BY <1>2 DEF WatchdogLate
  <2>2. "command_timeout" \in Sources /\ FALSE \in BOOLEAN
    BY DEF Sources
  <2>3. RecordsKept /\ ProcsKept /\ NoneSpawned
    BY <2>1, <2>2, Signalling DEF CommandInv
  <2> QED BY <1>1, <2>3, QuietStep
<1>3. CASE WatchdogEnd(c)
  <2>1. cmd' = [cmd EXCEPT ![c] = RefreshedCmd(c, FALSE)] /\ proc' = proc
    BY <1>3 DEF WatchdogEnd
  <2>2. cmd[c].completed => Unchanging(cmd[c], RefreshedCmd(c, FALSE))
    BY RefreshedKeeps DEF CommandInv, Unchanging
  <2>3. RecordsKept
    BY <2>1, <2>2, RefreshedKeeps, OneRecord DEF CommandInv
  <2> QED BY <1>1, <2>1, <2>3, NoProcess, QuietStep DEF CommandInv
<1> QED BY <1>2, <1>3 DEF WatchdogStep

LEMMA ExitKeeps ==
  ASSUME CommandInv, NEW c \in Ids, ProcessEnds(c)
  PROVE  CommandInv' /\ RecordsKept
<1>1. PICK code \in {"exited", "signal"} :
        proc' = [proc EXCEPT ![c] = [NoProc EXCEPT !.state = "exited", !.code = code]]
  BY DEF ProcessEnds
<1> DEFINE p == [NoProc EXCEPT !.state = "exited", !.code = code]
<1>2. p \in Procs /\ p.state = "exited" /\ p.code # "none" /\ proc' = [proc EXCEPT ![c] = p]
  BY <1>1 DEF NoProc, Procs
<1> HIDE DEF p
<1>3. ProcsKept /\ NoneSpawned
  BY <1>2 DEF ProcsKept, NoneSpawned, ProcessEnds, Alive, Exited, Coded, CommandInv, ProcTypes
<1>4. RecordsKept /\ ReportsKept /\ thread' = thread /\ active' = active
  BY NoRecord DEF ProcessEnds, tableVars, ReportsKept, CommandInv
<1> QED BY <1>3, <1>4, QuietStep

----------------------------------------------------------------------------
(* The invariant.                                                          *)

LEMMA CommandStarts == CommandsInit => CommandInv
<1> SUFFICES ASSUME CommandsInit PROVE CommandInv
  OBVIOUS
<1>1. NoProc \in Procs /\ NoProc.state = "none" /\ NoCmd \in Records /\ NoCmd.completed = FALSE
  BY DEF NoProc, Procs, NoCmd, Records, Sources
<1>2. ProcTypes /\ EndIsExit
  BY <1>1 DEF CommandsInit, ProcTypes, Coded, EndIsExit
<1>3. ThreadTypes /\ IdIsOwn /\ AdmitIsStart
  BY Idle DEF CommandsInit, ThreadTypes, IdIsOwn, AdmitIsStart, Starting
<1>4. ReportsRecorded /\ DOMAIN reports = Ids
  BY DEF CommandsInit, ReportsRecorded
<1> QED BY <1>2, <1>3, <1>4 DEF CommandInv

LEMMA CommandKeeps ==
  ASSUME CommandInv, [CommandsNext]_commandsVars
  PROVE  CommandInv' /\ RecordsKept
<1>1. CASE UNCHANGED commandsVars
  BY <1>1, NoRecord, NoProcess, QuietStep DEF commandsVars, CommandInv, ReportsKept
<1>2. ASSUME NEW t \in RequestThreads, Request(t) PROVE CommandInv' /\ RecordsKept
  BY <1>2, RequestKeeps, NoRecord DEF Request, CommandInv
<1>3. ASSUME NEW t \in RequestThreads, ThreadStep(t) PROVE CommandInv' /\ RecordsKept
  BY <1>3, PruneRefreshKeeps, PruneMoveKeeps, MovesKeep, SpawnKeeps, ObserveKeeps, SignalsKeep, CloseKeeps
     DEF ThreadStep
<1>4. ASSUME NEW c \in Ids, WatchdogStep(c) \/ ProcessEnds(c) PROVE CommandInv' /\ RecordsKept
  BY <1>4, WatchdogKeeps, ExitKeeps
<1> QED BY <1>1, <1>2, <1>3, <1>4 DEF CommandsNext

----------------------------------------------------------------------------
(* Sequences without some of their elements.  That the recursion defines a *)
(* function and what it computes is proved by induction on a set of        *)
(* numbers, which needs no operator as a parameter.                        *)

\* Induction on a set of natural numbers.
LEMMA Induction ==
  ASSUME NEW S, 0 \in S, \A n \in Nat : n \in S => n + 1 \in S
  PROVE  Nat \subseteq S
<1> DEFINE T == Nat \ S
           Less == {pair \in Nat \X Nat : pair[1] < pair[2]}
<1>1. IsWellFoundedOn(Less, Nat)
  BY NatLessThanWellFounded, Zenon DEF OpToRel
<1>2. CASE T # {}
  <2>1. PICK n \in T : \A m \in T : <<m, n>> \notin Less
    BY <1>1, <1>2, WFMin
  <2>2. n # 0 /\ n - 1 \in Nat /\ n = (n - 1) + 1 /\ <<n - 1, n>> \in Less
    BY <2>1
  <2>3. n - 1 \in S
    BY <2>1, <2>2
  <2> QED BY <2>1, <2>2, <2>3
<1> QED BY <1>2

IsLeft(f, s, gone) ==
  f = [n \in 0..Len(s) |-> IF n = 0 THEN <<>> ELSE
         IF s[n] \in gone THEN f[n - 1] ELSE Append(f[n - 1], s[n])]

\* The recursion that leaves elements out of a sequence is one of a function.
LEMMA LeftIsFunction ==
  ASSUME NEW S, NEW s \in Seq(S), NEW gone
  PROVE  \E f : IsLeft(f, s, gone)
<1> DEFINE Upto(k, f) ==
             /\ f \in [0..k -> Seq(S)] /\ f[0] = <<>>
             /\ \A n \in 1..k : f[n] = IF s[n] \in gone THEN f[n - 1] ELSE Append(f[n - 1], s[n])
           Good == {k \in Nat : k <= Len(s) => \E f : Upto(k, f)}
<1>1. 0 \in Good
  <2>1. Upto(0, [n \in 0..0 |-> <<>>])
    OBVIOUS
  <2> QED BY <2>1
<1>2. ASSUME NEW k \in Nat, k \in Good PROVE k + 1 \in Good
  <2> SUFFICES ASSUME k + 1 <= Len(s) PROVE \E f : Upto(k + 1, f)
    <3> HIDE DEF Upto
    <3> QED OBVIOUS
  <2>1. PICK f : Upto(k, f)
    <3> HIDE DEF Upto
    <3> QED BY <1>2
  <2> DEFINE next == IF s[k + 1] \in gone THEN f[k] ELSE Append(f[k], s[k + 1])
             g == [n \in 0..(k + 1) |-> IF n = k + 1 THEN next ELSE f[n]]
  <2>2. s[k + 1] \in S /\ f[k] \in Seq(S)
    BY <2>1
  <2>3. next \in Seq(S)
    BY <2>2
  <2> HIDE DEF next
  <2>4. g \in [0..(k + 1) -> Seq(S)] /\ g[k + 1] = next /\ \A n \in 0..k : g[n] = f[n]
    BY <2>1, <2>3
  <2> HIDE DEF g
  <2>5. \A n \in 1..(k + 1) : n = k + 1 \/ (n \in 1..k /\ n - 1 \in 0..k)
    OBVIOUS
  <2>6. ASSUME NEW n \in 1..(k + 1)
        PROVE  g[n] = IF s[n] \in gone THEN g[n - 1] ELSE Append(g[n - 1], s[n])
    <3>1. CASE n = k + 1
      BY <2>4, <3>1 DEF next
    <3>2. CASE n \in 1..k
      <4>1. g[n] = f[n] /\ g[n - 1] = f[n - 1]
        BY <2>4, <3>2
      <4> QED BY <2>1, <3>2, <4>1
    <3> QED BY <2>5, <3>1, <3>2
  <2>7. Upto(k + 1, g)
    BY <2>1, <2>4, <2>6
  <2> QED BY <2>7
<1>3. PICK f : Upto(Len(s), f)
  <2>1. Nat \subseteq Good
    <3> HIDE DEF Good
    <3> QED BY <1>1, <1>2, Induction
  <2>2. Len(s) \in Nat
    OBVIOUS
  <2> HIDE DEF Upto
  <2> QED BY <2>1, <2>2
<1>4. \A n \in 0..Len(s) : f[n] = IF n = 0 THEN <<>> ELSE IF s[n] \in gone THEN f[n - 1]
                                             ELSE Append(f[n - 1], s[n])
  <2>1. ASSUME NEW n \in 0..Len(s), n # 0 PROVE n \in 1..Len(s)
    BY <2>1
  <2> QED BY <1>3, <2>1
<1>5. f = [n \in 0..Len(s) |-> f[n]]
  BY <1>3
<1> QED BY <1>4, <1>5 DEF IsLeft

\* One more element at the end.
LEMMA Appended ==
  ASSUME NEW S, NEW s \in Seq(S), NEW e \in S
  PROVE  /\ ToSet(Append(s, e)) = ToSet(s) \cup {e}
         /\ IsInjective(s) /\ e \notin ToSet(s) => IsInjective(Append(s, e))
<1> DEFINE r == Append(s, e)
<1>1. /\ DOMAIN r = 1..(Len(s) + 1) /\ r[Len(s) + 1] = e
      /\ \A i \in 1..Len(s) : r[i] = s[i]
  OBVIOUS
<1>2. DOMAIN s = 1..Len(s) /\ Len(s) \in Nat
  OBVIOUS
<1> HIDE DEF r
<1>3. 1..(Len(s) + 1) = 1..Len(s) \cup {Len(s) + 1}
  BY <1>2
<1>4. ToSet(r) = ToSet(s) \cup {e}
  BY <1>1, <1>2, <1>3 DEF ToSet
<1>5. IsInjective(s) /\ e \notin ToSet(s) => IsInjective(r)
  BY <1>1, <1>2, <1>3 DEF ToSet, IsInjective
<1> QED BY <1>4, <1>5 DEF r

LEMMA WithoutIsRest ==
  ASSUME NEW S, NEW s \in Seq(S), NEW gone
  PROVE  /\ Without(s, gone) \in Seq(S)
         /\ ToSet(Without(s, gone)) = ToSet(s) \ gone
         /\ IsInjective(s) => IsInjective(Without(s, gone))
<1> DEFINE left == CHOOSE f : IsLeft(f, s, gone)
<1>1. Without(s, gone) = left[Len(s)]
  BY DEF Without, IsLeft
<1>2. left = [n \in 0..Len(s) |-> IF n = 0 THEN <<>> ELSE
                IF s[n] \in gone THEN left[n - 1] ELSE Append(left[n - 1], s[n])]
  <2>1. IsLeft(left, s, gone)
    BY LeftIsFunction
  <2> HIDE DEF left
  <2> QED BY <2>1 DEF IsLeft
<1> HIDE DEF left
<1>3. /\ left[0] = <<>>
      /\ \A n \in 1..Len(s) : left[n] = IF s[n] \in gone THEN left[n - 1] ELSE Append(left[n - 1], s[n])
  <2>1. 0 \in 0..Len(s) /\ \A n \in 1..Len(s) : n \in 0..Len(s) /\ n # 0
    OBVIOUS
  <2> QED BY <1>2, <2>1
<1> DEFINE Rest(n) == {s[i] : i \in 1..n} \ gone
           Good == {n \in Nat : n <= Len(s) =>
                      /\ left[n] \in Seq(S) /\ ToSet(left[n]) = Rest(n)
                      /\ IsInjective(s) => IsInjective(left[n])}
<1>4. 0 \in Good
  <2>1. left[0] \in Seq(S) /\ ToSet(left[0]) = {} /\ IsInjective(left[0])
    BY <1>3 DEF ToSet, IsInjective
  <2>2. Rest(0) = {}
    OBVIOUS
  <2> QED BY <2>1, <2>2
<1>5. ASSUME NEW n \in Nat, n \in Good PROVE n + 1 \in Good
  <2> SUFFICES ASSUME n + 1 <= Len(s)
               PROVE  /\ left[n + 1] \in Seq(S) /\ ToSet(left[n + 1]) = Rest(n + 1)
                      /\ IsInjective(s) => IsInjective(left[n + 1])
    OBVIOUS
  <2>1. /\ left[n] \in Seq(S) /\ ToSet(left[n]) = Rest(n)
        /\ IsInjective(s) => IsInjective(left[n])
    BY <1>5
  <2>2. left[n + 1] = IF s[n + 1] \in gone THEN left[n] ELSE Append(left[n], s[n + 1])
    BY <1>3
  <2>3. s[n + 1] \in S /\ \A i \in 1..(n + 1) : i \in 1..n \/ i = n + 1
    OBVIOUS
  <2>4. CASE s[n + 1] \in gone
    <3>1. Rest(n + 1) = Rest(n)
      BY <2>3, <2>4
    <3> QED BY <2>1, <2>2, <2>4, <3>1
  <2>5. CASE s[n + 1] \notin gone
    <3> DEFINE r == left[n]
    <3> HIDE DEF left
    <3>1. left[n + 1] = Append(r, s[n + 1]) /\ r \in Seq(S)
      BY <2>1, <2>2, <2>5
    <3>2. Rest(n + 1) = Rest(n) \cup {s[n + 1]}
      BY <2>3, <2>5
    <3>3. ToSet(Append(r, s[n + 1])) = ToSet(r) \cup {s[n + 1]}
      BY <2>3, <3>1, Appended
    <3>4. IsInjective(s) => s[n + 1] \notin Rest(n)
      BY <2>3 DEF IsInjective
    <3>5. IsInjective(r) /\ s[n + 1] \notin ToSet(r) => IsInjective(Append(r, s[n + 1]))
      BY <2>3, <3>1, Appended
    <3> QED BY <2>1, <2>3, <3>1, <3>2, <3>3, <3>4, <3>5
  <2> QED BY <2>4, <2>5
<1>6. Len(s) \in Good
  <2>1. Len(s) \in Nat
    OBVIOUS
  <2> HIDE DEF Good
  <2> QED BY <2>1, <1>4, <1>5, Induction
<1>7. Rest(Len(s)) = ToSet(s) \ gone
  BY DEF ToSet
<1> QED BY <1>1, <1>6, <1>7

----------------------------------------------------------------------------
(* The tables: what is listed, and what a thread relies on that will change *)
(* them when it comes to it.                                               *)

\* The start of a command failed: it was killed, and reports to nobody.
Doomed(c) == ~ cmd[c].callback /\ proc[c].killed
Over(c) == Exited(c) \/ Doomed(c)
Begun(c) == proc[c].state # "none"
Recorded(c) == cmd[c].completed \/ cmd[c].outcome = "running"

Tables ==
  /\ retained \in Seq(Ids) /\ IsInjective(retained) /\ active \subseteq Ids
  /\ active \cap ToSet(retained) = {}
  /\ evicted \cap (active \cup ToSet(retained)) = {}
  /\ \A c \in active \cup ToSet(retained) \cup evicted : c \in Ids /\ Begun(c)
  /\ IsFiniteSet(active) /\ Cardinality(active) <= MaxActive
  /\ \A c \in Ids : Recorded(c) /\ (Alive(c) => c \in active \/ Doomed(c))

\* Who is about to take a command out of the table of active ones has seen it end,
\* or has doomed it; and it is one that was started.
Knows(h, starting) ==
  /\ h.op = "close" => h.pc \in {"close", "close_term", "close_kill"}
  /\ h.pc # "idle" /\ h.op # "close" /\ ~ starting => Begun(h.c)
  /\ (h.pc \in {"setup", "abandon"} => h.op = "start") /\ (h.pc = "wait" => h.was)
  /\ h.pc = "move" => h.todo # {} /\ Exited(CHOOSE d \in h.todo : TRUE)
  /\ h.pc = "forget" => Over(h.c)
  /\ h.pc = "format" /\ h.seen # "running" => Exited(h.c)
  /\ h.pc \in {"observe", "format"} /\ h.op = "kill" /\ ~ h.was => Exited(h.c)
ThreadsKnow == \A t \in RequestThreads : Knows(thread[t], Starting(t))

TableInv == Tables /\ ThreadsKnow

----------------------------------------------------------------------------
(* What every step keeps of processes and records.                         *)

WorldKept ==
  \A c \in Ids : /\ (Begun(c) => Begun(c)') /\ (Recorded(c) => Recorded(c)')
                 /\ (Exited(c) => Exited(c)') /\ (Over(c) => Over(c)')
NoneRevived == \A c \in Ids : Alive(c)' => Alive(c)

\* Signals and records leave it to the process when it ends, and a killed process
\* stays killed, a command without a callback stays without one.
LEMMA WorldStays ==
  ASSUME CommandInv,
         \A c \in Ids : /\ proc'[c].state = proc[c].state
                        /\ proc[c].killed => proc'[c].killed
                        /\ ~ cmd[c].callback => ~ cmd'[c].callback
                        /\ Recorded(c) => Recorded(c)'
  PROVE  WorldKept /\ NoneRevived
  BY DEF WorldKept, NoneRevived, Begun, Exited, Over, Doomed, Alive

LEMMA SignalStays ==
  ASSUME NEW p \in Procs, NEW signal
  PROVE  Signalled(p, signal).state = p.state /\ (p.killed => Signalled(p, signal).killed)
  BY DEF Signalled, Procs

LEMMA TerminatedStays ==
  ASSUME NEW k \in Records, NEW p \in Procs, NEW source
  PROVE  /\ Terminated(k, p, source).callback = k.callback
         /\ Terminated(k, p, source).outcome = k.outcome
         /\ Terminated(k, p, source).completed = k.completed
         /\ LET n == [Terminated(k, p, source) EXCEPT !.callback = FALSE]
            IN n.callback = FALSE /\ n.outcome = k.outcome /\ n.completed = k.completed
  BY DEF Terminated, Records

LEMMA RefreshedStays ==
  ASSUME CommandInv, NEW c \in Ids, NEW late \in BOOLEAN
  PROVE  /\ RefreshedCmd(c, late).callback = cmd[c].callback
         /\ ObservedCmd(c, late).callback = cmd[c].callback
         /\ \/ RefreshedCmd(c, late).completed /\ ObservedCmd(c, late).completed
            \/ /\ RefreshedCmd(c, late).outcome = cmd[c].outcome /\ ~ cmd[c].completed
               /\ ObservedCmd(c, late).outcome = cmd[c].outcome
<1> DEFINE k == IF late THEN Terminated(cmd[c], proc[c], "command_timeout") ELSE cmd[c]
<1>1. cmd[c] \in Records /\ proc[c] \in Procs
  BY DEF CommandInv, ProcTypes
<1>2. /\ k \in Records /\ k.callback = cmd[c].callback
      /\ k.outcome = cmd[c].outcome /\ k.completed = cmd[c].completed
  <2>1. CASE late
    <3>1. "command_timeout" \in Sources /\ (cmd[c].completed => proc[c].state = "exited")
      BY DEF Sources, CommandInv, EndIsExit, Exited
    <3> QED BY <1>1, <2>1, <3>1, TerminatedKeeps, TerminatedStays
  <2>2. CASE ~ late
    BY <1>1, <2>2
  <2> QED BY <2>1, <2>2
<1>3. RefreshedCmd(c, late) =
        IF k.completed \/ ~ Exited(c) THEN k
        ELSE [k EXCEPT !.completed = TRUE, !.outcome = Outcome(k, proc[c]),
                       !.source = IF @ = "none" /\ proc[c].code = "signal" THEN "external_or_unknown" ELSE @]
  BY DEF RefreshedCmd
<1> HIDE DEF k
<1>4. /\ RefreshedCmd(c, late).callback = cmd[c].callback
      /\ \/ RefreshedCmd(c, late).completed
         \/ RefreshedCmd(c, late).outcome = cmd[c].outcome /\ ~ cmd[c].completed
  BY <1>2, <1>3 DEF Records
<1>5. RefreshedCmd(c, late) \in Records
  BY RefreshedKeeps DEF CommandInv
<1> QED BY <1>4, <1>5 DEF ObservedCmd, Records

\* One record or process changed, or none.
LEMMA RecordStays ==
  ASSUME CommandInv, NEW c \in Ids, NEW late \in BOOLEAN, proc' = proc,
         \/ cmd' = [cmd EXCEPT ![c] = RefreshedCmd(c, late)]
         \/ cmd' = [cmd EXCEPT ![c] = ObservedCmd(c, late)]
  PROVE  WorldKept /\ NoneRevived
<1>1. \A d \in Ids : cmd'[d].callback = cmd[d].callback /\ (Recorded(d) => Recorded(d)')
  BY RefreshedStays DEF CommandInv, ProcTypes, Recorded
<1> QED BY <1>1, WorldStays

LEMMA SignallingStays ==
  ASSUME CommandInv, NEW c \in Ids, NEW signal, NEW source,
         proc' = [proc EXCEPT ![c] = Signalled(proc[c], signal)],
         \/ cmd' = [cmd EXCEPT ![c] = Terminated(cmd[c], proc[c], source)]
         \/ cmd' = [cmd EXCEPT ![c] = [Terminated(cmd[c], proc[c], source) EXCEPT !.callback = FALSE]]
  PROVE  WorldKept /\ NoneRevived
<1>1. \A d \in Ids : cmd[d] \in Records /\ proc[d] \in Procs
  BY DEF CommandInv, ProcTypes
<1>2. \A d \in Ids : /\ proc'[d].state = proc[d].state
                     /\ proc[d].killed => proc'[d].killed
  BY <1>1, SignalStays DEF CommandInv, ProcTypes
<1>3. \A d \in Ids : (~ cmd[d].callback => ~ cmd'[d].callback) /\ (Recorded(d) => Recorded(d)')
  <2> DEFINE k == Terminated(cmd[c], proc[c], source)
  <2>1. k.callback = cmd[c].callback /\ k.outcome = cmd[c].outcome /\ k.completed = cmd[c].completed
    BY <1>1, TerminatedStays
  <2> HIDE DEF k
  <2>2. CASE cmd' = [cmd EXCEPT ![c] = k]
    BY <2>1, <2>2 DEF CommandInv, ProcTypes, Recorded
  <2>3. CASE cmd' = [cmd EXCEPT ![c] = [k EXCEPT !.callback = FALSE]]
    <3>1. cmd'[c] = [k EXCEPT !.callback = FALSE] /\ \A d \in Ids \ {c} : cmd'[d] = cmd[d]
      BY <2>3 DEF CommandInv, ProcTypes
    <3>2. /\ cmd'[c].callback = FALSE /\ cmd'[c].outcome = cmd[c].outcome
          /\ cmd'[c].completed = cmd[c].completed
      BY <1>1, <3>1, TerminatedStays DEF k
    <3> QED BY <3>1, <3>2 DEF Recorded
  <2> QED BY <2>2, <2>3 DEF k
<1> QED BY <1>2, <1>3, WorldStays

\* The tables stay as they are.
LEMMA TablesStand ==
  ASSUME CommandInv, Tables, WorldKept, NoneRevived, UNCHANGED <<active, retained, evicted>>
  PROVE  Tables'
<1>1. \A c \in active \cup ToSet(retained) \cup evicted : c \in Ids /\ Begun(c)'
  BY DEF Tables, WorldKept
<1>2. \A c \in Ids : Alive(c)' => c \in active' \/ Doomed(c)'
  BY DEF Tables, WorldKept, NoneRevived, Over, Alive, Exited
<1>3. \A c \in Ids : Recorded(c)'
  BY DEF Tables, WorldKept
<1> QED BY <1>1, <1>2, <1>3 DEF Tables

\* A command that is over goes to the young end of the retained ones.
LEMMA TablesRetain ==
  ASSUME CommandInv, Tables, NEW c \in active \cup ToSet(retained), Over(c),
         active' = active \ {c}, retained' = Append(Drop(c), c),
         UNCHANGED <<proc, cmd, evicted>>
  PROVE  Tables'
<1>1. c \in Ids /\ retained \in Seq(Ids) /\ IsInjective(retained)
  BY DEF Tables
<1>2. /\ Drop(c) \in Seq(Ids) /\ ToSet(Drop(c)) = ToSet(retained) \ {c} /\ IsInjective(Drop(c))
  BY <1>1, WithoutIsRest DEF Drop
<1>3. /\ retained' \in Seq(Ids) /\ ToSet(retained') = ToSet(retained) \cup {c} /\ IsInjective(retained')
  <2> DEFINE r == Drop(c)
  <2> HIDE DEF r
  <2>1. Append(r, c) \in Seq(Ids)
    BY <1>1, <1>2 DEF r
  <2>2. ToSet(Append(r, c)) = ToSet(r) \cup {c} /\ IsInjective(Append(r, c))
    BY <1>1, <1>2, Appended DEF r
  <2> QED BY <1>2, <2>1, <2>2 DEF r
<1>4. IsFiniteSet(active') /\ Cardinality(active') <= MaxActive
  <2>1. IsFiniteSet(active) /\ active' \in SUBSET active /\ Cardinality(active) <= MaxActive
    BY DEF Tables
  <2>2. IsFiniteSet(active') /\ Cardinality(active') <= Cardinality(active)
    BY <2>1, FS_Subset
  <2> QED BY <2>1, <2>2, FS_CardinalityType, CommandLimits
<1>5. \A d \in Ids : Recorded(d)' /\ (Alive(d)' => d \in active' \/ Doomed(d)')
  BY DEF Tables, Alive, Doomed, Over, Exited, Recorded
<1>6. \A d \in active' \cup ToSet(retained') \cup evicted' : d \in Ids /\ Begun(d)'
  BY <1>3 DEF Tables, Begun
<1>7. /\ active' \subseteq Ids /\ active' \cap ToSet(retained') = {}
      /\ evicted' \cap (active' \cup ToSet(retained')) = {}
  BY <1>3 DEF Tables
<1> QED BY <1>3, <1>4, <1>5, <1>6, <1>7 DEF Tables

\* Commands that were retained, or one that is over, are evicted.
LEMMA TablesEvict ==
  ASSUME CommandInv, Tables, UNCHANGED <<proc, cmd>>,
         retained' \in Seq(Ids), IsInjective(retained'), ToSet(retained') \subseteq ToSet(retained),
         NEW gone \in SUBSET Ids, evicted' = evicted \cup gone, active' = active \ gone,
         gone \cap ToSet(retained') = {}, \A c \in gone : Begun(c) /\ (c \in active => Over(c))
  PROVE  Tables'
<1>1. IsFiniteSet(active') /\ Cardinality(active') <= MaxActive
  <2>1. IsFiniteSet(active) /\ active' \in SUBSET active /\ Cardinality(active) <= MaxActive
    BY DEF Tables
  <2>2. IsFiniteSet(active') /\ Cardinality(active') <= Cardinality(active)
    BY <2>1, FS_Subset
  <2> QED BY <2>1, <2>2, FS_CardinalityType, CommandLimits
<1>2. \A d \in Ids : Recorded(d)' /\ (Alive(d)' => d \in active' \/ Doomed(d)')
  BY DEF Tables, Alive, Doomed, Over, Exited, Recorded
<1>3. \A d \in active' \cup ToSet(retained') \cup evicted' : d \in Ids /\ Begun(d)'
  BY DEF Tables, Begun
<1>4. /\ active' \subseteq Ids /\ active' \cap ToSet(retained') = {}
      /\ evicted' \cap (active' \cup ToSet(retained')) = {}
  BY DEF Tables
<1> QED BY <1>1, <1>2, <1>3, <1>4 DEF Tables

\* What a thread knows stays true while others act.
LEMMA ThreadStays ==
  ASSUME CommandInv, ThreadsKnow, WorldKept, NEW t \in RequestThreads, thread'[t] = thread[t]
  PROVE  Knows(thread[t], Starting(t))'
<1>1. thread[t] \in Handling /\ Knows(thread[t], Starting(t))
  BY DEF CommandInv, ThreadTypes, ThreadsKnow
<1>2. thread[t].c \in Ids /\ \A d \in thread[t].todo : d \in Ids
  BY <1>1 DEF Handling
<1>3. thread[t].todo # {} => (CHOOSE d \in thread[t].todo : TRUE) \in thread[t].todo
  OBVIOUS
<1> QED BY <1>1, <1>2, <1>3 DEF Knows, WorldKept, Starting

\* A step of no thread, and one of one thread.
LEMMA ThreadsStand ==
  ASSUME CommandInv, ThreadsKnow, WorldKept, thread' = thread
  PROVE  ThreadsKnow'
  BY ThreadStays DEF ThreadsKnow

LEMMA ThreadMoves ==
  ASSUME CommandInv, ThreadsKnow, WorldKept, NEW t \in RequestThreads, NEW h \in Handling,
         thread' = [thread EXCEPT ![t] = h],
         h.op = "close" => h.pc \in {"close", "close_term", "close_kill"},
         h.pc # "idle" /\ h.op # "close" /\ ~ (h.op = "start" /\ h.pc \in {"refresh", "move", "admit"}) =>
           Begun(h.c) \/ proc'[h.c].state # "none",
         h.pc \in {"setup", "abandon"} => h.op = "start", h.pc = "wait" => h.was,
         h.pc = "move" => h.todo # {} /\ Exited(CHOOSE d \in h.todo : TRUE),
         h.pc = "forget" => Over(h.c) \/ (~ cmd'[h.c].callback /\ proc'[h.c].killed),
         h.pc = "format" /\ h.seen # "running" => Exited(h.c),
         h.pc \in {"observe", "format"} /\ h.op = "kill" /\ ~ h.was => Exited(h.c)
  PROVE  ThreadsKnow'
<1>1. thread'[t] = h /\ \A u \in RequestThreads \ {t} : thread'[u] = thread[u]
  BY DEF CommandInv, ThreadTypes
<1>2. h.c \in Ids /\ \A d \in h.todo : d \in Ids
  BY DEF Handling
<1>3. h.todo # {} => (CHOOSE d \in h.todo : TRUE) \in h.todo
  OBVIOUS
<1>4. /\ h.op # "close" /\ h.pc # "idle" /\ ~ Starting(t)' => Begun(h.c)'
      /\ h.pc = "move" => h.todo # {} /\ Exited(CHOOSE d \in h.todo : TRUE)'
      /\ h.pc = "forget" => Over(h.c)'
      /\ h.pc = "format" /\ h.seen # "running" => Exited(h.c)'
      /\ h.pc \in {"observe", "format"} /\ h.op = "kill" /\ ~ h.was => Exited(h.c)'
  BY <1>1, <1>2, <1>3 DEF WorldKept, Starting, Begun, Over, Doomed
<1>5. Knows(thread[t], Starting(t))'
  BY <1>1, <1>4 DEF Knows, Begun, Over, Doomed, Exited
<1> QED BY <1>1, <1>5, ThreadStays DEF ThreadsKnow

LEMMA NothingStays ==
  ASSUME CommandInv, UNCHANGED <<proc, cmd>>
  PROVE  WorldKept /\ NoneRevived
  BY WorldStays DEF Recorded

\* A thread ends, or goes on at another place.
LEMMA ThreadEnds ==
  ASSUME CommandInv, ThreadsKnow, WorldKept, NEW t \in RequestThreads, End(t)
  PROVE  ThreadsKnow'
<1>1. NoThread \in Handling /\ NoThread.pc = "idle" /\ NoThread.op = "poll"
  BY Idle DEF NoThread
<1> QED BY <1>1, ThreadMoves DEF End

LEMMA ThreadGoes ==
  ASSUME CommandInv, ThreadsKnow, WorldKept, NEW t \in RequestThreads, NEW pc \in Positions,
         GoOn(t, pc),
         pc \notin {"idle", "refresh", "move", "format", "close"}, thread[t].pc # "idle",
         thread[t].op = "close" => pc \in {"close_term", "close_kill"},
         pc = "admit" => thread[t].op = "start",
         Starting(t) => pc = "admit" \/ proc'[thread[t].c].state # "none",
         pc \in {"setup", "abandon"} => thread[t].op = "start",
         pc = "wait" => thread[t].was,
         pc = "forget" => \/ Over(thread[t].c)
                          \/ ~ cmd'[thread[t].c].callback /\ proc'[thread[t].c].killed,
         pc = "observe" /\ thread[t].op = "kill" => thread[t].was \/ Exited(thread[t].c)
  PROVE  ThreadsKnow'
<1> DEFINE h == [thread[t] EXCEPT !.pc = pc]
<1>1. thread[t] \in Handling /\ Knows(thread[t], Starting(t))
  BY DEF CommandInv, ThreadTypes, ThreadsKnow
<1>2. /\ h \in Handling /\ h.pc = pc /\ h.op = thread[t].op /\ h.c = thread[t].c /\ h.was = thread[t].was
      /\ thread' = [thread EXCEPT ![t] = h]
  BY <1>1 DEF Handling, GoOn
<1> HIDE DEF h
<1>3. h.op # "close" /\ ~ (h.op = "start" /\ h.pc \in {"refresh", "move", "admit"}) =>
        Begun(h.c) \/ proc'[h.c].state # "none"
  BY <1>1, <1>2 DEF Knows, Starting
<1> QED BY <1>1, <1>2, <1>3, ThreadMoves

LEMMA RequestKnows ==
  ASSUME CommandInv, TableInv, NEW t \in RequestThreads, Request(t)
  PROVE  TableInv'
<1>1. PICK op \in Ops, c \in Ids :
        /\ op \in {"poll", "kill"} => Begun(c)
        /\ thread' = [thread EXCEPT ![t] = [NoThread EXCEPT !.op = op, !.c = c,
                        !.pc = IF op = "close" THEN "close" ELSE "refresh",
                        !.todo = IF op = "close" THEN {} ELSE active]]
  BY DEF Request, Begun
<1> DEFINE h == [NoThread EXCEPT !.op = op, !.c = c, !.pc = IF op = "close" THEN "close" ELSE "refresh",
                                 !.todo = IF op = "close" THEN {} ELSE active]
<1>2. /\ h \in Handling /\ h.op = op /\ h.c = c
      /\ (op = "close" => h.pc = "close") /\ (op # "close" => h.pc = "refresh")
  BY Idle DEF CommandInv, ThreadTypes, Handling, Positions
<1>3. thread' = [thread EXCEPT ![t] = h]
  BY <1>1
<1> HIDE DEF h
<1>4. UNCHANGED <<proc, cmd>> /\ UNCHANGED <<active, retained, evicted>>
  BY DEF Request, tableVars
<1>5. WorldKept /\ NoneRevived
  BY <1>4, NothingStays
<1>6. h.op \in {"poll", "kill"} => Begun(h.c)
  BY <1>1, <1>2
<1>7. ThreadsKnow'
  BY <1>2, <1>3, <1>5, <1>6, ThreadMoves DEF TableInv, Ops
<1> QED BY <1>4, <1>5, <1>7, TablesStand DEF TableInv

LEMMA PruneRefreshKnows ==
  ASSUME CommandInv, TableInv, NEW t \in RequestThreads, PruneRefresh(t)
  PROVE  TableInv'
<1> DEFINE c == CHOOSE d \in thread[t].todo : TRUE
           moved == [thread[t] EXCEPT !.pc = "move"]
           next == [thread[t] EXCEPT !.todo = @ \ {c}]
<1>1. /\ thread[t] \in Handling /\ thread[t].pc = "refresh" /\ thread[t].todo # {}
      /\ Knows(thread[t], Starting(t))
  BY DEF PruneRefresh, Doing, CommandInv, ThreadTypes, TableInv, ThreadsKnow
<1>2. c \in Ids
  BY <1>1 DEF Handling
<1>3. PICK late \in BOOLEAN : cmd' = [cmd EXCEPT ![c] = RefreshedCmd(c, late)]
  BY DEF PruneRefresh, MayBeLate
<1>4. \/ Exited(c) /\ thread' = [thread EXCEPT ![t] = moved]
      \/ thread' = [thread EXCEPT ![t] = next]
  BY <1>1 DEF PruneRefresh
<1>5. proc' = proc /\ UNCHANGED <<active, retained, evicted>>
  BY DEF PruneRefresh, tableVars
<1>6. /\ moved \in Handling /\ moved.op = thread[t].op /\ moved.c = thread[t].c /\ moved.pc = "move"
      /\ moved.todo = thread[t].todo
      /\ next \in Handling /\ next.op = thread[t].op /\ next.c = thread[t].c /\ next.pc = "refresh"
  BY <1>1 DEF Handling, Positions
<1>7. WorldKept /\ NoneRevived
  <2> HIDE DEF c
  <2> QED BY <1>2, <1>3, <1>5, RecordStays
<1>8. Exited(c) => moved.todo # {} /\ Exited(CHOOSE d \in moved.todo : TRUE)
  BY <1>1, <1>6
<1> HIDE DEF c, moved, next
<1>9. thread[t].op # "close" /\ (thread[t].op # "start" => Begun(thread[t].c))
  BY <1>1 DEF Knows, Starting
<1>10. ThreadsKnow'
  BY <1>4, <1>6, <1>7, <1>8, <1>9, ThreadMoves DEF TableInv
<1> QED BY <1>5, <1>7, <1>10, TablesStand DEF TableInv

LEMMA PruneMoveKnows ==
  ASSUME CommandInv, TableInv, NEW t \in RequestThreads, PruneMove(t)
  PROVE  TableInv'
<1> DEFINE c == CHOOSE d \in thread[t].todo : TRUE
           h == [thread[t] EXCEPT !.pc = "refresh", !.todo = @ \ {c}]
<1>1. thread[t] \in Handling /\ thread[t].pc = "move" /\ Knows(thread[t], Starting(t))
  BY DEF PruneMove, Doing, CommandInv, ThreadTypes, TableInv, ThreadsKnow
<1>2. thread' = [thread EXCEPT ![t] = h] /\ active' = active \ {c}
  BY <1>1 DEF PruneMove
<1>3. /\ UNCHANGED <<proc, cmd>> /\ evicted' = evicted
      /\ retained' = IF c \in active THEN Append(Drop(c), c) ELSE retained
  BY DEF PruneMove
<1>4. h \in Handling /\ h.op = thread[t].op /\ h.c = thread[t].c /\ h.pc = "refresh"
  BY <1>1 DEF Handling, Positions
<1>5. Exited(c)
  BY <1>1 DEF Knows
<1> HIDE DEF c, h
<1>6. WorldKept /\ NoneRevived
  BY <1>3, NothingStays
<1>7. thread[t].op # "close" /\ (thread[t].op # "start" => Begun(thread[t].c))
  BY <1>1 DEF Knows, Starting
<1>8. ThreadsKnow'
  BY <1>2, <1>4, <1>6, <1>7, ThreadMoves DEF TableInv
<1>9. CASE c \in active
  BY <1>2, <1>3, <1>5, <1>8, <1>9, TablesRetain DEF TableInv, Over
<1>10. CASE c \notin active
  <2>1. active' = active /\ retained' = retained
    BY <1>2, <1>3, <1>10
  <2> QED BY <1>3, <1>6, <1>8, <2>1, TablesStand DEF TableInv
<1> QED BY <1>9, <1>10

\* The young end of a sequence.
LEMMA YoungEnd ==
  ASSUME NEW S, NEW s \in Seq(S), IsInjective(s), NEW over \in Nat, over <= Len(s)
  PROVE  /\ SubSeq(s, over + 1, Len(s)) \in Seq(S) /\ IsInjective(SubSeq(s, over + 1, Len(s)))
         /\ ToSet(SubSeq(s, over + 1, Len(s))) \subseteq ToSet(s)
<1> DEFINE r == SubSeq(s, over + 1, Len(s))
<1>1. /\ r \in Seq(S) /\ DOMAIN r = 1..(Len(s) - over)
      /\ \A i \in 1..(Len(s) - over) : r[i] = s[over + i]
  OBVIOUS
<1>2. DOMAIN s = 1..Len(s) /\ Len(s) \in Nat
  OBVIOUS
<1> HIDE DEF r
<1>3. \A i \in 1..(Len(s) - over) : over + i \in 1..Len(s)
  BY <1>2
<1>4. IsInjective(r)
  <2> SUFFICES ASSUME NEW i \in DOMAIN r, NEW j \in DOMAIN r, r[i] = r[j] PROVE i = j
    BY DEF IsInjective
  <2>1. s[over + i] = s[over + j] /\ over + i \in DOMAIN s /\ over + j \in DOMAIN s
    BY <1>1, <1>2, <1>3
  <2>2. over + i = over + j
    BY <2>1 DEF IsInjective
  <2> QED BY <1>1, <1>2, <2>2
<1>5. ToSet(r) \subseteq ToSet(s)
  BY <1>1, <1>2, <1>3 DEF ToSet
<1> QED BY <1>1, <1>4, <1>5 DEF r

LEMMA PruneExpireKnows ==
  ASSUME CommandInv, TableInv, NEW t \in RequestThreads, PruneExpire(t)
  PROVE  TableInv'
<1>1. thread[t].pc = "refresh" /\ Knows(thread[t], Starting(t)) /\ thread[t].op \in Ops
  BY DEF PruneExpire, Doing, TableInv, ThreadsKnow, CommandInv, ThreadTypes, Handling
<1>2. PICK old \in SUBSET {c \in ToSet(retained) : cmd[c].completed} :
        LET kept == Without(retained, old)
            over == IF Len(kept) > MaxRetained THEN Len(kept) - MaxRetained ELSE 0
        IN /\ retained' = SubSeq(kept, over + 1, Len(kept))
           /\ evicted' = evicted \cup (ToSet(retained) \ ToSet(retained'))
  BY DEF PruneExpire
<1> DEFINE kept == Without(retained, old)
           over == IF Len(kept) > MaxRetained THEN Len(kept) - MaxRetained ELSE 0
           gone == ToSet(retained) \ ToSet(retained')
<1>3. retained' = SubSeq(kept, over + 1, Len(kept)) /\ evicted' = evicted \cup gone
  BY <1>2
<1>4. retained \in Seq(Ids) /\ IsInjective(retained) /\ ToSet(retained) \subseteq Ids
  BY DEF TableInv, Tables
<1>5. kept \in Seq(Ids) /\ IsInjective(kept) /\ ToSet(kept) \subseteq ToSet(retained)
  BY <1>4, WithoutIsRest
<1> HIDE DEF kept
<1>6. over \in Nat /\ over <= Len(kept)
  BY <1>5, CommandLimits
<1> HIDE DEF over
<1>7. /\ retained' \in Seq(Ids) /\ IsInjective(retained') /\ ToSet(retained') \subseteq ToSet(retained)
  BY <1>3, <1>5, <1>6, YoungEnd
<1>8. UNCHANGED <<proc, cmd>> /\ active' = active
  BY DEF PruneExpire
<1>9. /\ gone \in SUBSET Ids /\ active' = active \ gone /\ gone \cap ToSet(retained') = {}
      /\ \A c \in gone : Begun(c) /\ (c \in active => Over(c))
  BY <1>4, <1>8 DEF TableInv, Tables
<1> HIDE DEF gone
<1>10. Tables'
  BY <1>3, <1>7, <1>8, <1>9, TablesEvict DEF TableInv
<1>11. WorldKept
  BY <1>8, NothingStays
<1> DEFINE pc == IF thread[t].op = "start" THEN "admit" ELSE "lookup"
<1>12. GoOn(t, pc) /\ pc \in Positions
  BY DEF PruneExpire, Positions
<1>13. /\ pc \in {"admit", "lookup"} /\ (pc = "admit" => thread[t].op = "start")
       /\ Starting(t) => pc = "admit"
  BY DEF Starting
<1> HIDE DEF pc
<1>14. thread[t].op # "close"
  BY <1>1 DEF Knows
<1>15. ThreadsKnow'
  BY <1>1, <1>11, <1>12, <1>13, <1>14, ThreadGoes DEF TableInv
<1> QED BY <1>10, <1>15 DEF TableInv

\* What is known of the thread that acts.
LEMMA OwnKnowledge ==
  ASSUME CommandInv, TableInv, NEW t \in RequestThreads
  PROVE  /\ thread[t] \in Handling /\ thread[t].c \in Ids /\ thread[t].op \in Ops
         /\ Knows(thread[t], Starting(t))
  BY DEF CommandInv, ThreadTypes, Handling, TableInv, ThreadsKnow

LEMMA AdmitKnows ==
  ASSUME CommandInv, TableInv, NEW t \in RequestThreads, Admit(t)
  PROVE  TableInv'
<1>1. CASE Refuse(t)
  <2>1. WorldKept /\ NoneRevived /\ UNCHANGED <<active, retained, evicted>>
    BY <1>1, NothingStays DEF Refuse, tableVars
  <2>2. ThreadsKnow'
    BY <1>1, <2>1, ThreadEnds DEF Refuse, TableInv
  <2> QED BY <2>1, <2>2, TablesStand DEF TableInv
<1>2. ASSUME NEW c \in Ids, c = thread[t].c, Cardinality(active) < MaxActive, proc' = Spawned(c),
             active' = active \cup {c}, GoOn(t, "setup"), UNCHANGED <<cmd, retained, evicted>>
      PROVE  TableInv'
  <2>1. thread[t].pc = "admit" /\ thread[t].op = "start" /\ proc[c].state = "none"
    BY <1>2 DEF Admit, Doing, CommandInv, AdmitIsStart, IdIsOwn, Starting
  <2>2. /\ proc'[c].state = "running" /\ proc'[c].killed = proc[c].killed
        /\ \A d \in Ids \ {c} : proc'[d] = proc[d]
    BY <1>2 DEF Spawned, CommandInv, ProcTypes, Procs
  <2>3. WorldKept
    BY <1>2, <2>1, <2>2 DEF WorldKept, Begun, Exited, Over, Doomed, Recorded
  <2>4. c \notin active /\ c \notin ToSet(retained) /\ c \notin evicted
    BY <2>1 DEF TableInv, Tables, Begun
  <2>5. IsFiniteSet(active') /\ Cardinality(active') <= MaxActive
    <3>1. IsFiniteSet(active) /\ Cardinality(active) \in Nat
      BY FS_CardinalityType DEF TableInv, Tables
    <3>2. IsFiniteSet(active') /\ Cardinality(active') = Cardinality(active) + 1
      BY <1>2, <2>4, <3>1, FS_AddElement
    <3> QED BY <1>2, <3>1, <3>2, CommandLimits
  <2>6. \A d \in Ids : Recorded(d)' /\ (Alive(d)' => d \in active' \/ Doomed(d)')
    BY <1>2, <2>2 DEF TableInv, Tables, Alive, Doomed, Recorded
  <2>7. \A d \in active' \cup ToSet(retained') \cup evicted' : d \in Ids /\ Begun(d)'
    BY <1>2, <2>3, <2>2 DEF TableInv, Tables, Begun, WorldKept
  <2>8. Tables'
    BY <1>2, <2>4, <2>5, <2>6, <2>7 DEF TableInv, Tables
  <2>9. ThreadsKnow'
    BY <1>2, <2>1, <2>2, <2>3, ThreadGoes DEF TableInv, Positions
  <2> QED BY <2>8, <2>9 DEF TableInv
<1> QED BY <1>1, <1>2, OwnKnowledge DEF Admit

LEMMA SetUpKnows ==
  ASSUME CommandInv, TableInv, NEW t \in RequestThreads, SetUp(t)
  PROVE  TableInv'
<1>1. UNCHANGED <<proc, cmd>> /\ UNCHANGED <<active, retained, evicted>>
  BY DEF SetUp, tableVars
<1>2. WorldKept /\ NoneRevived
  BY <1>1, NothingStays
<1>3. thread[t].pc = "setup" /\ thread[t].op = "start" /\ ~ Starting(t)
  BY OwnKnowledge DEF SetUp, Doing, Knows, Starting
<1>4. GoOn(t, "observe") \/ GoOn(t, "abandon")
  BY DEF SetUp
<1>5. ThreadsKnow'
  BY <1>2, <1>3, <1>4, ThreadGoes DEF TableInv, Positions
<1> QED BY <1>1, <1>2, <1>5, TablesStand DEF TableInv

LEMMA AbandonKnows ==
  ASSUME CommandInv, TableInv, NEW t \in RequestThreads, Abandon(t)
  PROVE  TableInv'
<1>1. PICK c \in Ids : c = thread[t].c
  BY OwnKnowledge
<1>2. /\ proc' = [proc EXCEPT ![c] = Signalled(proc[c], "KILL")]
      /\ cmd' = [cmd EXCEPT ![c] = [Terminated(cmd[c], proc[c], "startup_failure") EXCEPT !.callback = FALSE]]
      /\ GoOn(t, "forget") /\ UNCHANGED <<active, retained, evicted>>
  BY <1>1 DEF Abandon, tableVars
<1>3. WorldKept /\ NoneRevived
  BY <1>2, SignallingStays
<1>4. thread[t].pc = "abandon" /\ thread[t].op = "start" /\ ~ Starting(t) /\ Begun(c)
  BY <1>1, OwnKnowledge DEF Abandon, Doing, Knows, Starting
<1>5. cmd[c] \in Records /\ proc[c] \in Procs
  BY DEF CommandInv, ProcTypes
<1>6. ~ cmd'[c].callback
  BY <1>2, <1>5, TerminatedStays DEF CommandInv, ProcTypes
<1>7. Exited(c) \/ proc'[c].killed
  BY <1>2, <1>4, <1>5 DEF Signalled, Begun, Exited, CommandInv, ProcTypes, Procs
<1>8. ThreadsKnow'
  BY <1>1, <1>2, <1>3, <1>4, <1>6, <1>7, ThreadGoes DEF TableInv, Positions, Over
<1> QED BY <1>2, <1>3, <1>8, TablesStand DEF TableInv

LEMMA ForgetKnows ==
  ASSUME CommandInv, TableInv, NEW t \in RequestThreads, Forget(t)
  PROVE  TableInv'
<1>1. PICK c \in Ids : c = thread[t].c
  BY OwnKnowledge
<1>2. /\ active' = active \ {c} /\ retained' = Drop(c) /\ evicted' = evicted \cup {c}
      /\ End(t) /\ UNCHANGED <<proc, cmd>>
  BY <1>1 DEF Forget
<1>3. Over(c) /\ Begun(c)
  BY <1>1, OwnKnowledge DEF Forget, Doing, Knows, Starting
<1>4. retained \in Seq(Ids) /\ IsInjective(retained)
  BY DEF TableInv, Tables
<1>5. /\ retained' \in Seq(Ids) /\ IsInjective(retained') /\ ToSet(retained') = ToSet(retained) \ {c}
  BY <1>2, <1>4, WithoutIsRest DEF Drop
<1>6. Tables'
  <2>1. {c} \in SUBSET Ids /\ {c} \cap ToSet(retained') = {}
    BY <1>5
  <2>2. \A d \in {c} : Begun(d) /\ (d \in active => Over(d))
    BY <1>3
  <2> QED BY <1>2, <1>5, <2>1, <2>2, TablesEvict DEF TableInv
<1>7. WorldKept
  BY <1>2, NothingStays
<1>8. ThreadsKnow'
  BY <1>2, <1>7, ThreadEnds DEF TableInv
<1> QED BY <1>6, <1>8 DEF TableInv

LEMMA LookupKnows ==
  ASSUME CommandInv, TableInv, NEW t \in RequestThreads, Lookup(t)
  PROVE  TableInv'
<1>1. UNCHANGED <<proc, cmd>> /\ UNCHANGED <<active, retained, evicted>>
  BY DEF Lookup, Refuse, tableVars
<1>2. WorldKept /\ NoneRevived
  BY <1>1, NothingStays
<1>3. thread[t].pc = "lookup" /\ thread[t].op # "close" /\ ~ Starting(t)
  BY OwnKnowledge DEF Lookup, Doing, Knows, Starting
<1>4. \/ End(t) \/ GoOn(t, "terminate")
      \/ GoOn(t, "observe") /\ thread[t].op # "kill"
  BY DEF Lookup, Refuse
<1>5. ThreadsKnow'
  BY <1>2, <1>3, <1>4, ThreadEnds, ThreadGoes DEF TableInv, Positions
<1> QED BY <1>1, <1>2, <1>5, TablesStand DEF TableInv

LEMMA ObserveKnows ==
  ASSUME CommandInv, TableInv, NEW t \in RequestThreads, Observe(t)
  PROVE  TableInv'
<1>1. PICK c \in Ids : c = thread[t].c
  BY OwnKnowledge
<1>2. PICK late \in BOOLEAN : cmd' = [cmd EXCEPT ![c] = ObservedCmd(c, late)]
  BY <1>1 DEF Observe, MayBeLate
<1>3. proc' = proc /\ UNCHANGED <<active, retained, evicted>>
  BY DEF Observe, tableVars
<1>4. WorldKept /\ NoneRevived
  BY <1>2, <1>3, RecordStays
<1>5. /\ thread[t] \in Handling /\ thread[t].pc = "observe" /\ Knows(thread[t], Starting(t))
      /\ ~ Starting(t) /\ Begun(c) /\ thread[t].op # "close"
  BY <1>1, OwnKnowledge DEF Observe, Doing, Knows, Starting
<1>6. RefreshedCmd(c, FALSE).outcome # "running" => Exited(c)
  <2>1. Recorded(c) /\ FALSE \in BOOLEAN
    BY DEF TableInv, Tables
  <2>2. RefreshedCmd(c, FALSE).completed => Exited(c)
    BY <2>1, RefreshedKeeps DEF CommandInv
  <2> QED BY <2>1, <2>2, RefreshedStays DEF Recorded
<1>7. RefreshedCmd(c, FALSE).outcome \in {"running", "timeout", "exited", "signal"}
  <2>1. FALSE \in BOOLEAN
    OBVIOUS
  <2>2. RefreshedCmd(c, FALSE) \in Records
    BY <2>1, RefreshedKeeps DEF CommandInv
  <2> QED BY <2>2 DEF Records
<1>8. ASSUME NEW seen \in {"running", "timeout", "exited", "signal"}, seen # "running" => Exited(c),
             thread' = [thread EXCEPT ![t].seen = seen, ![t].pc = "format"]
      PROVE  ThreadsKnow'
  <2> DEFINE h == [thread[t] EXCEPT !.seen = seen, !.pc = "format"]
  <2>1. /\ h \in Handling /\ h.pc = "format" /\ h.seen = seen /\ h.c = c /\ h.op = thread[t].op
        /\ h.was = thread[t].was
    BY <1>1, <1>5 DEF Handling, Positions
  <2>2. thread' = [thread EXCEPT ![t] = h]
    BY <1>8 DEF CommandInv, ThreadTypes
  <2> HIDE DEF h
  <2>3. h.op = "kill" /\ ~ h.was => Exited(h.c)
    BY <1>1, <1>5, <2>1 DEF Knows
  <2> QED BY <1>4, <1>5, <1>8, <2>1, <2>2, <2>3, ThreadMoves DEF TableInv
<1>9. ThreadsKnow'
  <2>1. CASE End(t)
    BY <1>4, <2>1, ThreadEnds DEF TableInv
  <2>2. CASE ~ End(t)
    BY <1>1, <1>6, <1>7, <1>8, <2>2 DEF Observe
  <2> QED BY <2>1, <2>2
<1> QED BY <1>3, <1>4, <1>9, TablesStand DEF TableInv

LEMMA FormatKnows ==
  ASSUME CommandInv, TableInv, NEW t \in RequestThreads, Format(t)
  PROVE  TableInv'
<1>1. PICK c \in Ids : c = thread[t].c
  BY OwnKnowledge
<1>2. UNCHANGED <<proc, cmd>> /\ evicted' = evicted
  BY DEF Format
<1>3. WorldKept /\ NoneRevived
  BY <1>2, NothingStays
<1>4. /\ thread[t].pc = "format" /\ ~ Starting(t) /\ thread[t].op # "close"
      /\ thread[t].seen # "running" => Exited(c)
      /\ thread[t].op = "kill" /\ ~ thread[t].was => Exited(c)
  BY <1>1, OwnKnowledge DEF Format, Doing, Knows, Starting
<1>5. \/ End(t)
      \/ GoOn(t, "forget") /\ Over(c)
  BY <1>1, <1>4 DEF Format, Over
<1>6. ThreadsKnow'
  BY <1>1, <1>3, <1>4, <1>5, ThreadEnds, ThreadGoes DEF TableInv, Positions
<1>7. CASE thread[t].seen # "running" /\ c \in active \cup ToSet(retained)
  <2>1. active' = active \ {c} /\ retained' = Append(Drop(c), c)
    BY <1>1, <1>7 DEF Format
  <2> QED BY <1>2, <1>4, <1>6, <1>7, <2>1, TablesRetain DEF TableInv, Over
<1>8. CASE ~ (thread[t].seen # "running" /\ c \in active \cup ToSet(retained))
  <2>1. active' = active /\ retained' = retained
    BY <1>1, <1>8 DEF Format
  <2> QED BY <1>2, <1>3, <1>6, <2>1, TablesStand DEF TableInv
<1> QED BY <1>7, <1>8

LEMMA KillSendKnows ==
  ASSUME CommandInv, TableInv, NEW t \in RequestThreads, KillSend(t)
  PROVE  TableInv'
<1>1. PICK c \in Ids : c = thread[t].c
  BY OwnKnowledge
<1>2. PICK signal \in {"TERM", "KILL"} :
        /\ proc' = [proc EXCEPT ![c] = Signalled(proc[c], signal)]
        /\ cmd' = [cmd EXCEPT ![c] = Terminated(cmd[c], proc[c], "explicit_kill")]
        /\ thread' = [thread EXCEPT ![t].was = Alive(c), ![t].forced = Alive(c) /\ signal = "KILL",
                                    ![t].pc = IF Alive(c) THEN "wait" ELSE "observe"]
  BY <1>1 DEF KillSend
<1>3. UNCHANGED <<active, retained, evicted>>
  BY DEF KillSend, tableVars
<1>4. WorldKept /\ NoneRevived
  BY <1>2, SignallingStays
<1>5. thread[t] \in Handling /\ ~ Starting(t) /\ Begun(c) /\ thread[t].op # "close"
  BY <1>1, OwnKnowledge DEF KillSend, Doing, Knows, Starting
<1>6. ~ Alive(c) => Exited(c)
  BY <1>5 DEF Begun, Alive, Exited, CommandInv, ProcTypes, Procs
<1>7. ASSUME NEW was \in BOOLEAN, NEW forced \in BOOLEAN, ~ was => Exited(c),
             thread' = [thread EXCEPT ![t].was = was, ![t].forced = forced,
                                      ![t].pc = IF was THEN "wait" ELSE "observe"]
      PROVE  ThreadsKnow'
  <2> DEFINE h == [thread[t] EXCEPT !.was = was, !.forced = forced, !.pc = IF was THEN "wait" ELSE "observe"]
  <2>1. /\ h \in Handling /\ h.pc \in {"wait", "observe"} /\ h.was = was /\ h.c = c /\ h.op = thread[t].op
        /\ h.pc = "wait" => was
    BY <1>1, <1>5 DEF Handling, Positions
  <2>2. thread' = [thread EXCEPT ![t] = h]
    BY <1>7 DEF CommandInv, ThreadTypes
  <2> HIDE DEF h
  <2> QED BY <1>4, <1>5, <1>7, <2>1, <2>2, ThreadMoves DEF TableInv
<1>8. ThreadsKnow'
  <2>1. Alive(c) \in BOOLEAN /\ (Alive(c) /\ signal = "KILL") \in BOOLEAN
    BY DEF Alive
  <2> QED BY <1>2, <1>6, <1>7, <2>1
<1> QED BY <1>3, <1>4, <1>8, TablesStand DEF TableInv

LEMMA KillWaitKnows ==
  ASSUME CommandInv, TableInv, NEW t \in RequestThreads, KillWait(t)
  PROVE  TableInv'
<1>1. PICK c \in Ids : c = thread[t].c
  BY OwnKnowledge
<1>2. UNCHANGED <<active, retained, evicted>>
  BY DEF KillWait, tableVars
<1>3. WorldKept /\ NoneRevived
  <2>1. CASE UNCHANGED <<proc, cmd>>
    BY <2>1, NothingStays
  <2>2. CASE ~ UNCHANGED <<proc, cmd>>
    <3>1. /\ proc' = [proc EXCEPT ![c] = Signalled(proc[c], "KILL")]
          /\ cmd' = [cmd EXCEPT ![c] = Terminated(cmd[c], proc[c], "explicit_kill")]
      BY <1>1, <2>2 DEF KillWait
    <3> QED BY <3>1, SignallingStays
  <2> QED BY <2>1, <2>2
<1>4. /\ thread[t] \in Handling /\ thread[t].pc = "wait" /\ ~ Starting(t) /\ Begun(c)
      /\ thread[t].op # "close" /\ thread[t].was
  BY <1>1, OwnKnowledge DEF KillWait, Doing, Knows, Starting
<1>5. \/ thread' = [thread EXCEPT ![t].pc = "observe", ![t].forced = FALSE]
      \/ thread' = [thread EXCEPT ![t].forced = TRUE]
  BY DEF KillWait
<1>6. ASSUME NEW pc \in {"observe", "wait"}, NEW forced \in BOOLEAN,
             thread' = [thread EXCEPT ![t] = [thread[t] EXCEPT !.pc = pc, !.forced = forced]]
      PROVE  ThreadsKnow'
  <2> DEFINE h == [thread[t] EXCEPT !.pc = pc, !.forced = forced]
  <2>1. /\ h \in Handling /\ h.pc = pc /\ h.was = thread[t].was /\ h.c = c /\ h.op = thread[t].op
    BY <1>1, <1>4 DEF Handling, Positions
  <2>2. thread' = [thread EXCEPT ![t] = h]
    BY <1>6
  <2> HIDE DEF h
  <2> QED BY <1>3, <1>4, <1>6, <2>1, <2>2, ThreadMoves DEF TableInv
<1>7. ThreadsKnow'
  <2>1. CASE thread' = [thread EXCEPT ![t].pc = "observe", ![t].forced = FALSE]
    <3>1. thread' = [thread EXCEPT ![t] = [thread[t] EXCEPT !.pc = "observe", !.forced = FALSE]]
      BY <2>1 DEF CommandInv, ThreadTypes
    <3> QED BY <1>6, <3>1
  <2>2. CASE thread' = [thread EXCEPT ![t].forced = TRUE]
    <3>1. thread' = [thread EXCEPT ![t] = [thread[t] EXCEPT !.forced = TRUE]]
      BY <2>2 DEF CommandInv, ThreadTypes
    <3>2. [thread[t] EXCEPT !.forced = TRUE] = [thread[t] EXCEPT !.pc = "wait", !.forced = TRUE]
      BY <1>4 DEF Handling
    <3> QED BY <1>6, <3>1, <3>2
  <2> QED BY <1>5, <2>1, <2>2
<1> QED BY <1>2, <1>3, <1>7, TablesStand DEF TableInv

LEMMA CloseKnows ==
  ASSUME CommandInv, TableInv, NEW t \in RequestThreads, CloseMark(t) \/ CloseSignal(t)
  PROVE  TableInv'
<1>1. UNCHANGED <<active, retained, evicted>>
  BY DEF CloseMark, CloseSignal, tableVars
<1>2. /\ thread[t] \in Handling /\ Knows(thread[t], Starting(t))
      /\ thread[t].pc \in {"close", "close_term", "close_kill"}
  BY OwnKnowledge DEF CloseMark, CloseSignal, Doing
<1>3. WorldKept /\ NoneRevived
  <2>1. CASE CloseMark(t)
    BY <2>1, NothingStays DEF CloseMark
  <2>2. CASE CloseSignal(t)
    <3>1. PICK signal \in {"TERM", "KILL"} :
            /\ proc' = [c \in Ids |-> IF c \in thread[t].todo THEN Signalled(proc[c], signal) ELSE proc[c]]
            /\ cmd' = [c \in Ids |-> IF c \in thread[t].todo
                                      THEN Terminated(cmd[c], proc[c], "parent_shutdown") ELSE cmd[c]]
      BY <2>2 DEF CloseSignal
    <3>2. ASSUME NEW c \in Ids
          PROVE  /\ proc'[c].state = proc[c].state
                 /\ proc[c].killed => proc'[c].killed
                 /\ ~ cmd[c].callback => ~ cmd'[c].callback
                 /\ Recorded(c) => Recorded(c)'
      <4>1. cmd[c] \in Records /\ proc[c] \in Procs
        BY DEF CommandInv, ProcTypes
      <4>2. CASE c \in thread[t].todo
        <5>1. cmd'[c] = Terminated(cmd[c], proc[c], "parent_shutdown") /\ proc'[c] = Signalled(proc[c], signal)
          BY <3>1, <4>2
        <5> QED BY <4>1, <5>1, SignalStays, TerminatedStays DEF Recorded
      <4>3. CASE c \notin thread[t].todo
        BY <3>1, <4>3 DEF Recorded
      <4> QED BY <4>2, <4>3
    <3> QED BY <3>2, WorldStays
  <2> QED BY <2>1, <2>2
<1>4. \/ End(t)
      \/ \E todo \in SUBSET Ids, pc \in {"close_term", "close_kill"} :
           thread' = [thread EXCEPT ![t] = [thread[t] EXCEPT !.pc = pc, !.todo = todo]]
  <2>1. CASE CloseMark(t)
    <3>1. thread' = [thread EXCEPT ![t].pc = "close_term", ![t].todo = active] /\ active \subseteq Ids
      BY <2>1 DEF CloseMark, TableInv, Tables
    <3>2. thread' = [thread EXCEPT ![t] = [thread[t] EXCEPT !.pc = "close_term", !.todo = active]]
      BY <3>1 DEF CommandInv, ThreadTypes
    <3> QED BY <3>1, <3>2
  <2>2. CASE CloseSignal(t) /\ ~ End(t)
    <3>1. GoOn(t, "close_kill")
      BY <2>2 DEF CloseSignal
    <3>2. thread' = [thread EXCEPT ![t] = [thread[t] EXCEPT !.pc = "close_kill", !.todo = thread[t].todo]]
      BY <1>2, <3>1 DEF GoOn, Handling, CommandInv, ThreadTypes
    <3>3. thread[t].todo \in SUBSET Ids
      BY <1>2 DEF Handling
    <3> QED BY <3>2, <3>3
  <2> QED BY <2>1, <2>2
<1>5. ASSUME NEW todo \in SUBSET Ids, NEW pc \in {"close_term", "close_kill"},
             thread' = [thread EXCEPT ![t] = [thread[t] EXCEPT !.pc = pc, !.todo = todo]]
      PROVE  ThreadsKnow'
  <2> DEFINE h == [thread[t] EXCEPT !.pc = pc, !.todo = todo]
  <2>1. h \in Handling /\ h.pc = pc /\ h.c = thread[t].c /\ h.op = thread[t].op
    BY <1>2 DEF Handling, Positions
  <2>2. thread' = [thread EXCEPT ![t] = h]
    BY <1>5
  <2> HIDE DEF h
  <2>3. h.op # "close" => Begun(h.c)
    BY <1>2, <2>1 DEF Knows, Starting
  <2> QED BY <1>3, <1>5, <2>1, <2>2, <2>3, ThreadMoves DEF TableInv
<1>6. ThreadsKnow'
  BY <1>3, <1>4, <1>5, ThreadEnds DEF TableInv
<1> QED BY <1>1, <1>3, <1>6, TablesStand DEF TableInv

\* Watchdogs and exits change no table.
LEMMA EndingKnows ==
  ASSUME CommandInv, TableInv, NEW c \in Ids, WatchdogStep(c) \/ ProcessEnds(c)
  PROVE  TableInv'
<1>1. thread' = thread /\ UNCHANGED <<active, retained, evicted>>
  BY DEF WatchdogStep, WatchdogLate, WatchdogEnd, ProcessEnds, tableVars
<1>2. WorldKept /\ NoneRevived
  <2>1. CASE WatchdogLate(c)
    <3>1. PICK signal \in {"TERM", "KILL"} :
            /\ proc' = [proc EXCEPT ![c] = Signalled(proc[c], signal)]
            /\ cmd' = [cmd EXCEPT ![c] = Terminated(cmd[c], proc[c], "command_timeout")]
      BY <2>1 DEF WatchdogLate
    <3> QED BY <3>1, SignallingStays
  <2>2. CASE WatchdogEnd(c)
    <3>1. cmd' = [cmd EXCEPT ![c] = RefreshedCmd(c, FALSE)] /\ proc' = proc /\ FALSE \in BOOLEAN
      BY <2>2 DEF WatchdogEnd
    <3> QED BY <3>1, RecordStays
  <2>3. CASE ProcessEnds(c)
    <3>1. proc'[c].state = "exited" /\ (\A d \in Ids \ {c} : proc'[d] = proc[d]) /\ cmd' = cmd
      BY <2>3 DEF ProcessEnds, NoProc, CommandInv, ProcTypes
    <3> QED BY <3>1 DEF WorldKept, NoneRevived, Begun, Exited, Over, Doomed, Alive, Recorded
  <2> QED BY <2>1, <2>2, <2>3 DEF WatchdogStep
<1>3. ThreadsKnow'
  BY <1>1, <1>2, ThreadsStand DEF TableInv
<1> QED BY <1>1, <1>2, <1>3, TablesStand DEF TableInv

LEMMA TablesStart == CommandsInit => TableInv
<1> SUFFICES ASSUME CommandsInit PROVE TableInv
  OBVIOUS
<1>1. NoProc.state = "none" /\ NoCmd.outcome = "running" /\ NoThread.pc = "idle" /\ NoThread.op = "poll"
  BY DEF NoProc, NoCmd, NoThread
<1>2. retained \in Seq(Ids) /\ IsInjective(retained) /\ ToSet(retained) = {}
  BY DEF CommandsInit, IsInjective, ToSet
<1>3. IsFiniteSet(active) /\ Cardinality(active) <= MaxActive
  BY FS_EmptySet, CommandLimits DEF CommandsInit
<1>4. \A c \in Ids : Recorded(c) /\ ~ Alive(c)
  BY <1>1 DEF CommandsInit, Recorded, Alive
<1>5. Tables
  BY <1>2, <1>3, <1>4 DEF CommandsInit, Tables
<1>6. ThreadsKnow
  BY <1>1 DEF CommandsInit, ThreadsKnow, Knows
<1> QED BY <1>5, <1>6 DEF TableInv

LEMMA TablesKeep ==
  ASSUME CommandInv, TableInv, [CommandsNext]_commandsVars
  PROVE  TableInv'
<1>1. CASE UNCHANGED commandsVars
  <2>1. UNCHANGED <<proc, cmd>> /\ thread' = thread /\ UNCHANGED <<active, retained, evicted>>
    BY <1>1 DEF commandsVars
  <2> QED BY <2>1, NothingStays, TablesStand, ThreadsStand DEF TableInv
<1>2. ASSUME NEW t \in RequestThreads, Request(t) \/ ThreadStep(t) PROVE TableInv'
  BY <1>2, RequestKnows, PruneRefreshKnows, PruneMoveKnows, PruneExpireKnows, AdmitKnows, SetUpKnows,
     AbandonKnows, ForgetKnows, LookupKnows, ObserveKnows, FormatKnows, KillSendKnows, KillWaitKnows,
     CloseKnows DEF ThreadStep
<1>3. ASSUME NEW c \in Ids, WatchdogStep(c) \/ ProcessEnds(c) PROVE TableInv'
  BY <1>3, EndingKnows
<1> QED BY <1>1, <1>2, <1>3 DEF CommandsNext

----------------------------------------------------------------------------
(* The theorems.                                                           *)

\* Once a command's end is recorded, no late timeout, kill or shutdown changes
\* what is said of it, however many of them race.
THEOREM EndsStand == CommandsSpec => TerminalFactsStable
<1>1. CommandInv /\ [CommandsNext]_commandsVars => CommandInv'
  BY CommandKeeps
<1>2. CommandInv /\ [CommandsNext]_commandsVars =>
        [\A c \in Ids : cmd[c].completed =>
          /\ cmd'[c].completed /\ cmd'[c].outcome = cmd[c].outcome
          /\ cmd'[c].source = cmd[c].source /\ cmd'[c].timedOut = cmd[c].timedOut]_commandsVars
  BY CommandKeeps DEF RecordsKept, Unchanging
<1> QED BY CommandStarts, <1>1, <1>2, PTL DEF CommandsSpec, TerminalFactsStable

\* Whichever observers see the end first, it is reported at most once, and as
\* it stays recorded (observe_status).
THEOREM EndReportedOnce == CommandsSpec => []TerminalReportedOnce
<1>1. CommandInv /\ [CommandsNext]_commandsVars => CommandInv'
  BY CommandKeeps
<1>2. CommandInv => TerminalReportedOnce
  <2> SUFFICES ASSUME CommandInv, NEW c \in Ids
               PROVE  /\ Len(reports[c]) <= 1
                      /\ \A r \in ToSet(reports[c]) : r.outcome = cmd[c].outcome /\ r.source = cmd[c].source
    BY DEF TerminalReportedOnce
  <2>1. CASE reports[c] = <<>>
    BY <2>1 DEF ToSet
  <2>2. CASE reports[c] = <<[outcome |-> cmd[c].outcome, source |-> cmd[c].source]>>
    BY <2>2 DEF ToSet
  <2> QED BY <2>1, <2>2 DEF CommandInv, ReportsRecorded
<1> QED BY CommandStarts, <1>1, <1>2, PTL DEF CommandsSpec

LEMMA CommandsStand == CommandsSpec => [](CommandInv /\ TableInv)
<1>1. CommandsInit => CommandInv /\ TableInv
  BY CommandStarts, TablesStart
<1>2. CommandInv /\ TableInv /\ [CommandsNext]_commandsVars => (CommandInv /\ TableInv)'
  BY CommandKeeps, TablesKeep
<1> QED BY <1>1, <1>2, PTL DEF CommandsSpec

\* However requests interleave, a process that runs is listed as active, or was killed
\* because its start failed, and no more are listed than the limit.
THEOREM RunningIsListed == CommandsSpec => []LiveIsActive
<1>1. TableInv => LiveIsActive
  BY DEF TableInv, Tables, LiveIsActive, Doomed
<1> QED BY <1>1, CommandsStand, PTL

\* The end of a command is reported at most once, and once it is evicted no request that
\* had looked it up and no prune that was refreshing it lists it again.
THEOREM SpokenOfOnce == CommandsSpec => []ReportedOnce
<1>1. TableInv => EvictedStaysEvicted
  BY DEF TableInv, Tables, EvictedStaysEvicted
<1> QED BY <1>1, CommandsStand, EndReportedOnce, PTL DEF ReportedOnce

=============================================================================
