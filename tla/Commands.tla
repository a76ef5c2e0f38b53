------------------------------ MODULE Commands ------------------------------
(***************************************************************************)
(* Host commands (processes.py): the manager's table of active and         *)
(* retained commands, the processes, their watchdogs, and the request      *)
(* threads that start, poll, kill and read them or close the manager.      *)
(*                                                                         *)
(* A thread gives up the manager's lock and each command's locks between   *)
(* its steps.  refresh_status is one step: what it does under one lock and *)
(* then under the next is idempotent.                                      *)
(***************************************************************************)
EXTENDS Naturals, Sequences, SequencesExt, FiniteSets

CONSTANTS Ids,          \* command ids, numbered in the order they are issued
          RequestThreads,      \* request threads
          MaxActive,    \* MAX_ACTIVE_COMMANDS
          MaxRetained,  \* MAX_RETAINED_COMMANDS
          MaxRequests   \* bound: requests

ASSUME CommandNames == Ids \subseteq Nat /\ Ids # {}
ASSUME CommandLimits == MaxActive \in Nat \ {0} /\ MaxRetained \in Nat \ {0} /\ MaxRequests \in Nat

VARIABLES proc,      \* what the operating system knows of each process
          cmd,       \* the manager's record of each command
          active,    \* ids of commands believed to run
          retained,  \* ids of finished commands, oldest first
          closed,    \* the manager has been closed
          thread,    \* request threads
          dog,       \* the watchdog thread of each command
          requests,  \* number of requests so far
          reports,   \* history: the terminal observations given to on_terminal
          evicted    \* history: ids removed from both tables

tableVars == <<active, retained, closed, evicted>>
commandsVars == <<proc, cmd, active, retained, closed, thread, dog, requests, reports, evicted>>

\* "poll" stands for poll and read_output, which differ in what follows the
\* observation, and "kill" for kill with either signal.
Ops == {"start", "poll", "kill", "close"}
NoProc == [state |-> "none", code |-> "none", killed |-> FALSE]
NoCmd == [timedOut |-> FALSE, source |-> "none",
          completed |-> FALSE, outcome |-> "running", observed |-> FALSE, callback |-> TRUE]
NoThread == [pc |-> "idle", op |-> "poll", c |-> CHOOSE c \in Ids : TRUE, todo |-> {},
             forced |-> FALSE, was |-> FALSE, seen |-> "running"]

CommandsInit ==
  /\ proc = [c \in Ids |-> NoProc] /\ cmd = [c \in Ids |-> NoCmd]
  /\ active = {} /\ retained = <<>> /\ closed = FALSE
  /\ thread = [t \in RequestThreads |-> NoThread]
  /\ dog = [c \in Ids |-> "off"]
  /\ requests = 0 /\ reports = [c \in Ids |-> <<>>] /\ evicted = {}

Alive(c) == proc[c].state = "running"
Exited(c) == proc[c].state = "exited"
Doing(t, pc) == thread[t].pc = pc
GoOn(t, pc) == thread' = [thread EXCEPT ![t].pc = pc]
End(t) == thread' = [thread EXCEPT ![t] = NoThread]
\* A sequence without some of its elements.
Without(s, gone) ==
  LET left[n \in 0..Len(s)] ==
        IF n = 0 THEN <<>> ELSE IF s[n] \in gone THEN left[n - 1] ELSE Append(left[n - 1], s[n])
  IN left[Len(s)]
Drop(c) == Without(retained, {c})

----------------------------------------------------------------------------
(* Termination and status of one command.                                  *)

\* (A wrong variant: the record is changed even when the process is gone.)
TerminatedBlindly(k, p, source) ==
  [k EXCEPT !.source = IF @ = "none" THEN source ELSE @,
            !.timedOut = @ \/ source = "command_timeout"]

\* A request to terminate leaves a finished process and its record alone.  The
\* first source stays; a deadline marks the command as timed out in any case.
Terminated(k, p, source) ==
  IF p.state # "running" THEN k
  ELSE [k EXCEPT !.source = IF @ = "none" THEN source ELSE @,
                 !.timedOut = @ \/ source = "command_timeout"]
\* TERM and INT may be ignored: what they do is among the ways a process ends.
Signalled(p, signal) == IF p.state = "running" THEN [p EXCEPT !.killed = @ \/ signal = "KILL"] ELSE p

Outcome(k, p) == IF k.timedOut THEN "timeout" ELSE p.code

\* refresh_status: terminate a command found past its deadline, once, and
\* record the exit of a process that is gone.  Only a running command can be late.
MayBeLate(c) == IF Alive(c) /\ ~ cmd[c].timedOut THEN BOOLEAN ELSE {FALSE}
RefreshedCmd(c, late) ==
  LET k == IF late THEN Terminated(cmd[c], proc[c], "command_timeout") ELSE cmd[c]
  IN IF k.completed \/ ~ Exited(c) THEN k
     ELSE [k EXCEPT !.completed = TRUE, !.outcome = Outcome(k, proc[c]),
                    !.source = IF @ = "none" /\ proc[c].code = "signal" THEN "external_or_unknown" ELSE @]

\* (A wrong variant of ObservedCmd: the flag is not kept.)
UnflaggedCmd(c, late) == RefreshedCmd(c, late)
\* observe_status: the first observation of a terminal state is reported.
ObservedCmd(c, late) == [RefreshedCmd(c, late) EXCEPT !.observed = RefreshedCmd(c, late).completed]
Report(c) ==
  LET now == RefreshedCmd(c, FALSE)
  IN IF now.completed /\ ~ cmd[c].observed /\ cmd[c].callback
     THEN [reports EXCEPT ![c] = Append(@, [outcome |-> now.outcome, source |-> now.source])]
     ELSE reports

----------------------------------------------------------------------------
(* Pruning: part of every request but close.                               *)

Issued(c) == proc[c].state # "none" \/ \E t \in RequestThreads : ~ Doing(t, "idle") /\ thread[t].op = "start" /\ thread[t].c = c

Request(t) ==
  /\ Doing(t, "idle") /\ requests < MaxRequests /\ requests' = requests + 1
  /\ \E op \in Ops, c \in Ids :
       /\ op = "start" => ~ Issued(c) /\ \A d \in Ids : d < c => Issued(d)
       /\ op = "close" => ~ closed /\ c = NoThread.c
       /\ op \in {"poll", "kill"} => proc[c].state # "none"
       /\ thread' = [thread EXCEPT ![t] = [NoThread EXCEPT !.op = op, !.c = c,
                       !.pc = IF op = "close" THEN "close" ELSE "refresh",
                       !.todo = IF op = "close" THEN {} ELSE active]]
  /\ UNCHANGED <<proc, cmd, tableVars, dog, reports>>

\* Refresh the next command listed as active, outside the manager's lock.
PruneRefresh(t) ==
  /\ Doing(t, "refresh") /\ thread[t].todo # {}
  /\ LET c == CHOOSE d \in thread[t].todo : TRUE
     IN /\ \E late \in MayBeLate(c) : cmd' = [cmd EXCEPT ![c] = RefreshedCmd(c, late)]
        /\ thread' = IF Exited(c) THEN [thread EXCEPT ![t].pc = "move"]
                     ELSE [thread EXCEPT ![t].todo = @ \ {c}]
  /\ UNCHANGED <<proc, tableVars, dog, reports, requests>>

\* It has finished: retain it, unless it is no longer listed.
PruneMove(t) ==
  /\ Doing(t, "move")
  /\ LET c == CHOOSE d \in thread[t].todo : TRUE
     IN /\ active' = active \ {c}
        /\ retained' = IF c \in active THEN Append(Drop(c), c) ELSE retained
        /\ thread' = [thread EXCEPT ![t].pc = "refresh", ![t].todo = @ \ {c}]
  /\ UNCHANGED <<proc, cmd, closed, dog, reports, requests, evicted>>

\* Forget retained commands that are too old, and the oldest beyond the limit.
PruneExpire(t) ==
  /\ Doing(t, "refresh") /\ thread[t].todo = {}
  /\ \E old \in SUBSET {c \in ToSet(retained) : cmd[c].completed} :
       LET kept == Without(retained, old)
           over == IF Len(kept) > MaxRetained THEN Len(kept) - MaxRetained ELSE 0
       IN /\ retained' = SubSeq(kept, over + 1, Len(kept))
          /\ evicted' = evicted \cup (ToSet(retained) \ ToSet(retained'))
  /\ GoOn(t, IF thread[t].op = "start" THEN "admit" ELSE "lookup")
  /\ UNCHANGED <<proc, cmd, active, closed, dog, reports, requests>>

----------------------------------------------------------------------------
(* Starting.                                                               *)

Refuse(t) == End(t) /\ UNCHANGED <<proc, cmd, tableVars, dog, reports, requests>>

\* spawn_process: the child runs in a process group of its own.
Spawned(c) == [proc EXCEPT ![c].state = "running"]

\* Admission, spawning and registration are one critical section.
Admit(t) ==
  /\ Doing(t, "admit")
  /\ LET c == thread[t].c
     IN \/ (closed \/ Cardinality(active) >= MaxActive) /\ Refuse(t)
        \/ /\ ~ closed /\ Cardinality(active) < MaxActive
           /\ proc' = Spawned(c)
           /\ active' = active \cup {c}
           /\ GoOn(t, "setup")
           /\ UNCHANGED <<cmd, retained, closed, evicted, dog, reports, requests>>

\* Readers, watchdog and initial input; or one of them fails.
SetUp(t) ==
  /\ Doing(t, "setup")
  /\ \/ dog' = [dog EXCEPT ![thread[t].c] = "wait"] /\ GoOn(t, "observe")
     \/ \E d \in {"off", "wait"} : dog' = [dog EXCEPT ![thread[t].c] = d] /\ GoOn(t, "abandon")
  /\ UNCHANGED <<proc, cmd, tableVars, reports, requests>>

\* The caller never learnt the id: the child is killed and waited for, for a
\* while, and forgotten.
Abandon(t) ==
  /\ Doing(t, "abandon")
  /\ LET c == thread[t].c
     IN /\ proc' = [proc EXCEPT ![c] = Signalled(@, "KILL")]
        /\ cmd' = [cmd EXCEPT ![c] = [Terminated(@, proc[c], "startup_failure") EXCEPT !.callback = FALSE]]
  /\ GoOn(t, "forget")
  /\ UNCHANGED <<tableVars, dog, reports, requests>>

\* Remove a command from both tables: after a failed start or by a kill.
Forget(t) ==
  /\ Doing(t, "forget")
  /\ active' = active \ {thread[t].c}
  /\ retained' = Drop(thread[t].c)
  /\ evicted' = evicted \cup {thread[t].c}
  /\ End(t)
  /\ UNCHANGED <<proc, cmd, closed, dog, reports, requests>>

----------------------------------------------------------------------------
(* Polling, reading, killing.                                              *)

Lookup(t) ==
  /\ Doing(t, "lookup")
  /\ IF thread[t].c \notin active \cup ToSet(retained) THEN Refuse(t)
     ELSE /\ GoOn(t, IF thread[t].op = "kill" THEN "terminate" ELSE "observe")
          /\ UNCHANGED <<proc, cmd, tableVars, dog, reports, requests>>

\* Observe the command and, if this is the first terminal observation, report it.
Observe(t) ==
  /\ Doing(t, "observe")
  /\ LET c == thread[t].c
     IN /\ \E late \in MayBeLate(c) : cmd' = [cmd EXCEPT ![c] = ObservedCmd(c, late)]
        /\ reports' = Report(c)
        /\ \/ thread[t].op = "poll" /\ End(t)   \* read_output
           \/ thread' = [thread EXCEPT ![t].seen = RefreshedCmd(c, FALSE).outcome, ![t].pc = "format"]
  /\ UNCHANGED <<proc, tableVars, dog, requests>>

\* (A wrong variant of Format: a kill evicts whatever came of it.)
FormatEvicting(t) ==
  /\ Doing(t, "format")
  /\ IF thread[t].op = "kill" THEN GoOn(t, "forget") ELSE End(t)
  /\ UNCHANGED <<proc, cmd, tableVars, dog, reports, requests>>

\* A terminal answer moves the command to the young end of the retained ones.
\* A kill then evicts it, unless the process is still there.
Format(t) ==
  /\ Doing(t, "format")
  /\ LET c == thread[t].c
         terminal == thread[t].seen # "running"
     IN /\ IF terminal /\ c \in active \cup ToSet(retained)
           THEN active' = active \ {c} /\ retained' = Append(Drop(c), c)
           ELSE UNCHANGED <<active, retained>>
        /\ IF thread[t].op = "kill" /\ (terminal \/ ~ thread[t].was) THEN GoOn(t, "forget") ELSE End(t)
  /\ UNCHANGED <<proc, cmd, closed, dog, reports, requests, evicted>>

\* Send the signal asked for.
KillSend(t) ==
  /\ Doing(t, "terminate")
  /\ \E signal \in {"TERM", "KILL"} :
     LET c == thread[t].c
     IN /\ proc' = [proc EXCEPT ![c] = Signalled(@, signal)]
        /\ cmd' = [cmd EXCEPT ![c] = Terminated(@, proc[c], "explicit_kill")]
        /\ thread' = [thread EXCEPT ![t].was = Alive(c), ![t].forced = Alive(c) /\ signal = "KILL",
                                    ![t].pc = IF Alive(c) THEN "wait" ELSE "observe"]
  /\ UNCHANGED <<tableVars, dog, reports, requests>>

\* Wait for the exit; a wait that times out escalates to KILL, once.
KillWait(t) ==
  /\ Doing(t, "wait")
  /\ LET c == thread[t].c
     IN IF Exited(c) \/ thread[t].forced
        THEN /\ thread' = [thread EXCEPT ![t].pc = "observe", ![t].forced = FALSE]
             /\ UNCHANGED <<proc, cmd>>
        ELSE /\ proc' = [proc EXCEPT ![c] = Signalled(@, "KILL")]
             /\ cmd' = [cmd EXCEPT ![c] = Terminated(@, proc[c], "explicit_kill")]
             /\ thread' = [thread EXCEPT ![t].forced = TRUE]
  /\ UNCHANGED <<tableVars, dog, reports, requests>>

----------------------------------------------------------------------------
(* Closing.                                                                *)

CloseMark(t) ==
  /\ Doing(t, "close")
  /\ closed' = TRUE
  /\ thread' = [thread EXCEPT ![t].pc = "close_term", ![t].todo = active]
  /\ UNCHANGED <<proc, cmd, active, retained, evicted, dog, reports, requests>>

\* TERM to every listed command, then, after a shared grace period, KILL.
CloseSignal(t) ==
  \E pc \in {"close_term", "close_kill"} :
    /\ Doing(t, pc)
    /\ LET signal == IF pc = "close_term" THEN "TERM" ELSE "KILL"
       IN /\ proc' = [c \in Ids |-> IF c \in thread[t].todo THEN Signalled(proc[c], signal) ELSE proc[c]]
          /\ cmd' = [c \in Ids |-> IF c \in thread[t].todo
                                   THEN Terminated(cmd[c], proc[c], "parent_shutdown") ELSE cmd[c]]
    /\ IF pc = "close_term" THEN GoOn(t, "close_kill") ELSE End(t)
    /\ UNCHANGED <<tableVars, dog, reports, requests>>

----------------------------------------------------------------------------
(* Watchdogs, processes and time.                                          *)

\* (A wrong variant of WatchdogLate: TERM is all it ever sends.)
WatchdogOnlyTerm(c) ==
  /\ dog[c] = "wait" /\ Alive(c)
  /\ proc' = [proc EXCEPT ![c] = Signalled(@, "TERM")]
  /\ cmd' = [cmd EXCEPT ![c] = Terminated(@, proc[c], "command_timeout")]
  /\ dog' = [dog EXCEPT ![c] = "off"]
  /\ UNCHANGED <<tableVars, thread, reports, requests>>

\* The deadline passes: TERM; a grace period passes: KILL.
WatchdogLate(c) ==
  /\ Alive(c) /\ dog[c] \in {"wait", "grace"}
  /\ LET signal == IF dog[c] = "wait" THEN "TERM" ELSE "KILL"
     IN /\ proc' = [proc EXCEPT ![c] = Signalled(@, signal)]
        /\ cmd' = [cmd EXCEPT ![c] = Terminated(@, proc[c], "command_timeout")]
        /\ dog' = [dog EXCEPT ![c] = IF signal = "TERM" THEN "grace" ELSE "last"]
  /\ UNCHANGED <<tableVars, thread, reports, requests>>

\* The process is gone, or outlived even the last wait: a final refresh.
WatchdogEnd(c) ==
  /\ dog[c] # "off" /\ (Exited(c) \/ dog[c] = "last")
  /\ cmd' = [cmd EXCEPT ![c] = RefreshedCmd(c, FALSE)]
  /\ dog' = [dog EXCEPT ![c] = "off"]
  /\ UNCHANGED <<proc, tableVars, thread, reports, requests>>

\* A process ends by itself, or by a signal of ours or somebody else's; one that
\* was sent KILL does end.
ProcessEnds(c) ==
  /\ Alive(c)
  /\ \E code \in {"exited", "signal"} : proc' = [proc EXCEPT ![c] = [NoProc EXCEPT !.state = "exited", !.code = code]]
  /\ UNCHANGED <<cmd, tableVars, thread, dog, reports, requests>>

ThreadStep(t) ==
  \/ PruneRefresh(t) \/ PruneMove(t) \/ PruneExpire(t) \/ Admit(t) \/ SetUp(t) \/ Abandon(t)
  \/ Forget(t) \/ Lookup(t) \/ Observe(t) \/ Format(t)
  \/ KillSend(t) \/ KillWait(t) \/ CloseMark(t) \/ CloseSignal(t)
WatchdogStep(c) == WatchdogLate(c) \/ WatchdogEnd(c)

CommandsNext ==
  \/ \E t \in RequestThreads : Request(t) \/ ThreadStep(t)
  \/ \E c \in Ids : WatchdogStep(c) \/ ProcessEnds(c)

\* Request threads go on, waits end, and a process that was sent KILL ends.
CommandsFairness ==
  /\ \A t \in RequestThreads : WF_commandsVars(ThreadStep(t))
  /\ \A c \in Ids : WF_commandsVars(WatchdogStep(c)) /\ WF_commandsVars(proc[c].killed /\ ProcessEnds(c))
CommandsSpec == CommandsInit /\ [][CommandsNext]_commandsVars

----------------------------------------------------------------------------
(* Properties.                                                             *)

CommandsTypeOK ==
  /\ proc \in [Ids -> [state : {"none", "running", "exited"},
                       code : {"none", "exited", "signal"}, killed : BOOLEAN]]
  /\ cmd \in [Ids -> [timedOut : BOOLEAN, completed : BOOLEAN,
                      observed : BOOLEAN, callback : BOOLEAN,
                      source : {"none", "command_timeout", "explicit_kill", "startup_failure",
                                "parent_shutdown", "external_or_unknown"},
                      outcome : {"running", "timeout", "exited", "signal"}]]
  /\ active \subseteq Ids /\ retained \in Seq(Ids) /\ evicted \subseteq Ids /\ closed \in BOOLEAN
  /\ dog \in [Ids -> {"off", "wait", "grace", "last"}]
  /\ thread \in [RequestThreads -> [op : Ops, c : Ids, todo : SUBSET Ids, forced : BOOLEAN, was : BOOLEAN,
                             seen : {"running", "timeout", "exited", "signal"},
                             pc : {"idle", "refresh", "move", "admit", "setup", "abandon", "forget", "lookup",
                                   "observe", "format", "terminate", "wait", "close", "close_term",
                                   "close_kill"}]]

\* A process that still runs is listed as active, so it can be polled, killed
\* and is counted against the limit, unless it was killed because its start
\* failed; and no more than the limit are listed (start, kill, _prune, _format).
LiveIsActive ==
  /\ \A c \in Ids : Alive(c) => c \in active \/ (~ cmd[c].callback /\ proc[c].killed)
  /\ Cardinality(active) <= MaxActive
  /\ IsInjective(retained) /\ active \cap ToSet(retained) = {}

\* The end of a command is reported to on_terminal at most once, whichever of
\* the observers sees it first, and as it stays recorded (observe_status).
TerminalReportedOnce ==
  \A c \in Ids : /\ Len(reports[c]) <= 1
                 /\ \A r \in ToSet(reports[c]) : r.outcome = cmd[c].outcome /\ r.source = cmd[c].source

\* Once a command's end is recorded, no late timeout, kill or shutdown changes
\* what is said of it (request_termination, refresh_status).
TerminalFactsStable ==
  [][\A c \in Ids : cmd[c].completed =>
       /\ cmd'[c].completed /\ cmd'[c].outcome = cmd[c].outcome
       /\ cmd'[c].source = cmd[c].source /\ cmd'[c].timedOut = cmd[c].timedOut]_commandsVars

\* A command that was evicted is never listed again, by a request that had
\* looked it up before or by a prune that was refreshing it.
EvictedStaysEvicted == evicted \cap (active \cup ToSet(retained)) = {}

\* The manager speaks of a command's end once and drops it for good: no second
\* report, and no record that comes back after it was evicted (observe_status,
\* _format, _prune_locked).
ReportedOnce == TerminalReportedOnce /\ EvictedStaysEvicted

\* Every command ends: past its deadline the watchdog sends TERM, then KILL.
EveryCommandEnds == \A c \in Ids : Alive(c) ~> Exited(c)

=============================================================================
