---------------------------- MODULE NativeWrites ----------------------------
(***************************************************************************)
(* File changes made by the native tools apply_changes and apply_patch:    *)
(* the table of keyed calls (native_replay.py) around a transaction over   *)
(* several files (native_changes.py).                                      *)
(*                                                                         *)
(* A file version is [tag, ct]: `tag' stands for its bytes and every field *)
(* of its stat identity but the last, `ct' for that last field (st_ctime), *)
(* which a rename or a link changes.  Other programs write files between   *)
(* any two steps of a transaction; the process may stop between any two.   *)
(***************************************************************************)
EXTENDS Naturals, Sequences, SequencesExt, FiniteSets

CONSTANTS CallOrder,    \* tool calls, in the order they arrive
          Paths,        \* files of the workspace
          PathOrder,    \* the order in which a request lists them
          Keys,         \* (caller, idempotency key) pairs
          NoKey,        \* stands for the key of a call that has none
          Requests,     \* [kind, key, dry, plan]: the requests callers make
          PresentAtStart,      \* sets of paths that may exist at the start
          Capacity,     \* keyed calls remembered
          MaxEvents     \* bound: calls, writes by other programs, failing system
                        \* calls and restarts, all together

\* A path may appear only once in a request.
ASSUME PathOrderAssumption == PathOrder \in Seq(Paths) /\ ToSet(PathOrder) = Paths /\ IsInjective(PathOrder)
ASSUME CallAssumption == IsInjective(CallOrder) /\ {"absent", "old", "external"} \cap ToSet(CallOrder) = {}
ASSUME KeyAssumption == NoKey \notin Keys
ASSUME CapacityAssumption == Capacity \in Nat \ {0}
ASSUME RequestAssumption ==
  /\ PresentAtStart \subseteq SUBSET Paths
  /\ Requests \subseteq [kind : {"changes", "patch"}, key : Keys \cup {NoKey}, dry : BOOLEAN,
                          plan : [Paths -> {"none", "create", "write", "edit", "delete", "same"}]]
ASSUME EventBound == MaxEvents \in Nat

VARIABLES files,     \* the version at each path
          backup,    \* the file a transaction renamed away from each path
          table,     \* replay slots, least recently used first
          entry,     \* what the replay table says of each slot
          call,      \* each tool call
          tx,        \* the transaction that holds the commit lock
          external,  \* number of external writes
          faults, restarts,
          lost,      \* history: tags a transaction removed although not based on them
          window     \* history: tags written between the last check of a name and its removal

Calls == ToSet(CallOrder)

diskVars == <<files, backup>>
replayVars == <<table, entry>>
historyVars == <<lost, window>>
writesVars == <<files, backup, table, entry, call, tx, external, faults, restarts, lost, window>>

\* A key is remembered for the tool it was used with.
Slots == {"changes", "patch"} \X Keys
NoSlot == <<"none", NoKey>>
Actions == {"none", "create", "write", "edit", "delete", "same"}
Absent == [tag |-> <<"absent", 0>>, ct |-> 0]
Old(p) == [tag |-> <<"old", p>>, ct |-> 0]
\* What call c stages for path p.
Content(c, p) == [tag |-> <<c, p>>, ct |-> 0]
Touch(v) == [v EXCEPT !.ct = @ + 1]
Settled == {"done", "conflict", "io_error", "rollback_failed", "refused", "replayed", "crashed"}
NoTx == [owner |-> NoSlot, pc |-> "free", i |-> 0, base |-> [p \in Paths |-> Absent],
         saved |-> [p \in Paths |-> Absent], installed |-> [p \in Paths |-> Absent],
         touched |-> {}, failures |-> {}, disturbed |-> {}, why |-> "none"]
NoEntry == [args |-> <<>>, state |-> "none"]
NoCall == [pc |-> "idle", slot |-> NoSlot, kind |-> "changes", dry |-> FALSE,
           plan |-> [p \in Paths |-> "none"], seen |-> [p \in Paths |-> Absent],
           base |-> [p \in Paths |-> Absent], outcome |-> "none", life |-> 0]

Changed(c) == {p \in Paths : call[c].plan[p] \in {"create", "write", "edit", "delete"}}
Named(c) == {p \in Paths : call[c].plan[p] # "none"}
Staged(c, p) == call[c].plan[p] \in {"create", "write", "edit"}
SameBytes(v, w) == v.tag = w.tag

Arrived == {c \in Calls : call[c].pc # "idle"}
MayArrive(c) == c = CallOrder[Cardinality(Arrived) + 1]
MoreEvents == Cardinality(Arrived) + external + faults + restarts < MaxEvents
Fault == MoreEvents /\ faults' = faults + 1

WritesInit ==
  /\ \E present \in PresentAtStart : files = [p \in Paths |-> IF p \in present THEN Old(p) ELSE Absent]
  /\ backup = [p \in Paths |-> Absent]
  /\ table = <<>> /\ entry = [s \in Slots |-> NoEntry]
  /\ call = [c \in Calls |-> NoCall]
  /\ tx = NoTx
  /\ external = 0 /\ faults = 0 /\ restarts = 0
  /\ lost = {} /\ window = {}

----------------------------------------------------------------------------
(* The replay table.                                                       *)

\* A client reads the files it is about to change, then sends the request.
Arrive(c) ==
  /\ call[c].pc = "idle" /\ MayArrive(c) /\ MoreEvents
  /\ \E r \in Requests :
       call' = [call EXCEPT ![c] = [NoCall EXCEPT !.pc = "lookup", !.kind = r.kind,
                  !.slot = IF r.key = NoKey THEN NoSlot ELSE <<r.kind, r.key>>,
                  !.dry = r.dry, !.plan = r.plan, !.seen = files, !.life = restarts]]
  /\ UNCHANGED <<diskVars, replayVars, tx, external, faults, restarts, historyVars>>

\* The client repeats a call whose answer it has not seen, or would see again.
Repeat(c, d) ==
  /\ call[c].pc = "idle" /\ MayArrive(c) /\ MoreEvents /\ call[d].pc # "idle" /\ call[d].slot \in Slots
  /\ call' = [call EXCEPT ![c] = [call[d] EXCEPT !.pc = "lookup", !.outcome = "none",
                                    !.base = NoCall.base, !.life = restarts]]
  /\ UNCHANGED <<diskVars, replayVars, tx, external, faults, restarts, historyVars>>

Answered(c, outcome) == [call EXCEPT ![c].pc = "answered", ![c].outcome = outcome]
\* What the fingerprint of a call is taken over: everything but the key.
Arguments(c) == <<call[c].plan, call[c].seen, call[c].dry>>
Forgotten(s) == SelectSeq(table, LAMBDA t : t # s)
\* (A wrong variant: the oldest remembered call, whatever became of it.)
RemovableAny == {1} \cap DOMAIN table
\* The oldest remembered call that is complete.
Removable == {i \in DOMAIN table : /\ entry[table[i]].state = "complete"
                                   /\ \A j \in 1..(i - 1) : entry[table[j]].state # "complete"}

\* (A wrong variant of LookupKnown: the key alone decides.)
LookupAnyArguments(c) ==
  /\ call[c].pc = "lookup" /\ call[c].slot \in Slots /\ entry[call[c].slot].state # "none"
  /\ call' = Answered(c, IF entry[call[c].slot].state = "complete" THEN "replayed" ELSE "refused")
  /\ UNCHANGED <<diskVars, replayVars, tx, external, faults, restarts, historyVars>>

\* Known slot: other arguments, still pending, unknown outcome, or replay.
LookupKnown(c) ==
  LET s == call[c].slot
  IN /\ call[c].pc = "lookup" /\ s \in Slots /\ entry[s].state # "none"
     /\ LET same == entry[s].args = Arguments(c)
            complete == same /\ entry[s].state = "complete"
        IN /\ call' = Answered(c, IF complete THEN "replayed" ELSE "refused")
           /\ table' = IF complete THEN Append(Forgotten(s), s) ELSE table
     /\ UNCHANGED <<diskVars, entry, tx, external, faults, restarts, historyVars>>

\* Unknown slot: a dry run and a call without a key are not remembered; any
\* other takes a place, if need be that of the oldest complete call.
LookupNew(c) ==
  LET s == call[c].slot
      remembered == s \in Slots /\ ~ call[c].dry
      full == Len(table) >= Capacity
  IN /\ call[c].pc = "lookup" /\ (s \in Slots => entry[s].state = "none")
     /\ \/ /\ ~ remembered
           /\ call' = [call EXCEPT ![c].pc = "prepare"]
           /\ UNCHANGED replayVars
        \/ /\ remembered /\ full /\ Removable = {}
           /\ call' = Answered(c, "refused")
           /\ UNCHANGED replayVars
        \/ /\ remembered /\ (full => Removable # {})
           /\ LET gone == IF full THEN {table[i] : i \in Removable} ELSE {}
              IN /\ table' = Append(SelectSeq(table, LAMBDA t : t \notin gone), s)
                 /\ entry' = [t \in Slots |->
                      IF t = s THEN [args |-> Arguments(c), state |-> "pending"]
                      ELSE IF t \in gone THEN NoEntry ELSE entry[t]]
           /\ call' = [call EXCEPT ![c].pc = "prepare"]
     /\ UNCHANGED <<diskVars, tx, external, faults, restarts, historyVars>>

\* The operation returned or raised: an error that changed nothing frees the
\* key, any other leaves it unknown; a result is kept if it can be encoded.
Settle(c) ==
  LET s == call[c].slot
      remembered == s \in Slots /\ ~ call[c].dry
  IN /\ call[c].pc = "settle"
     /\ IF ~ remembered THEN UNCHANGED replayVars
        ELSE IF call[c].outcome = "conflict"
        THEN table' = Forgotten(s) /\ entry' = [entry EXCEPT ![s] = NoEntry]
        ELSE /\ \E state \in IF call[c].outcome = "done" THEN {"complete", "unknown"} ELSE {"unknown"} :
                  entry' = [entry EXCEPT ![s].state = state]
             /\ UNCHANGED table
     /\ call' = [call EXCEPT ![c].pc = "answered"]
     /\ UNCHANGED <<diskVars, tx, external, faults, restarts, historyVars>>

----------------------------------------------------------------------------
(* Preparation: reads, and never writes.                                   *)

Raised(c, why) == [call EXCEPT ![c].pc = "settle", ![c].outcome = why]
Prepared(c) == [call EXCEPT ![c].pc = "commit", ![c].base =
                  [p \in Paths |-> IF p \in Named(c) THEN files[p] ELSE Absent]]

\* Structured changes: an existing file needs the revision its caller read, a
\* created one must be absent.
Admissible(c, p) ==
  LET now == files[p]
      then == call[c].seen[p]
  IN CASE call[c].plan[p] = "create" -> now = Absent
       [] call[c].plan[p] = "write" -> SameBytes(now, then)
       [] OTHER -> now # Absent /\ SameBytes(now, then)

PrepareChanges(c) ==
  /\ call[c].pc = "prepare" /\ call[c].kind = "changes"
  /\ \/ /\ call' = IF \A p \in Named(c) : Admissible(c, p) THEN Prepared(c) ELSE Raised(c, "conflict")
        /\ UNCHANGED faults
     \/ Fault /\ call' = Raised(c, "io_error")
  /\ UNCHANGED <<diskVars, replayVars, tx, external, restarts, historyVars>>

\* A patch names no revision: its hunks must match the text now in the file,
\* which a file changed since the patch was written may or may not still do.
PreparePatch(c) ==
  /\ call[c].pc = "prepare" /\ call[c].kind = "patch"
  /\ LET exists == \A p \in Named(c) : (files[p] = Absent) <=> (call[c].plan[p] = "create")
         moved == \E p \in Named(c) : ~ SameBytes(files[p], call[c].seen[p])
     IN \/ exists /\ call' = Prepared(c)
        \/ (~ exists \/ moved) /\ call' = Raised(c, "conflict")
  /\ UNCHANGED <<diskVars, replayVars, tx, external, faults, restarts, historyVars>>

----------------------------------------------------------------------------
(* The transaction.  It holds the commit lock from Acquire to Release.     *)

Running(pc) == tx.pc = pc
Path == PathOrder[tx.i]
Abort(why) == [tx EXCEPT !.pc = "undo", !.why = why, !.i = Len(PathOrder)]
\* The next path at or after i, in request order, that the call changes.
NextIndex(c, i) == {j \in i..Len(PathOrder) : /\ PathOrder[j] \in Changed(c)
                                              /\ \A k \in i..(j - 1) : PathOrder[k] \notin Changed(c)}
GoTo(i) == IF NextIndex(tx.owner, i) = {} THEN [tx EXCEPT !.pc = "final", !.i = 0]
           ELSE [tx EXCEPT !.pc = "check", !.i = CHOOSE j \in NextIndex(tx.owner, i) : TRUE]

\* Every path is as captured, or as this transaction left it; so are backups.
Revalidated ==
  /\ \A p \in Named(tx.owner) :
       files[p] = IF p \in tx.touched THEN tx.installed[p] ELSE tx.base[p]
  /\ \A p \in tx.touched : backup[p] = tx.saved[p]

\* Take the lock and revalidate; a dry run ends here with its result.
Acquire(c) ==
  /\ Running("free") /\ call[c].pc = "commit"
  /\ LET begun == [NoTx EXCEPT !.owner = c, !.base = call[c].base]
         valid == \A p \in Named(c) : files[p] = call[c].base[p]
     IN tx' = IF ~ valid THEN [begun EXCEPT !.pc = "release", !.why = "conflict"]
              ELSE IF call[c].dry THEN [begun EXCEPT !.pc = "release", !.why = "done"]
              ELSE [begun EXCEPT !.pc = "stage"]
  /\ UNCHANGED <<diskVars, replayVars, call, external, faults, restarts, historyVars>>

\* Write every new content to a temporary file, then revalidate.
Stage ==
  /\ Running("stage")
  /\ \/ tx' = (IF Revalidated THEN GoTo(1) ELSE Abort("conflict")) /\ UNCHANGED faults
     \/ Fault /\ tx' = Abort("io_error")
  /\ UNCHANGED <<diskVars, replayVars, call, external, restarts, historyVars>>

\* Before each file everything is revalidated once more.
CheckItem ==
  /\ Running("check")
  /\ tx' = IF Revalidated THEN [tx EXCEPT !.pc = IF tx.base[Path] # Absent THEN "backup" ELSE "install"]
           ELSE Abort("conflict")
  /\ UNCHANGED <<diskVars, replayVars, call, external, faults, restarts, historyVars>>

\* Rename the file away and look at what was renamed.
BackUp ==
  /\ Running("backup")
  /\ \/ /\ files[Path] # Absent
        /\ files' = [files EXCEPT ![Path] = Absent]
        /\ backup' = [backup EXCEPT ![Path] = Touch(files[Path])]
        /\ LET moved == [tx EXCEPT !.touched = @ \cup {Path}, !.saved[Path] = Touch(files[Path])]
           IN tx' = IF SameBytes(files[Path], tx.base[Path])
                    THEN [moved EXCEPT !.pc = "install"]
                    ELSE [moved EXCEPT !.pc = "undo", !.why = "conflict", !.i = Len(PathOrder)]
        /\ UNCHANGED faults
     \/ files[Path] = Absent /\ tx' = Abort("io_error") /\ UNCHANGED <<files, backup, faults>>
     \/ Fault /\ tx' = Abort("io_error") /\ UNCHANGED <<files, backup>>
  /\ UNCHANGED <<replayVars, call, external, restarts, historyVars>>

\* Link the staged file at the path, which must be free.
Install ==
  /\ Running("install")
  /\ \/ ~ Staged(tx.owner, Path) /\ tx' = GoTo(tx.i + 1) /\ UNCHANGED <<files, faults>>
     \/ /\ Staged(tx.owner, Path) /\ files[Path] = Absent
        /\ files' = [files EXCEPT ![Path] = Content(tx.owner, Path)]
        /\ tx' = [tx EXCEPT !.pc = "confirm", !.touched = @ \cup {Path}]
        /\ UNCHANGED faults
     \/ /\ Staged(tx.owner, Path) /\ files[Path] # Absent
        /\ tx' = Abort("io_error") /\ UNCHANGED <<files, faults>>
     \/ Staged(tx.owner, Path) /\ Fault /\ tx' = Abort("io_error") /\ UNCHANGED files
  /\ UNCHANGED <<backup, replayVars, call, external, restarts, historyVars>>

\* (A wrong variant of Confirm: whatever is at the path becomes the installed
\* version, to be removed by a rollback.)
ConfirmAnything ==
  /\ Running("confirm")
  /\ tx' = [(IF SameBytes(files[Path], Content(tx.owner, Path)) THEN GoTo(tx.i + 1)
             ELSE Abort("conflict")) EXCEPT !.installed[Path] = files[Path]]
  /\ UNCHANGED <<diskVars, replayVars, call, external, faults, restarts, historyVars>>

\* Only the staged bytes, seen again at the path, become the installed version.
Confirm ==
  /\ Running("confirm")
  /\ \/ /\ tx' = IF SameBytes(files[Path], Content(tx.owner, Path))
                  THEN [GoTo(tx.i + 1) EXCEPT !.installed[Path] = files[Path]]
                  ELSE Abort("conflict")
        /\ UNCHANGED faults
     \/ Fault /\ tx' = Abort("io_error")
  /\ UNCHANGED <<diskVars, replayVars, call, external, restarts, historyVars>>

FinalCheck ==
  /\ Running("final")
  /\ tx' = IF Revalidated THEN [tx EXCEPT !.pc = "cleanup", !.why = "done"] ELSE Abort("conflict")
  /\ UNCHANGED <<diskVars, replayVars, call, external, faults, restarts, historyVars>>

\* Rollback walks the files backwards.  It restores a file only if the path
\* holds what this transaction put there and the backup what it renamed away.
Undoable(p) ==
  /\ files[p] = tx.installed[p]
  /\ backup[p] = tx.saved[p]
  /\ tx.saved[p] # Absent => SameBytes(tx.saved[p], tx.base[p])

Undo ==
  /\ Running("undo")
  /\ tx' = IF tx.i = 0
           THEN [tx EXCEPT !.pc = IF tx.failures = {} THEN "cleanup" ELSE "release",
                           !.why = IF tx.failures = {} THEN @ ELSE "rollback_failed"]
           ELSE IF Path \notin tx.touched THEN [tx EXCEPT !.i = @ - 1]
           ELSE IF Undoable(Path) THEN [tx EXCEPT !.pc = "remove"]
           ELSE [tx EXCEPT !.i = @ - 1, !.failures = @ \cup {Path}]
  /\ UNCHANGED <<diskVars, replayVars, call, external, faults, restarts, historyVars>>

\* Remove the installed file, if one was installed.
RemoveInstalled ==
  /\ Running("remove")
  /\ LET failed == [tx EXCEPT !.pc = "undo", !.i = @ - 1, !.failures = @ \cup {Path}]
         had == tx.installed[Path] # Absent
     IN \/ /\ ~ had \/ files[Path] # Absent
           /\ tx' = [tx EXCEPT !.pc = "restore"]
           /\ files' = IF had THEN [files EXCEPT ![Path] = Absent] ELSE files
           /\ lost' = IF had /\ ~ SameBytes(files[Path], Content(tx.owner, Path))
                      THEN lost \cup {files[Path].tag} ELSE lost
           /\ UNCHANGED faults
        \/ had /\ files[Path] = Absent /\ tx' = failed /\ UNCHANGED <<files, lost, faults>>
        \/ had /\ Fault /\ tx' = failed /\ UNCHANGED <<files, lost>>
  /\ UNCHANGED <<backup, replayVars, call, external, restarts, window>>

\* Link the backup at the path, which must be free, and drop its second name.
Restore ==
  /\ Running("restore")
  /\ LET failed == [tx EXCEPT !.pc = "undo", !.i = @ - 1, !.failures = @ \cup {Path}]
         restored == [tx EXCEPT !.pc = "undo", !.i = @ - 1, !.touched = @ \ {Path}]
         had == backup[Path] # Absent
     IN \/ ~ had /\ tx' = restored /\ UNCHANGED <<diskVars, faults>>
        \/ /\ had /\ files[Path] = Absent
           /\ files' = [files EXCEPT ![Path] = Touch(backup[Path])]
           /\ backup' = [backup EXCEPT ![Path] = Absent]
           /\ tx' = restored /\ UNCHANGED faults
        \/ had /\ files[Path] # Absent /\ tx' = failed /\ UNCHANGED <<diskVars, faults>>
        \/ had /\ Fault /\ tx' = failed /\ UNCHANGED diskVars
  /\ UNCHANGED <<replayVars, call, external, restarts, historyVars>>

\* Temporary files and backups are removed, unless the rollback failed.
Cleanup ==
  /\ Running("cleanup")
  /\ backup' = [p \in Paths |-> Absent]
  /\ lost' = lost \cup {backup[p].tag : p \in {q \in Paths : /\ backup[q] # Absent
                                                            /\ ~ SameBytes(backup[q], tx.base[q])}}
  /\ tx' = [tx EXCEPT !.pc = "release"]
  /\ UNCHANGED <<files, replayVars, call, external, faults, restarts, window>>

\* The lock is released.  Preserved backups keep names no later call uses.
Release ==
  /\ Running("release")
  /\ call' = [call EXCEPT ![tx.owner].pc = "settle", ![tx.owner].outcome = tx.why]
  /\ backup' = [p \in Paths |-> Absent]
  /\ tx' = NoTx
  /\ UNCHANGED <<files, replayVars, external, faults, restarts, historyVars>>

----------------------------------------------------------------------------
(* The environment.                                                        *)

\* Another program writes or removes a file.
ExternalWrite(p) ==
  /\ MoreEvents
  /\ external' = external + 1
  /\ \E v \in {Absent, [tag |-> <<"external", external>>, ct |-> 0]} :
       /\ v # files[p]
       /\ files' = [files EXCEPT ![p] = v]
       /\ window' = IF v # Absent /\ Running("remove") /\ Path = p
                    THEN window \cup {v.tag} ELSE window
       /\ tx' = IF tx.saved[p] # Absent THEN [tx EXCEPT !.disturbed = @ \cup {p}] ELSE tx
  /\ UNCHANGED <<backup, replayVars, call, faults, restarts, lost>>

\* A program that had the file open before it was renamed writes to the backup.
ExternalBackupWrite(p) ==
  /\ MoreEvents /\ backup[p] # Absent
  /\ external' = external + 1
  /\ LET v == [tag |-> <<"external", external>>, ct |-> 0]
     IN /\ backup' = [backup EXCEPT ![p] = v]
        /\ window' = IF Running("cleanup") THEN window \cup {v.tag} ELSE window
  /\ tx' = [tx EXCEPT !.disturbed = @ \cup {p}]
  /\ UNCHANGED <<files, replayVars, call, faults, restarts, lost>>

\* The process stops: the table and the transaction are gone, files are not.
Restart ==
  /\ MoreEvents
  /\ restarts' = restarts + 1
  /\ table' = <<>> /\ entry' = [s \in Slots |-> NoEntry]
  /\ call' = [c \in Calls |-> IF call[c].pc \in {"idle", "answered"} THEN call[c]
                              ELSE [call[c] EXCEPT !.pc = "answered", !.outcome = "crashed"]]
  /\ backup' = [p \in Paths |-> Absent]
  /\ tx' = NoTx
  /\ UNCHANGED <<files, external, faults, historyVars>>

ServerStep ==
  \/ \E c \in Calls : LookupKnown(c) \/ LookupNew(c) \/ Settle(c)
                      \/ PrepareChanges(c) \/ PreparePatch(c) \/ Acquire(c)
  \/ Stage \/ CheckItem \/ BackUp \/ Install \/ Confirm \/ FinalCheck
  \/ Undo \/ RemoveInstalled \/ Restore \/ Cleanup \/ Release

WritesNext ==
  \/ ServerStep
  \/ \E c \in Calls : Arrive(c) \/ \E d \in Calls \ {c} : Repeat(c, d)
  \/ \E p \in Paths : ExternalWrite(p) \/ ExternalBackupWrite(p)
  \/ Restart

WritesSpec == WritesInit /\ [][WritesNext]_writesVars

----------------------------------------------------------------------------
(* Properties.                                                             *)

Versions == [tag : ({"absent", "old", "external"} \cup Calls) \X (Paths \cup Nat), ct : Nat]
CallType == [pc : {"idle", "lookup", "prepare", "commit", "settle", "answered"},
             slot : Slots \cup {NoSlot}, kind : {"changes", "patch"}, dry : BOOLEAN,
             plan : [Paths -> Actions], seen : [Paths -> Versions], base : [Paths -> Versions],
             outcome : Settled \cup {"none"}, life : Nat]
TxType == [owner : Calls \cup {NoSlot},
           pc : {"free", "stage", "check", "backup", "install", "confirm", "final",
                 "undo", "remove", "restore", "cleanup", "release"},
           i : Nat, base : [Paths -> Versions], saved : [Paths -> Versions],
           installed : [Paths -> Versions], touched : SUBSET Paths, failures : SUBSET Paths, disturbed : SUBSET Paths,
           why : Settled \cup {"none"}]

\* Type invariant; the replay table lists each remembered slot once and is
\* never longer than its capacity.
WritesTypeOK ==
  /\ files \in [Paths -> Versions] /\ backup \in [Paths -> Versions]
  /\ call \in [Calls -> CallType] /\ tx \in TxType
  /\ {external, faults, restarts} \subseteq 0..MaxEvents
  /\ IsInjective(table) /\ Len(table) <= Capacity
  /\ ToSet(table) = {s \in Slots : entry[s].state # "none"}

\* A transaction removes the versions its request was prepared against and
\* its own, and nothing another program wrote in between, except what is
\* written to a name after the last look at it and before its removal
\* (_mutate, _rollback and the cleanup of commit).
OnlyRemovesWhatItKnows == lost \subseteq window

\* A call that failed cleanly left none of its own content behind and put back
\* every file it had moved; one whose rollback failed kept, in place or as a
\* backup, every file it had moved, unless others have written to it since.
FailureRestoresOrPreserves ==
  Running("release") /\ tx.why # "done" =>
    \A p \in Changed(tx.owner) :
      /\ tx.why # "rollback_failed" => ~ SameBytes(files[p], Content(tx.owner, p))
      /\ tx.saved[p] # Absent /\ p \notin tx.disturbed =>
           \/ SameBytes(files[p], tx.saved[p])
           \/ tx.why = "rollback_failed" /\ SameBytes(backup[p], tx.saved[p])

\* Both halves of what a client may rely on whatever the disk, other programs
\* and the rollback do (_WorkspaceTransaction.commit): nothing of anybody else
\* is destroyed, and a failure is either undone or leaves all it moved.
FilesAreSafe == OnlyRemovesWhatItKnows /\ FailureRestoresOrPreserves

Executing(c) == call[c].pc \in {"prepare", "commit", "settle"}
\* The write of call d is under way, or nobody knows what became of it.
Uncertain(d) == /\ call[d].life = restarts /\ ~ call[d].dry
                /\ Executing(d) \/ call[d].outcome \in {"io_error", "rollback_failed"}

\* A keyed write is never started while another call with its key is under way,
\* nor after one of them ended in a way that leaves its effect unknown
\* (NativeReplay.execute), however full the table of remembered calls is.
UncertainNeverRepeated ==
  [][\A c \in Calls : call[c].pc = "lookup" /\ Executing(c)' /\ call[c].slot \in Slots /\ ~ call[c].dry =>
       ~ \E d \in Calls \ {c} : call[d].slot = call[c].slot /\ Uncertain(d)]_writesVars

\* An answer given as a replay is that of a write with the same arguments
\* that did reach the disk under the same key.
ReplayIsEvidence ==
  \A c \in Calls : call[c].outcome = "replayed" =>
    \E d \in Calls : /\ call[d].slot = call[c].slot /\ call[d].life = call[c].life
                     /\ Arguments(d) = Arguments(c) /\ call[d].outcome = "done" /\ ~ call[d].dry

=============================================================================
