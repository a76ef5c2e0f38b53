------------------------------- MODULE Export -------------------------------
(***************************************************************************)
(* Delivery of a verified proof to the workspace.  Every poll of a run     *)
(* that is done writes the final text to the run's path unless it is there *)
(* already (ensure_verified_latex); a caller may also have it written to a *)
(* path of its own, if need be over a file whose hash it names             *)
(* (export_verified_latex).                                                *)
(* Both look at the path several times before the transaction that writes  *)
(* it.  Users own the workspace: they write and delete files at any time.  *)
(*                                                                         *)
(* The transaction is the one of NativeWrites, for one file and without    *)
(* staging, identities and directories: its last look at the file and the  *)
(* renaming of it are one step here.                                       *)
(***************************************************************************)
EXTENDS Naturals

CONSTANTS ExportRuns, Paths, Handlers,
          Texts,         \* what a file can hold
          NoText,        \* no file, no hash; not one of the above
          Verified,      \* [ExportRuns -> Texts]: the final proof of each run
          ExportPath,    \* [ExportRuns -> Paths]: where each run was asked to write it
          MaxEvents      \* bound: writes by users, failing system calls and restarts,
                         \* all together

\* NoText is a value of its own, and every run has a text and a path in the workspace.
ASSUME ExportAssumption ==
  /\ NoText \notin Handlers \cup Texts
  /\ Verified \in [ExportRuns -> Texts] /\ ExportPath \in [ExportRuns -> Paths]

VARIABLES ended,      \* runs that are done and sealed
          file,       \* the text at each path
          call,       \* what each handler is doing
          events,     \* how often a user wrote, a call failed, the server restarted
          replaced,   \* history: <<text, hash named>> of each file written over
          answers     \* history: answers, and whether there was a reason for them

exportVars == <<ended, file, call, events, replaced, answers>>
historyVars == <<replaced, answers>>

\* `saw': what the path held since the call began; `calm': nobody else touched it;
\* `fresh': nobody else touched it since the transaction captured it.
NoExport == [pc |-> "idle", run |-> NoText, path |-> NoText, poll |-> FALSE, expected |-> NoText,
             update |-> FALSE, base |-> NoText, fresh |-> FALSE, calm |-> FALSE, saw |-> {}]

ExportInit ==
  /\ ended = {} /\ file \in [Paths -> Texts \cup {NoText}]
  /\ call = [h \in Handlers |-> NoExport] /\ events = 0
  /\ replaced = {} /\ answers = {}

AtPath(h) == file[call[h].path]
Text(h) == Verified[call[h].run]

Answers(h, ok, reason) ==
  /\ call' = [call EXCEPT ![h] = NoExport]
  /\ answers' = answers \cup {[ok |-> ok, reason |-> reason]}
\* The call fails.  A poll has reason to if another text was at the path or somebody
\* else was at work there.
Refuses(h) ==
  Answers(h, FALSE, ~ call[h].poll \/ ~ call[h].calm \/ ~ call[h].saw \subseteq {NoText, Text(h)})
\* The answer says that the run's text is at the path.
Confirms(h) == Answers(h, TRUE, Text(h) \in call[h].saw)

\* The calls after path p is given text t by handler h (NoText: by a user): the
\* others that work on it may see it, and what they captured is no longer current.
Seen(h, p, t) ==
  [g \in Handlers |-> IF call[g].path = p
                      THEN [call[g] EXCEPT !.saw = @ \cup {t}, !.calm = @ /\ g = h,
                                          !.fresh = @ /\ g = h] ELSE call[g]]

Ask(h, r, p, e, poll) ==
  /\ call[h].pc = "idle" /\ r \in ended
  /\ call' = [call EXCEPT ![h] = [NoExport EXCEPT
       !.pc = IF poll THEN "look" ELSE "look_again", !.run = r, !.path = p, !.poll = poll,
       !.expected = e, !.calm = TRUE, !.saw = {file[p]}]]
  /\ UNCHANGED <<ended, file, events, historyVars>>

\* A poll of a run that is done, or an export that names no path.
PollExport(h, r) == Ask(h, r, ExportPath[r], NoText, TRUE)
\* An export to a path of the caller's choice, with or without a hash.
ExportTo(h) == \E r \in ExportRuns, p \in Paths, e \in Texts \cup {NoText} : Ask(h, r, p, e, FALSE)

Look(h) ==
  /\ call[h].pc = "look"
  /\ call' = [call EXCEPT ![h].pc = IF AtPath(h) = NoText THEN "look_again" ELSE "compare"]
  /\ UNCHANGED <<ended, file, events, historyVars>>

\* (A wrong variant of CompareFile: an existing file is never the proof.)
CompareRefuses(h) ==
  /\ call[h].pc = "compare" /\ Refuses(h)
  /\ UNCHANGED <<ended, file, events, replaced>>

\* The file's hash is that of the proof, or it is another file or none by now.
CompareFile(h) ==
  /\ call[h].pc = "compare"
  /\ IF AtPath(h) = Text(h) THEN Confirms(h) ELSE Refuses(h)
  /\ UNCHANGED <<ended, file, events, replaced>>

\* A file that exists is written over only if the caller named a hash.
LookAgain(h) ==
  /\ call[h].pc = "look_again"
  /\ \/ AtPath(h) # NoText /\ call[h].expected = NoText /\ Refuses(h)
     \/ /\ AtPath(h) = NoText \/ call[h].expected # NoText
        /\ call' = [call EXCEPT ![h].pc = "prepare", ![h].update = AtPath(h) # NoText]
        /\ UNCHANGED answers
  /\ UNCHANGED <<ended, file, events, replaced>>

\* (A wrong variant of Matches: what was looked at before is not looked at again.)
MatchesHash(h) == call[h].expected = NoText \/ AtPath(h) = call[h].expected
\* What the transaction captures is what the caller named, and an added file is new.
Matches(h) == /\ call[h].expected = NoText \/ AtPath(h) = call[h].expected
              /\ call[h].update \/ AtPath(h) = NoText

Prepare(h) ==
  /\ call[h].pc = "prepare"
  /\ \/ ~ Matches(h) /\ Refuses(h)
     \/ /\ Matches(h)
        /\ call' = [call EXCEPT ![h].pc = "commit", ![h].base = AtPath(h), ![h].fresh = TRUE]
        /\ UNCHANGED answers
  /\ UNCHANGED <<ended, file, events, replaced>>

----------------------------------------------------------------------------
(* The transaction over the file, under the commit lock.                   *)

Locked == \E h \in Handlers : call[h].pc \in {"link", "confirm"}

\* Nothing to write, the file as captured moved aside, or no file to move.
Commit(h) ==
  LET p == call[h].path
  IN /\ call[h].pc = "commit" /\ ~ Locked
     /\ \/ ~ call[h].fresh /\ Refuses(h) /\ UNCHANGED file
        \/ call[h].fresh /\ call[h].base = Text(h) /\ Confirms(h) /\ UNCHANGED file
        \/ /\ call[h].fresh /\ call[h].base # Text(h)
           /\ file' = [file EXCEPT ![p] = NoText]
           /\ call' = [IF call[h].base = NoText THEN call ELSE Seen(h, p, NoText)
                       EXCEPT ![h].pc = "link"]
           /\ UNCHANGED answers
     /\ UNCHANGED <<ended, events, replaced>>

\* A link never replaces what a user wrote meanwhile; the file moved aside then
\* stays under its other name.
LinkFile(h) ==
  LET p == call[h].path
  IN /\ call[h].pc = "link"
     /\ \/ AtPath(h) # NoText /\ Refuses(h) /\ UNCHANGED file
        \/ /\ AtPath(h) = NoText
           /\ file' = [file EXCEPT ![p] = Text(h)]
           /\ call' = [Seen(h, p, Text(h)) EXCEPT ![h].pc = "confirm", ![h].fresh = TRUE]
           /\ UNCHANGED answers
     /\ UNCHANGED <<ended, events, replaced>>

\* The last validation: the file is still the one installed, and the one moved
\* aside is deleted; or the rollback finds another and leaves everything as it is.
Confirm(h) ==
  /\ call[h].pc = "confirm"
  /\ \/ ~ call[h].fresh /\ Refuses(h) /\ UNCHANGED replaced
     \/ /\ call[h].fresh /\ Confirms(h)
        /\ replaced' = replaced \cup {<<call[h].base, call[h].expected>>}
  /\ UNCHANGED <<ended, file, events>>

Event == events < MaxEvents /\ events' = events + 1

\* A system call fails.  A transaction puts back what it moved, unless the path
\* is not as it left it.
Fails(h) ==
  LET p == call[h].path
      undone == call[h].pc \in {"link", "confirm"} /\ call[h].fresh
  IN /\ call[h].pc # "idle" /\ Event
     /\ file' = IF undone THEN [file EXCEPT ![p] = call[h].base] ELSE file
     /\ call' = [IF undone THEN Seen(h, p, call[h].base) ELSE call EXCEPT ![h] = NoExport]
     /\ UNCHANGED <<ended, historyVars>>

\* The server stops and starts again; files stay where they are.
Restart ==
  /\ \E h \in Handlers : call[h].pc # "idle"
  /\ Event /\ call' = [h \in Handlers |-> NoExport]
  /\ UNCHANGED <<ended, file, historyVars>>

\* A user writes or deletes a file.
UserWrites(p) ==
  /\ Event
  /\ \E t \in (Texts \cup {NoText}) \ {file[p]} :
       file' = [file EXCEPT ![p] = t] /\ call' = Seen(NoText, p, t)
  /\ UNCHANGED <<ended, historyVars>>

\* A run becomes done: its final text never changes again.
RunEnds(r) ==
  /\ r \notin ended /\ ended' = ended \cup {r}
  /\ UNCHANGED <<file, call, events, historyVars>>

ExportNext ==
  \/ \E r \in ExportRuns : RunEnds(r) \/ \E h \in Handlers : PollExport(h, r)
  \/ \E h \in Handlers : \/ ExportTo(h) \/ Look(h) \/ CompareFile(h) \/ LookAgain(h)
                         \/ Prepare(h) \/ Commit(h) \/ LinkFile(h) \/ Confirm(h) \/ Fails(h)
  \/ Restart \/ \E p \in Paths : UserWrites(p)

ExportSpec == ExportInit /\ [][ExportNext]_exportVars

----------------------------------------------------------------------------
(* Properties.                                                             *)

\* What is written over is what the caller named, however late a user wrote it,
\* and who is told that the proof is there can have found it there.
ExportsAreSafe == /\ \A pair \in replaced : pair[1] = pair[2]
                  /\ \A answer \in answers : answer.ok => answer.reason

\* The proof of a run that is done reaches its path: whatever happened before, a poll
\* that is not disturbed delivers it, unless another text stands there.
PollDelivers == \A answer \in answers : ~ answer.ok => answer.reason
=============================================================================
