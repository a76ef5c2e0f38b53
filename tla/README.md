# Formal verification of Re-CTM

Re-CTM is a local MCP server: a remote model, authorised with OAuth, calls its
tools over HTTP. Some tools work on a native workspace (files, patches,
commands); the six `rethlas_*` tools drive proof workflows that the server keeps
in a private SQLite database and a private directory of files. These modules
specify the parts of it that are hard to test: durable submissions, the life of a
workflow run, the registry of results, what each role may learn, transactions over
several files, host commands, and the structures that keep repeated requests
harmless.

Paths below are relative to `src/src/re_ctm/`. `PROJECT.json` lists for every
definition the source lines it stands for, the hazards of the code, the properties
that would catch them, and for each property a plausible bug (an operator of the
module whose comment begins "A wrong variant") that TLC finds with it.

## The system

| Component | State | Operations | What is hard |
|---|---|---|---|
| Submissions: `workflow_submission.py`, `storage_receipts.py`, `storage_recovery.py`, `storage_actions.py`, `workflow_actions.py` | receipts, checkpoints, write journals, action evidence files | reserve, activate, write, arm, enrol, commit, correct, recover | crashes between any two steps, repeated and concurrent requests, handlers that outlive a recovery |
| Workflow engine: `workflow.py`, `storage.py` | runs, domains, branches, metadata; draft, report, final proof | `next_task`, `commit`, `cancel`, mechanical phases | handlers act on a row read earlier; gates read files outside the lock |
| Capabilities: `capabilities.py` | registry of signed tokens; permissions by role | issue, validate, revoke, authorise a read, write or search | tokens of a past epoch; information that travels indirectly |
| Vault: `vault.py`, `vault_effects.py` | files of a run, the run's `flock` | captured writes, exact publication | interrupted publication |
| Claim registry: `storage.py` | projects, claims, revisions, edges, snapshots | promote, freeze a snapshot | promotion repeated or concurrent |
| Run creation: `workflow_creation.py`, `storage_creation.py` | creation receipts, initial files | create | interrupted initialisation, repeated keys |
| Facts: `fact_store.py`, `fact_graph.py`, `fact_memory.py` | facts, edges, revocations, findings | add, revoke, recall | revocation must reach every dependent |
| Research state: `research_state/` | none: derived from the history of a protocol-3 run | accept, normalise, advise | records outlive the plans they name |
| Native changes: `native_changes.py`, `native_patch.py` | staged files, backups, a commit lock | prepare, commit, roll back | other programs write meanwhile; one of several files fails, and so may its restoration; line ends and the end of a file |
| Native replay: `native_replay.py` | table of remembered calls | begin, complete, fail | a full table, unknown outcomes |
| Commands: `processes.py` | active and retained processes, output buffers, watchdogs | start, poll, read, kill, close, expire | limits; exit, deadline, kill and eviction at once |
| Native runtime: `native.py`, `native_exec.py`, `native_catalog.py`, `native_helper_bwrap.py`, `ctm_compat.py` | none of its own | read in pages, search, list, git; deliver a proof to the workspace | a file rewritten between two pages, or between two looks at where a proof goes |
| OAuth: `oauth.py` | clients, authorization codes; signed tokens need no row | register, authorise, exchange, validate | single use of codes; resources named in several forms |
| Server and dispatch: `server.py`, `mcp.py`, `app.py` | none between requests | one thread per request, two protocol eras | the order of many checks; answers that fail when the tool is done |
| Tools: `tools.py`, `rethlas_contracts.py`, `methodology.py` | none | validate and dispatch | - |
| LaTeX gate: `latex.py`, `latex_scan.py` | scratch directory | validate a text | - |
| The rest: `config.py`, `cli.py`, `diagnostics.py`, `debug.py`, `terminal_ui.py`, `toolchains.py`, `research.py`, `quick_tunnel.py`, `engineering_graph.py`, `storage_schema.py` | configuration, logs | start-up and presentation | - |

A request is handled by a thread of its own (`server.py`, `ThreadingHTTPServer`).
Handlers share the database, whose transactions are serialised by a lock
(`storage.py`, `transaction`), and the files of a run, which only submissions and
some mechanical steps protect with the run's `flock` (`vault_effects.py`,
`lock_run`). Everything else that two handlers do may interleave: this is why the
modules take one transaction, one published file, one system call or one separate
read as a step, and let any other handler act between two steps.

How the parts call each other:

- Every tool call has passed the gateway (`server.py`, `mcp.py`) and carries an
  access token of `oauth.py`.
- `rethlas_start` creates a run (`workflow_creation.py`), which uses the vault for
  its files and, if it belongs to a project, freezes a snapshot of the claim
  registry in the same transaction as its rows.
- `rethlas_step` without a submission (`workflow.py`, `next_task`) runs the mechanical
  phases, makes or finds a domain, issues a capability for it, and builds the task's
  context, which for a protocol-3 generator holds the research state and its advice.
- `rethlas_step` with one (`workflow_submission.py`) takes that capability, writes resources
  and commits an action, which moves the run to its next phase and revokes every
  capability of the old one.
- When a run is done, every further poll retries its promotion to the registry
  until that has an outcome; promotion writes facts, findings, a revision and the
  run's status in one transaction.
- The same poll then writes the final proof to the workspace (`tools.py`,
  `_attach_automatic_final_export`), through the transaction of the native tools.
- Native tools do not touch any of this otherwise; they share only the HTTP server and the
  authorisation. Keyed native writes go through a table of remembered calls around
  the transaction over the files. Commands are processes of the host, watched by a
  thread each.

### What makes each component correct

| Component | Correct if |
|---|---|
| Submissions | each write takes effect at most once; the receipt tells exactly which did; the transition happens exactly if the receipt says so; nothing else moves the run meanwhile; what is interrupted can be settled |
| Workflow engine | what is published is what was verified and what passed the gate; phases follow the table; a branch has one result and joins see all of them; polling always leads to work |
| Capabilities | no effect for a capability of a past phase; branches of a round learn nothing of each other; the verifier learns nothing but the proof |
| Registry | one current revision, the newest; one revision per run, on the revision the run was created on; an outcome is final; conditions are inherited |
| Facts | nothing in force rests on what was revoked |
| Creation | a key makes one run; a run that is started is whole; repeating a creation completes it |
| Research state | the advice is true of the records; work that remains is visible; a refuted claim stays refuted; the history can always be read again |
| Native replay | a call is executed at most once per key; a replayed answer is that of a write that happened; a full table refuses rather than forgets an unknown outcome |
| Native changes | all files of a change or none, or the failure leaves what it moved; never over a file that changed since it was read |
| Delivery of proofs | nothing of the user's is written over unasked; the proof of a finished run gets to its path |
| Reading and editing text | pages joined are one revision of the file; an edit changes the text of the lines it names and of no other, but for an empty last line (below) |
| Commands | no more than the limits; what runs can be reached; an evicted command never comes back; an end is recorded once and for good; every command ends |
| Output | every byte is returned or reported as omitted, once |
| OAuth | a code is exchanged once, and a token works for the client and the server its authorization was for |
| Gateway | an error or a refusal means that the tool did not run, unless it is HTTP 500 or a closed connection; a result means that it ran |

## Modules

| Module | Models | Composed by |
|---|---|---|
| `Submission` | the submission protocol of one run | `MCSubmission`, `MCSettling` |
| `SubmissionLedger` | what a submission promises, without mechanism | refined by `Submission` |
| `WorkflowRun` | the phases of one run, tasks, branches, gate, verification; takes a submission as the unit that `Submission` shows it to be | `MCWorkflowRun`, `MCEngine` |
| `Research` | the history of a protocol-3 run and the advice made from it | `MCResearch`, `MCEngine` |
| `GoalGraph` | the code's two graph searches, compared with the sets `Research` uses | `MCEngine` |
| `Barriers` | what each role of a run can learn | `MCResources` |
| `ClaimRegistry` | revisions, promotion, facts, findings; takes from `WorkflowRun` that a run finishes once, with one proof | `MCClaimRegistry`, `MCFinished` |
| `Export` | delivery of the proof of a finished run to the workspace; takes the transaction of `NativeWrites` as a unit | `MCFinished` |
| `Creation` | creation of a run under a key; makes the rows that `ClaimRegistry.Link` reads | `MCSettling` |
| `NativeWrites` | the replay table and the transaction over several files | `MCResources` |
| `NativeText` | pages, line edits and patch hunks, with line ends | `MCResources` |
| `Commands` | the command manager, its processes and watchdogs | `MCServer`, `MCSettling` |
| `CommandOutput` | the buffers of one output stream | `MCServer` |
| `Access` | OAuth | `MCServer` |
| `Gateway` | one request from transport to the answer that is sent | `MCServer` |
| `Submission_proofs`, `Creation_proofs`, `ClaimRegistry_proofs`, `Engine_proofs` (`WorkflowRun`, `Research`), `Boundaries_proofs` (`Barriers`, `Export`), `Native_proofs` (`NativeWrites`, `NativeText`), `Commands_proofs`, `Server_proofs` (`CommandOutput`, `Access`, `Gateway`) | theorems | |

`MCSettling`, `MCResources`, `MCServer`, `MCEngine` and `MCFinished` set components that share no
state side by side: a variable `part` says which component a behaviour is of, and the
others do not move. A component is as it would be alone; the composition asks several
questions in one run. In `MCSettling`, which assumes fairness, no fair step of a
component is enabled in its initial states, so that its fairness asks nothing of the
behaviours of the others.

### Submission

One run; `Caps` are the capability tokens the server can issue, `Requests` the
bodies clients can send: a payload and a list of writes of four kinds (an append
to memory, a replacement of a product by new bytes, a replacement by the same
bytes, a database row).

| Variable | Code |
|---|---|
| `epoch`, `stage` | `runs.epoch`; which kind of action `runs.state` calls for |
| `cap`, `expired` | `capabilities` rows and their expiry |
| `receipt`, `check`, `journal` | `step_receipts`, `step_checkpoints`, `step_write_journals` |
| `files`, `sidecars` | versions of private files; `debug/state/action-*.json` |
| `lock`, `job` | holder of the run's flock; the request handlers |
| `done`, `advanced`, `installed` | history, read by no guard |

A submission passes `Submit`, `Reserve`, `Activate`, then for each write
`BeginWrite`, `PublishWrite`, `AcceptWrite` (or `DatabaseWrite`), then `ArmCommit`,
`Prepare`, and by kind of action `EnrollAtomic` or `EnrollRestartable` with
`PublishSidecar` and `PublishProduct`, and last `CommitTransition` or
`CommitPartial`. Each of these can be refused or fail (`ReserveRefused`,
`ActivateRefused`, `RejectWrite`, `RejectPrepare`, `RejectEnroll`, `RejectCommit`,
`StepFails`, `RaiseUnknown`) and the handler can stop anywhere (`Abort`). `Recover`
is the reconciliation that a `recover_only` call performs (`storage_recovery.py`,
`reconcile_caller_writes`). `Mechanical`, `Cancel`, `Expire`, `IssueRead` and
`IssueInsert` are what goes on around it.

`SubmissionLedger` is the promise: a ledger of capabilities that are unused, open,
moved, partial or corrected. `Ledger!Spec` is a property of `Submission` under the
mapping given at its end.

### WorkflowRun

The row of the run with the metadata fields its guards read; branches, domains and
capabilities; the draft, the report, the audit, the final proof; and handlers
executing `next_task`, each with its own copy of the row. A proof text is a model
value: `Clean` says which texts pass the LaTeX gate, `Cited` which need a reference
audit. `Begin` is the first read of `next_task`; `PrepareBranchRound`, `ReadProof`,
`CompleteGate`, `CopyFinal`, `CompleteFinal` are the mechanical phases;
`FindDomain`, `CreateDomain`, `FindBranch`, `MarkRunning`, `Issue` the way to a task.
A submission is `Open`, writes, `Prepare`, then `Commit` or `Settle`; the plan of
each commit handler (`AssessmentComplete` to `RepairSubmitted`) is an operator that
returns the next phase, verdict and metadata, as `_prepare_commit_action` does.

### Research

`rsHistory` is what the vault's channels hold of a protocol-3 run: screenings, branch
results, counterexamples, failed paths, assessments. `Propose` accepts a
decomposition (`Acceptable`: at least two plans, each an acyclic graph of its own
goals), `Screen` merges a direct screening, `SealBranch`, `Join`, `IdentifyFailures`
and `Replan` go through a round, `Probe`, `Assess` and `NoteFailure` are what a
generator writes itself. `Status` is the normalised graph: screened entries, then
sealed results, then counterexamples, in the code's order (within one of these the
order of the records makes no difference); a failed branch that names nothing it
proved or did not touches every goal of its plan, whatever obstructions it reports
(`Touched`). `Actionable` and `RouteCritical` are the frontier; `Advice` is the first
of `Rules` that holds (`research_state/view.py`). `Readable` is where the code raises instead.

What the code finds by searching a graph, `Research` states by its result, so that it
can be reasoned about: a decomposition is acyclic if its goals can be ranked
(`ValidLocalGraph`), and what a node rests on is what is reached from it in as many
steps as there are nodes (`Reach`). `GoalGraph` has the searches as the code runs them
and compares them with these on every graph of up to three goals.

### Barriers

Information is a set of labels: the branch it comes from, the verifier, or private.
`baStores`, `baMemory`, `baResults` are what the resources hold, `baKnows` what the open
domain has learnt, `baFlight` a retrieval that was authorised and has not answered. `Read`,
`Search`, `Write`, `BeginRetrieve` and `EndRetrieve` are guarded by `ReadableBy`, `WritableBy`,
`Searchable`, `MayRetrieve` (`default_permissions`) and `Firewall`
(`authorize_role_resource`); `IssueRoleTask` gives a domain the context its task is built with;
`CommitBranch`, `CommitJoin`, `SubmitProof`, `CommitVerification` and the others move the run on.
What a domain writes carries all it knows, except the proof, which is published on purpose.

### ClaimRegistry

A revision is named by claim and number. A run of the project is `Link`ed when it
is created, `Finish`es with a manifest, and is then promoted by handlers that go
through `Poll`, `PrepareFacts`, `ReadRun`, `Compare` and one of `Promote`,
`PromoteRefused`, `RecordConflict`: each read outside the transaction is a step of
its own. `Revise` is the owner, `Revoke` the operator, whose cascade is the least
set of facts closed under "stands on".

### Creation

One key. Handlers go through `Start`, `ReserveNew` or `ReserveAgain`, `Resume` (under
the lock), one `Publish` for each file, `Prepare` (all rows in one transaction) and
`Complete` (the transition and the receipt in one). Any of them may stop
(`Crash`); the owner may `Cancel` a run that has a row.

### NativeWrites

A file version is `[tag, ct]`: `tag` stands for its bytes and its stat identity but for
`ct`, the change time, which a rename or a link moves. A call goes through `LookupKnown` or
`LookupNew` (the replay table), `PrepareChanges` or `PreparePatch`, waits for the commit
lock, and then its transaction `tx` does what `NativeTransaction.commit` does, one
system call at a time: `Acquire`, `Stage`, and for each file `CheckItem`, `BackUp`,
`Install`, `Confirm`; `FinalCheck`; on failure `Undo`, `RemoveInstalled`, `Restore`;
`Cleanup`, `Release`; and `Settle` in the table. `ExternalWrite` and `ExternalBackupWrite` are
other programs, `Restart` loses the table and the calls, and each system call may fail.
`lost` and `window` are history: what a transaction removed without knowing it, and what was
written between the last check of a name and its removal, which no program could close.

### NativeText

Pure algorithms with a behaviour around them. `RequestPage` and `TakeLine` page through a
file that others rewrite, by bytes and lines, never splitting a character; `Edit` applies a
list of line edits; `Patch` places and applies hunks (exact, then ignoring
trailing blanks, then any outer blanks). What the result must be is said without the splicing
from the last place to the first: the places are apart and in order, the new lines stand where
the reported ranges say (`RangesHold`), and between two ranges stands what was between the two
places, line for line (`RestHolds`). For edits, the places are those of the edits that change
something, each once. The sort of the edits and the recursions over places and hunks are written
as functions, so that they can be reasoned about.

Line ends are part of the model. A file to edit is a byte order mark or none and raw lines: a
text, the carriage returns behind it, and whether a line feed ends it (`_lf_lines` splits at line
feeds only); `EditLines` compares lines without their ends (`Contents`), gives new lines the end
of the first line (`NewEnd`), and then completes or strips ends (`Finished`). A file to patch
is lines with an end each, LF, CRLF, CR or none; `ApplyUpdate` forgets the ends and puts one kind
back (`Reended`). `EditedFile` and `PatchedFile` say what this last part does to the lines as
they were placed, which is less than "nothing":

- an edit leaves the end of every line that has one and is not the last. A file whose last line
  had no end gets none there, unless the last line is empty and has the end that new lines get;
  an empty last line with another end is lost. Deleting line 3 of `a\r\n\nb` gives `a\r\n`,
  without the empty line 2 (`native_changes.py:701`);
- a patch rewrites every end to LF, or to CRLF if the file had one anywhere
  (`native_patch.py:237`), and loses an empty last line if the file's last line had no end:
  removing `b` from `a\n\nb` gives `a\n` (`native_patch.py:234`). The reported range may then
  name a line that is not there.

`docs/MTM_MIGRATION.md:97` calls "untouched endings" byte-exact and leaves the end of a file to
the fixtures; the models state what the code does.

### Export

Every poll of a run that is done (`PollExport`) has the final text written to the run's path:
`Look` whether there is a file, `CompareFile` by its hash with the proof, `LookAgain` before asking
for a transaction, `Prepare` (what it captures must be what was looked for), then under the
commit lock `Commit`, `LinkFile`, `Confirm`. `ExportTo` is a caller's own export, which enters at
`LookAgain` and may name the hash of a file to write over. `UserWrites`, `Fails` and `Restart`
come between any two of these. Of `NativeWrites` it keeps what is seen at the path: a file moved
aside and not yet replaced, and a rollback that finds another file and leaves it. Directories
are left out: an export may be refused also because another creates the directory of its path.
Two polls that deliver at once are not both confirmed: the slower one may find a file where it
was to add one, and its answer asks for attention although the proof is there; the next poll
confirms it.

### Commands and CommandOutput

`active` and `retained` are the manager's tables, `cmd` its record of each command, `proc`
what the operating system knows, `dog` the watchdogs. A request thread gives up its locks
between its steps: `PruneRefresh`, `PruneMove`, `PruneExpire` precede every request;
`Admit`, `SetUp` or `Abandon` start; `Lookup`, `Observe`, `Format`, `KillSend`, `KillWait` and
`Forget` are polling and killing; `CloseMark` and `CloseSignal` close the manager;
`WatchdogLate` and `WatchdogEnd` are the watchdog. A process ends when it likes, and
must when it was sent KILL. `refresh_status` is one step, since what it does under one
lock and under the next is idempotent.

`CommandOutput` names a byte by its position. `AppendChunk` fills the head, then rolls the tail;
`Snapshot` is a poll with its cursor, `ReadPage` the paging of `read_output`.

### Access and Gateway

`Access`: `Register`, `Authorize`; an exchange is `Present` (checks before the code is
touched), `Consume` (the transaction that reads and deletes it), `Issue` (checks of what was
taken); `Accept` is the check of a token on a call; `Tick` and `RestartServer` go on around it.
Resources are `<<base, form>>`, since the code compares three forms of them.

`Gateway`: `Receive`, `CheckRequest`, `Dispatch` take one POST through every check in the code's
order, in both eras; what a check tells apart is a field of the request. `HandleError` is the
status of a `ReCTMError` by its category. The answer these decide on is not yet sent: `Send`
encodes it (`_send_json`), which fails if the id or what an error quotes holds half of a surrogate
pair (JSON can spell one, UTF-8 cannot), or the result of a tool does (a file name); the
connection may be gone as well. `BreakDown` is an exception nobody expects, before the tool, inside
`ToolRuntime.call` before its handler, or after it. All of these end in `Unhandled`: HTTP 500, or
no answer, since the event that `do_POST` records first may fail too, whatever the comment there
says ("HTTP boundary must always answer"). So HTTP 500 and a closed connection tell nothing of
whether a tool ran, and `RefusedMeansNotRun` claims nothing of them.

## Model checking

| Run | Shows |
|---|---|
| `submission` | Two handlers, two capabilities, three request bodies, interruption at every step: a submission's writes take effect once (`EffectOnce`, `ProductOnce`), the receipt counts them exactly, a transition happens exactly if the receipt says so, no effect crosses an epoch, a settled submission is final, and the protocol implements the ledger (`LedgerSpec`). |
| `settling` | What must end does: an interrupted submission is settled by later requests (`PendingSettles`), except in two named windows (below); a repeated creation gives its run, unless it was cancelled before it started (`CreationSettles`), and that run is one and whole (`CreationIsSound`); a command that ignores its deadline is killed (`EveryCommandEnds`). |
| `run_races` | Two racing handlers, from `assemble` (compact and full) and from `branch_prepare`: the published proof is the verified one and its references were audited (`FinalIsSound`), phases follow the table. One round of a protocol-3 run: the advice is true of the records and leaves no open work out of sight (`AdviceIsSound`), what was refuted stays refuted. |
| `run_live` | A whole run from `assess` with one handler at a time and a round of branches: the gate and the join's barrier hold (`GateAndJoinHold`), solved branches are used, mechanical phases end, and polling always leads to usable work, although handlers are interrupted. |
| `registry` | Two handlers promote two runs of a claim while its owner revises it, facts are revoked and a hypothesis enters: no duplicate revision, none overrun, nothing in force on revoked ground, no conditional result called verified. Two handlers deliver the proofs of two runs that were given the same path, among users who write and delete files there, failing system calls and restarts: no file is written over but the one whose hash the caller named, and no delivery is reported that did not happen (`ExportsAreSafe`); a poll that is not disturbed delivers, whatever was left behind before it, unless another text stands there (`PollDelivers`). |
| `registry_live` | Two runs with the same proof: polling decides the promotion of each, unless its ground was revoked. |
| `resources` | Three tool calls change two files while other programs write them, system calls fail and the server restarts: nothing of others is lost and a failure is undone or preserves what it moved (`FilesAreSafe`), a keyed write is not repeated, a replayed answer is evidence. Pages, edits and patches of small texts with every kind of line end do what they should (`PagesAreTheFile`, `TextIsExact`). Branches and verifier learn only what they may (`BarriersHold`). |
| `server` | Two request threads, watchdogs and a closing manager race over two commands: what runs is reachable, an end is recorded once and for good. A stream larger than its buffers is polled and paged: every byte is accounted for. Two exchanges race for a code: one token, valid where it was authorised. Every combination of a request's parts, with failures on the way: an error or a refusal other than HTTP 500 means that nothing ran (`RefusedMeansNotRun`). |
| `run_gate_race`, `run_branch_race`, `registry_race`, `history_replan` | Counterexamples, see Findings. |

### Bounds

- `submission`: two capabilities, because the hazards are between a submission and
  one other (a replay, a successor, a rival); two writes, so that there is an
  accepted, a current and a later one; `MaxEpoch = 1`, so that a capability can be of
  a past epoch; recovery needs no bound.
- `settling`: one capability and the two kinds of write that leave different evidence; for a
  creation three handlers (one dead, one late, one that finishes), two requests under one key,
  two run identities, and two files, so that there is an interruption between them; for
  commands one id, two threads and two requests, a start and whatever races it.
- `run_races`, `run_live`: `MaxEpoch`, `MaxRounds`, `MaxDomains` cap the counters in the
  guards. Eight epochs from `assemble` allow two rejections, the escalation and a second
  assembly; ten from `assess` allow a whole round of branches, a failed join with the way to
  the next plan, or a join and the way to `done`. Two branches are enough for "one sealed,
  one not". A race needs two handlers. `Starts` lets a behaviour begin in a later phase in
  which none of the state it reads exists yet, instead of exploring the way there with racing
  handlers.
- `Research`: two plans, a chain of three goals beside a single goal, and a cyclic proposal to
  be refused; screenings that cover all or part; one record of the generator's own. One round
  of plans shows the advice, two show the replanning (`history_replan`).
- `registry`: three revisions of a claim are its base, one of a rival and one
  promoted; two runs, so that one depends on the other or competes with it.
- `registry`, deliveries: two runs with one path, so that each is a stranger to the other; two
  handlers; `MaxEvents = 2`, a disturbance and a failure of the rollback it causes.
- `resources`, writes: three calls in order over two files (one may be a repetition of
  another), so that one can fill the table, one meet it full, one repeat; `Capacity = 1`;
  `MaxEvents = 4` calls, external writes, failing system calls and restarts together: a call, a
  failure, a failure of the rollback and a disturbance by another program. Text: files of up to
  five bytes with characters of one to three, pages of one to four bytes and one or two lines,
  one rewriting; up to four lines, three edits, two hunks with and without anchor and end mark.
  Lines end in LF, CRLF or nothing, and in mixed files in CR as well, with and without a byte
  order mark and with empty last lines; `Words` are the texts a line may have, of which `NoWord`
  is the empty one.
  Barriers: two branches, one round; the theorem says the same of any number.
- `server`: two commands with `MaxActive = 1` and `MaxRetained = 1`, so that both limits are
  met; two request threads and three requests. A head of two bytes, a tail of three, nine
  bytes in all, so that the gap opens and moves. Two clients, one authorisation with two
  threads exchanging it, two bases, a clock of three ticks around lifetimes of one and zero.
  Every well-formed request and every tool call with one thing wrong, half a surrogate pair
  among these.

Symmetry is used only in runs without liveness, and for what the modules tell apart by equality
alone: handlers, request threads and verifiers, and in `registry`'s deliveries the two runs
together with their proofs. Components that are set side by side share these names.

Deadlock is not checked: every run holds a component that really stops (a run that
ends, a counter at its bound, a request that is answered, a submission stuck in an
ambiguous window, a registry with nothing left to promote).

### Fairness

- Submission: a handler that is not interrupted goes on (weak fairness of `Work`; it
  may still be interrupted at every attempt), and the client repeats its
  `recover_only` call until one is not interrupted, as the error it gets tells it to
  (strong fairness of `Recover`, which needs the flock).
- WorkflowRun: weak fairness of `Begin` (clients poll) and strong fairness of a
  handler's steps (`FromRow`, `GoesOn`, `Issue`): an interruption may happen any number of
  times but not at the same step for ever. Nothing is assumed of submissions: a client
  may never submit.
- ClaimRegistry and Creation: the same, for "some handler" rather than each one.
- Commands: weak fairness of a request thread's steps and of the watchdog's, which are threads
  of the server, and of the end of a process that was sent KILL, which the operating system
  sees to. Nothing is assumed of a process that was sent TERM.

## Findings

Each is a passing run's complement: the run states what the repository promises and TLC
shows how the code breaks it.

1. `run_gate_race`: `_run_latex_gate` (`workflow.py:2302`) reads the draft without
   the run's lock and reports the verdict to a transaction that compares the state
   but not the epoch. A handler that is slow enough can report a pass for a text that
   has since been replaced by a repair; that text is then verified and published
   without having passed the gate. With one handler at a time it cannot happen
   (`run_live`).
2. `run_branch_race`: `_ensure_domain` (`workflow.py:973`) marks a branch as running
   without looking again whether it is still pending. A branch that another handler
   completed meanwhile is reopened, although its domain is closed. If the other
   branches are sealed, the run is already in `branch_join`, whose reads all fail
   since not every branch is sealed; if the reopened branch was the solved one, a
   join may report failure.
3. `registry_race`: `promote_verified_run` (`storage.py:757`) compares the base outside
   its transaction and records what it found without looking again. If another poll
   promotes the run in between, its status changes from promoted to conflict.
4. `history_replan`: `_commit_failures_identified` (`workflow.py:1914`) accepts a failure that
   names nodes of the plans active then. After a replan the plans are others, and
   `normalize_research` (`research_state/normalize.py:143`) raises on every record that names
   the old ones; since it runs whenever a generator or repair task is built, no such task can be
   issued any more. In the run `Research` records of one's own are switched off: it takes no
   unusual client.

Two windows in which an interrupted submission cannot be settled and blocks the
run (`Ambiguous`): between arming the commit and enrolling its action, and a file
that is replaced by identical bytes. The code refuses on purpose (`RESULT_UNKNOWN`),
so they are not findings; `InterruptedIsRecoverable` says that there is no third.

## Proofs

`tlapm` checks these for every value of the constants, from the assumptions that the
modules name and nothing else: `ConstantAssumption` (`Submission`, `WorkflowRun`,
`ClaimRegistry`, `Creation`), `BarriersAssumption`, `ExportAssumption` (no run's proof is the
name for "no text"), `ProposalAssumption` and `ScreeningAssumption` (the shapes that the
code's schemas enforce), `OutputLimits`, `AccessAssumption`, `GatewayAssumption`,
`PagingAssumption` (files are UTF-8, limits are positive), `EditAssumption` (no edit ends before
it starts, which `edit_lines` checks; what splitting a text at line feeds yields),
`PatchAssumption` (the shape of a parsed hunk and of a file split into lines), those on names and capacities in
`Commands`, and those in `NativeWrites`: a transaction lists each of its paths once, calls are
distinct and none is named like a version of a file that no call wrote.

`Submission_proofs`: `TypeCorrect`, `Fenced` (one pending submission, of the current
epoch), `CountExact`, `AtMostOnce`, `AppliedIsMoved`, `Recoverable`, `Final`.
None of these is inductive: that a write is not repeated after a recovery depends
on what the journal and the file show at that moment, and on no other handler being
able to write meanwhile. `IndInv` (in `Submission`) adds what a handler at each step
owns (`Owns`: the flock and the only open receipt), what evidence exists at
each step (`Evidence`), and what journal, checkpoint and file say of the writes of
an open receipt (`OpenEvidence`, `OpenProgress`). The proof has one lemma for each
action and part of the invariant; `Final` follows from the invariant for each step.
`InstalledOnce` is about products, whose evidence outlives the receipt that installed
them: `ProductInv` says that evidence is of the past or of this epoch and one for each
payload (`EvidenceKept`), that what was installed in this epoch is described by it and the
file has not gone back (`InstallKept`), and what the handler under the lock knows of it
(`Tracks`). `EffectsInTheirEpoch`: a handler that writes holds the lock for an open receipt,
and that is one of the current epoch. `Refinement`: every step of the protocol maps to a step of `SubmissionLedger` or
to a stutter. A receipt that opens is `Open`, a write that takes effect is `Write`, and the one
update of the receipt that ends a submission, whether a commit or a recovery makes it,
is `Move` or `Settle`; locks, journal, evidence, checkpoints and interruptions are nothing the
ledger sees.

`Engine_proofs`, for a run: `RunIsSound` (what a run publishes is the verified text, with its
references audited) and `TableHolds`. A handler publishes a copy it made earlier, so the
invariant (`RunInv`) says when nothing can change any more what was copied: a clean report is
about the present draft and on record in no phase where the draft may change
(`ReportIsCurrent`); a prepared plan fixes both until it is committed or settled
(`PlanIsCurrent`); a handler that has copied did so when the run was past submissions
(`HandlersCurrent`). That transitions follow the table is proved per phase, since submissions
never consult it. Nothing is assumed of the number of handlers: the races of findings 1 and 2
do not touch these two. `GatedAndJoined` and `SolvedIsUsed` assume that there is one
(`OneHandler`, as in `run_live`), because with two both are false, as `run_gate_race` and
`run_branch_race` show. `GateInv` says that the verdict on record is about the
present draft; `JoinInv` that branches and domains belong to each other one to one, that a
branch is worked on only in its own phase and by the capabilities of a branch that runs,
and that a sealed branch stays sealed until the round is over.

`Engine_proofs`, for research: `AdviceFollows`, `RefutedStays`. Both follow from little about
the history (`ResearchInv`: what was proposed is acceptable, what was screened is a finding, a
counterexample names one node) and more about graphs. `ReachIs`: what is reached in as many
steps as there are nodes is the least set that holds the start and all that its members need,
for a step that adds nothing is the last to do so and every other adds a node. A closed set
without a refuted node has no tainted one (`TaintedIs`). Since goals can be ranked, some claims
of a plan have a first, which rests on none of them, and a last (`EndsExist`): the first that is
not solved can be acted on, and what the critical claims rest on is what the last of them rest
on (`RouteIs`).

`Boundaries_proofs`: `BarriersStand`, for any number of branches and rounds. Information travels
through stores that outlive a round, so the invariant says that no label of a later round
exists anywhere (`NothingAhead`), that the snapshot is older than the round
(`SnapshotIsOlder`), that memories, knowledge and retrievals in flight hold no other branch's
label of this round, and that what the verifier can reach is closed under its own labels
(`VerifierClosed`). `ExportsSafe` and `PollsDeliver`: a delivery looks at its path up to five
times and users write there in between. `ExportInv` says for each step of a call what it still
knows (`Follows`): what the path holds is among what the call has seen, and if nobody else
was there since, it is as the call left it.

`Native_proofs`: `EvidenceIsReal`, `NeverRepeated`, whatever the capacity and whatever
happens to the files. A keyed write that is under way owns a pending entry with its arguments
(`EntryIsOwn`); an entry of unknown outcome is never dropped, because room is made by
dropping complete ones only (`UnknownStays`); a complete entry was made by a call that has
answered (`CompleteIsDone`), and an answered call never changes. `NothingIsLost`, for any number
of files and whatever other programs write: `FilesInv` says that a transaction's own content is
only where it has been and never in a backup, that what was renamed away is in the backup or
back in its place (`SavedIsKept`), that files are done in order and undone in reverse
(`ForwardInOrder`, `UndoneInOrder`), and that what is about to be removed is the transaction's own
or was written after the last look (`RemovalsKnown`). `PagesJoin`, for files of any size: a
reading stands before a byte of a line, at the start of a character, and has read all before it,
or is behind the last line (`Reached`). That line i of a file exists and where it begins is
an induction on a set of numbers, by its least member: the library's induction theorems take an
operator as a parameter, which the provers cannot instantiate. `TextsAreExact`, for texts, edits
and hunks of any number: a recursive function over a list exists by the same induction
(`FoldExists`), so what it yields can be said step by step. A hunk is placed at or after the
cursor and leaves it behind its place (`HunkFits`), so places are in order; the edits of a call
have distinct ranks in their order, so sorting loses none (`OrderedIs`), and because neighbours
do not overlap no two do (`ApartInOrder`). The text after all places but the first m (`Laid`) has
the original before the next place, and behind it each new text and each kept line moved by what
the later places added less what they removed; one more splice in front moves all of that alike
(`LaidStep`), and the ranges count the same moves from the other end (`RangesAre`). What becomes of
the lines so placed when they are finished and split again is one case for each end a last line
can have (`FileIsMade`, `FileIsPatched`).

`Commands_proofs`: `EndsStand` (a recorded end stays), `EndReportedOnce`, `SpokenOfOnce`. Only a
process that is gone is recorded as ended (`EndIsExit`), and an id is spawned by the one start
that was given it (`IdIsOwn`), so a process that is gone stays gone; a report says what is
recorded (`ReportsRecorded`). `RunningIsListed`, for any number of threads: the refreshing and
moving of a request go through the tables with the locks given up in between, so `ThreadsKnow`
says that a thread which will take a command out of the table of active ones has seen it end
or has doomed it, and both are for good. What leaving an element out of a table does
(`WithoutIsRest`) is again by induction on a set of numbers.

`Server_proofs`: `Accounted`, `AnswersTell`, `SpentOnce`, `UnderGrant`. The head is full before
anything is dropped, and what paging skipped lies between head and tail (`OutputInv`). Nothing
has run before the dispatch, what is decided then tells whether the tool ran (`Tells`), what came
past the headers agrees with them (`Named`), and sending can only turn an answer into one that
tells nothing (`GatewayInv`). A
code that is in the store or taken is unspent, and a token carries its grant's client and a
resource that fits its base in one form or another (`AccessInv`).

`Creation_proofs`: `TypeCorrect`, `OneRun`, `Started`, `CreationSound`. The invariant says that
everything durable belongs to the run and request of the receipt (`Bound`), that the
steps under the lock are the lock's holder's while the receipt is pending
(`Held`), and that the steps of an attempt are taken in their order (`Progress`).

`ClaimRegistry_proofs`: `TypeCorrect`, `Newest`, `PromotionSound`, `FactsHeld`,
`Unconditional`: every invariant of the `registry` run but the exports'. A handler decides on what
it read in earlier transactions, so the invariant must say what of that can still be
relied on when it commits: it promotes only a run that is done, and one that is not done has
no revision (`Promoting`); numbers have no gaps, so that the active revision is the last
and the next number is free (`Numbered`); the revisions a run builds on are proved and have
handed on their conditions (`Grounded`). Everything else `Promote` looks at again. The set of
dependents of a revoked fact is closed because it is the intersection of all closed sets
that hold the fact, which is what `RevokeStep` rests on.

Type invariants are proved with these, and are not checked again by a run.

Only model-checked:

- liveness (`PendingSettles`, `CreationSettles`, `EveryCommandEnds`, `MechanicalAdvances`,
  `TaskAvailable`, `PromotionSettles`), which the prover does not reach;
- that the searches of `GoalGraph` find what `Research` says: recursive operators;
- `OutcomeIsFinal` of the registry and `HistoryStaysReadable` of research, which do not hold
  (Findings).

## Not modelled, and why

- Token encoding, payload schemas, file layout, wording: data that no modelled guard
  depends on, or one verdict that the models leave open.
- LaTeX scanning and compilation, searches, sandboxed helpers, git, research search: I/O; the
  models use their verdict only.
- Several runs in `Submission`, `WorkflowRun`: runs share no rows or files except
  through the registry, which has its own module.
- Steering as messages: a label in `Barriers`; read by no guard of a phase.
- Project and claim creation, manifests as documents, ranking of project memory: `ClaimRegistry`
  takes claims as given.
- The syntax of a patch, directory creation and path checks of the native tools. In the
  transaction a failing rename, link or write is a step; that the look at a file right after its
  backup fails (`native_changes.py:448`), or a read while a change is prepared, is not, and the
  link and the unlink of a restoration are one step.
- That another request comes between the two locked steps of a refresh before a prune
  (`Commands.PruneRefresh`): what each does is idempotent.
- Input to a command's stdin, previews and summaries; sizes, TLS, CORS and rate limits of the
  server.
- Quick tunnel: supervises one external process and prints its address. Configuration, CLI,
  diagnostics, terminal UI and migrations: start-up and presentation.

## Plan

Done: every component above whose state more than one actor changes, and a theorem for
every safety property that a passing run checks. Left, in order:

1. Screening: the merge of partial work in `Submission`'s `CommitPartial`.
2. Project and claim creation beside `ClaimRegistry`.
