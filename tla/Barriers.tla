------------------------------ MODULE Barriers ------------------------------
(***************************************************************************)
(* What each role of a run can come to know: the permissions a task's      *)
(* capability carries, the data firewall behind them, the logical          *)
(* resources the roles read and write, and the context a task is issued    *)
(* with (capabilities.py, WorkflowEngine.read, search, retrieve, write).   *)
(*                                                                         *)
(* Information is a set of labels: the branch it comes from, the verifier, *)
(* or "private" for the other roles and the steering.  A domain knows its  *)
(* own label and those of all it has read; what it writes carries all it   *)
(* knows.  What is written into the proof and its manifest is published on *)
(* purpose: it is the label "proof" and nothing more.  The problem, the    *)
(* references and the sources a retrieval finds come from outside the run  *)
(* and carry no label; the query of a retrieval does.                      *)
(***************************************************************************)
EXTENDS Naturals, FiniteSets

CONSTANTS BranchNumbers,    \* the branches of a round, run in this order: 1..n
          BarrierRounds \* bound: rounds of branches

ASSUME BarriersAssumption ==
  /\ 1 \in BranchNumbers /\ BranchNumbers \subseteq Nat
  /\ BarrierRounds \in Nat

VARIABLES baPhase,      \* the role whose turn it is, or gate, done
          baRound,      \* round_index
          baBranch,     \* the branch whose domain is open, in phase "branch"
          baOpen,       \* a task was issued: its domain is open
          baKnows,      \* labels the open domain has learnt
          baStores,     \* the resources all branches share -> labels
          baMemory,     \* the memory of each branch of this round -> labels
          baResults,    \* its sealed result -> labels; {} before it is sealed
          baFlight      \* a retrieval that was authorized and has not answered

barrierVars == <<baPhase, baRound, baBranch, baOpen, baKnows, baStores,
                 baMemory, baResults, baFlight>>
branchStores == <<baMemory, baResults>>

Roles == {"generator", "branch", "join", "assembler", "verifier", "repair"}
Label(name) == <<name, 0, 0>>
BranchLabel(round, branch) == <<"branch", round, branch>>
Own == IF baPhase = "branch" THEN BranchLabel(baRound, baBranch)
       ELSE Label(IF baPhase = "verifier" THEN "verifier" ELSE "private")
Shared == {"memory:generation", "memory:generation:events", "memory:verifier", "snapshot",
           "join_result", "proof", "verification_report"}
Nothing(names) == [n \in names |-> {}]

----------------------------------------------------------------------------
(* default_permissions and authorize_role_resource.  "branch:other" is a   *)
(* branch named by its identifier.                                         *)
GenerationMemory == {"memory:generation", "memory:generation:events"}
Resources == Shared \cup {"memory:branch", "branch:self", "branch:other", "branch:sealed",
                          "steering"}
ReadableBy ==
  [generator |-> GenerationMemory \cup {"steering"},
   branch    |-> {"snapshot", "branch:self", "memory:branch"},
   join      |-> {"snapshot", "branch:sealed"},
   assembler |-> GenerationMemory \cup {"join_result"},
   verifier  |-> {"proof", "memory:verifier"},
   repair    |-> GenerationMemory \cup {"proof", "verification_report"}]
WritableBy ==
  [generator |-> GenerationMemory,
   branch    |-> {"branch:self", "memory:branch"},
   join      |-> GenerationMemory \cup {"join_result"},
   assembler |-> {"proof"},
   verifier  |-> {"memory:verifier", "verification_report"},
   repair    |-> GenerationMemory \cup {"proof"}]
Searchable(role) == IF role = "generator" THEN GenerationMemory
                    ELSE IF role = "branch" THEN {"memory:branch"} ELSE {}
MayRetrieve == {"generator", "branch", "verifier", "repair"}

Firewall(role, resource) ==
  /\ role = "verifier" => resource \notin
       GenerationMemory \cup {"branch:self", "branch:other", "branch:sealed", "steering",
                              "join_result", "snapshot"}
  /\ role = "branch" => resource \notin {"branch:other", "branch:sealed"}
  /\ resource = "branch:sealed" => role = "join"

MayRead(resource) == /\ baOpen /\ baPhase \in Roles
                     /\ resource \in ReadableBy[baPhase] /\ Firewall(baPhase, resource)
MayWrite(resource) == /\ baOpen /\ baPhase \in Roles
                      /\ resource \in WritableBy[baPhase] /\ Firewall(baPhase, resource)

----------------------------------------------------------------------------
BarriersInit ==
  /\ baPhase = "generator" /\ baRound = 0 /\ baBranch = 0 /\ baOpen = FALSE /\ baKnows = {}
  /\ baStores = Nothing(Shared)
  /\ baMemory = Nothing(BranchNumbers) /\ baResults = Nothing(BranchNumbers)
  /\ baFlight = {}

AllSealed == \A b \in BranchNumbers : baResults[b] /= {}
Sealed == IF AllSealed THEN UNION {baResults[b] : b \in BranchNumbers} ELSE {}

\* The broad research view and the steering, which may come at any time and
\* carries the label of the private roles, are for generator and repair only.
Context(role) ==
  IF role \in {"generator", "repair"}
  THEN baStores["memory:generation"] \cup baStores["memory:generation:events"]
       \cup baStores["join_result"] \cup Sealed
       \cup {Label("private")}
  ELSE {}

\* next_task: a fresh domain for the phase, or the next branch's own.
IssueRoleTask ==
  /\ ~baOpen /\ baPhase \in Roles
  /\ baOpen' = TRUE
  /\ baKnows' = {Own} \cup Context(baPhase)
  /\ UNCHANGED <<branchStores, baPhase, baRound, baBranch, baStores, baFlight>>

\* The memory a branch names is resolved from its domain, whatever it asked for.
\* (A wrong variant: the branch the caller named is taken.)
AnyMemory(domain) == BranchNumbers
OwnMemory(domain) == {domain}

\* _read_resource, and search over the memories.
ContentOf(resource) ==
  IF resource = "memory:branch" THEN UNION {baMemory[b] : b \in OwnMemory(baBranch)}
  ELSE IF resource = "branch:sealed" THEN Sealed
  ELSE IF \/ resource \in {"steering", "branch:self"}
          \/ resource = "snapshot" /\ baPhase = "join"   \* its domain names no snapshot
       THEN {} ELSE baStores[resource]

Read(resource) ==
  /\ MayRead(resource)
  /\ resource = "branch:sealed" => AllSealed
  /\ baKnows' = baKnows \cup ContentOf(resource)
  /\ UNCHANGED <<branchStores, baPhase, baRound, baBranch, baOpen, baStores, baFlight>>

\* The memories a role may search; what is found is part of what is there.
Search(resource) ==
  /\ baOpen /\ baPhase \in Roles /\ resource \in Searchable(baPhase)
  /\ baKnows' = baKnows \cup ContentOf(resource)
  /\ UNCHANGED <<branchStores, baPhase, baRound, baBranch, baOpen, baStores, baFlight>>

\* Memories grow; a document is replaced.
Document(store, labels) == IF store = "proof" THEN {Label("proof")} ELSE labels
Put(store, labels) ==
  [baStores EXCEPT ![store] = IF store \in {"proof", "join_result", "verification_report"}
                              THEN Document(store, labels) ELSE @ \cup labels]

StoreIn(place, labels) ==
  IF "branch" \in DOMAIN place
  THEN /\ baMemory' = [baMemory EXCEPT ![place.branch] = @ \cup labels]
       /\ UNCHANGED baStores
  ELSE baStores' = Put(place.shared, labels) /\ UNCHANGED baMemory

\* branch:self is refused by _write_resource, a result is written by the commit.
Destination(resource) ==
  IF resource = "memory:branch" THEN [branch |-> baBranch] ELSE [shared |-> resource]
Write(resource) ==
  /\ MayWrite(resource) /\ resource /= "branch:self"
  /\ StoreIn(Destination(resource), baKnows)
  /\ UNCHANGED <<baPhase, baRound, baBranch, baOpen, baKnows, baResults, baFlight>>

\* retrieve: authorized now, recorded when the search has answered, wherever
\* the run is by then.  The record holds the query.
BeginRetrieve ==
  /\ baOpen /\ baPhase \in MayRetrieve /\ baFlight = {}
  /\ baFlight' = {[role |-> baPhase, branch |-> baBranch, labels |-> baKnows]}
  /\ UNCHANGED <<branchStores, baPhase, baRound, baBranch, baOpen, baKnows, baStores>>
RecordedIn(flight) ==
  IF flight.role = "branch" THEN [branch |-> flight.branch]
  ELSE [shared |-> IF flight.role = "verifier" THEN "memory:verifier" ELSE "memory:generation:events"]
EndRetrieve ==
  \E flight \in baFlight :
    /\ StoreIn(RecordedIn(flight), flight.labels)
    /\ baFlight' = {}
    /\ UNCHANGED <<baPhase, baRound, baBranch, baOpen, baKnows, baResults>>

----------------------------------------------------------------------------
(* The commits: what the next phase is, and what is published on the way.  *)
Close(phase) == baPhase' = phase /\ baOpen' = FALSE /\ baKnows' = {}

\* direct_proving_complete with a solved plan: its route is the join result.
CommitRoute ==
  /\ baOpen /\ baPhase = "generator" /\ Close("assembler")
  /\ baStores' = Put("join_result", baKnows)
  /\ UNCHANGED <<branchStores, baRound, baBranch, baFlight>>

\* ... or without: the round's snapshot is frozen, all memory but the events.
Frozen == baStores["memory:generation"]
PrepareBranches ==
  /\ baOpen /\ baPhase = "generator" /\ baRound < BarrierRounds /\ Close("branch")
  /\ baRound' = baRound + 1 /\ baBranch' = 1
  /\ baStores' = [baStores EXCEPT !["snapshot"] = Frozen]
  /\ baMemory' = Nothing(BranchNumbers) /\ baResults' = Nothing(BranchNumbers)
  \* The memories of the new branches are new: no earlier retrieval ends in them.
  /\ baFlight' = {f \in baFlight : f.role /= "branch"}

\* branch_complete: the result and its mention in branch_states.
WithSealed(branch, labels) == [baResults EXCEPT ![branch] = labels]
CommitBranch ==
  /\ baOpen /\ baPhase = "branch"
  /\ baStores' = Put("memory:generation", baKnows)
  /\ baResults' = WithSealed(baBranch, baKnows)
  /\ IF baBranch + 1 \in BranchNumbers
     THEN Close("branch") /\ baBranch' = baBranch + 1
     ELSE Close("join") /\ baBranch' = 0
  /\ UNCHANGED <<baRound, baMemory, baFlight>>

CommitJoin ==
  /\ baOpen /\ baPhase = "join" /\ AllSealed
  /\ \E phase \in {"assembler", "generator"} : Close(phase)
  /\ baStores' = [Put("join_result", baKnows) EXCEPT !["memory:generation"] = @ \cup baKnows]
  /\ UNCHANGED <<branchStores, baRound, baBranch, baFlight>>

\* proof_submitted and repair_submitted: the proof has been written before.
SubmitProof ==
  /\ baOpen /\ baPhase \in {"assembler", "repair"} /\ baStores["proof"] /= {}
  /\ Close("gate")
  /\ UNCHANGED <<branchStores, baRound, baBranch, baStores, baFlight>>

Gate ==
  /\ baPhase = "gate" /\ \E phase \in {"verifier", "repair"} : Close(phase)
  /\ UNCHANGED <<branchStores, baRound, baBranch, baStores, baFlight>>

\* verification_complete: the verdict is computed from the verifier's report.
CommitVerification ==
  /\ baOpen /\ baPhase = "verifier" /\ baStores["verification_report"] /= {}
  /\ \E phase \in {"done", "repair"} : Close(phase)
  /\ UNCHANGED <<branchStores, baRound, baBranch, baStores, baFlight>>

BarriersNext ==
  \/ IssueRoleTask
  \/ \E resource \in GenerationMemory \cup {"memory:branch"} : Search(resource)
  \/ \E resource \in Resources : Read(resource)
  \/ \E resource \in Resources : Write(resource)
  \/ BeginRetrieve \/ EndRetrieve
  \/ CommitRoute \/ PrepareBranches \/ CommitBranch \/ CommitJoin
  \/ SubmitProof \/ Gate \/ CommitVerification

BarriersSpec == BarriersInit /\ [][BarriersNext]_barrierVars

----------------------------------------------------------------------------
\* The information barrier: nothing a branch found reaches another branch of
\* its round before the join, through any memory, snapshot, context or
\* retrieval ("Other branch results are unavailable until join").
BranchesApart ==
  baPhase = "branch" => baKnows \cap {BranchLabel(baRound, b) : b \in BranchNumbers \ {baBranch}} = {}

\* The verifier judges the proof alone: neither it nor its report ever holds
\* generation memory, a branch, a join result or steering, whatever the other
\* roles wrote and whenever ("data_firewall").
VerifierIsBlind ==
  LET allowed == {Label("verifier"), Label("proof")}
  IN /\ baPhase = "verifier" => baKnows \subseteq allowed
     /\ baStores["verification_report"] \cup baStores["memory:verifier"] \subseteq allowed

\* Both barriers (authorize_role_resource, _read_resource, _task_context).
BarriersHold == BranchesApart /\ VerifierIsBlind

=============================================================================
