-------------------------- MODULE Boundaries_proofs --------------------------
(***************************************************************************)
(* What passes the system's boundaries: information between the roles of a *)
(* run (Barriers), and the proof into a workspace that users own (Export). *)
(*                                                                         *)
(* The information barriers hold for any number of branches and rounds.    *)
(* What a branch learns is invariant in two ways: no label of a later      *)
(* round exists anywhere, so a snapshot frozen before a round holds none   *)
(* of it; and the memory, the retrievals and the knowledge of a branch     *)
(* hold no label of another branch of this round.  The verifier reads and  *)
(* writes only what carries its own label or the proof's.                  *)
(*                                                                         *)
(* A delivery looks at its path several times, and a user may write it in  *)
(* between.  The invariant says, for each step of a call, what it still    *)
(* knows: that what the path holds is among the things the call has seen,  *)
(* and how it was left if nobody else was there since.                     *)
(***************************************************************************)
EXTENDS Barriers, Export, TLAPS

VerifierLabels == {Label("verifier"), Label("proof")}

\* No label of a round still to come, none of this round's other branches.
Past(labels, round) == \A r \in Nat, b \in BranchNumbers : r > round => BranchLabel(r, b) \notin labels
Apart(labels, round, branch) ==
  \A b \in BranchNumbers : b # branch => BranchLabel(round, b) \notin labels

Phases == Roles \cup {"gate", "done"}
BarrierTypes ==
  /\ baPhase \in Phases /\ baRound \in Nat /\ (baPhase = "branch" => baBranch \in BranchNumbers)
  /\ DOMAIN baStores = Shared /\ DOMAIN baMemory = BranchNumbers /\ DOMAIN baResults = BranchNumbers

NothingAhead ==
  /\ \A s \in Shared : Past(baStores[s], baRound)
  /\ \A b \in BranchNumbers : Past(baMemory[b], baRound) /\ Past(baResults[b], baRound)
  /\ Past(baKnows, baRound) /\ \A f \in baFlight : Past(f.labels, baRound)

SnapshotIsOlder == \A b \in BranchNumbers : BranchLabel(baRound, b) \notin baStores["snapshot"]
MemoriesApart == \A b \in BranchNumbers : Apart(baMemory[b], baRound, b)
KnowledgeApart == baPhase = "branch" => Apart(baKnows, baRound, baBranch)
FlightsApart ==
  \A f \in baFlight : f.role = "branch" => f.branch \in BranchNumbers /\ Apart(f.labels, baRound, f.branch)

VerifierClosed ==
  /\ baPhase = "verifier" => baKnows \subseteq VerifierLabels
  /\ baStores["proof"] \cup baStores["verification_report"] \cup baStores["memory:verifier"]
       \subseteq VerifierLabels
  /\ \A f \in baFlight : f.role = "verifier" => f.labels \subseteq VerifierLabels

BarrierInv ==
  /\ BarrierTypes /\ NothingAhead /\ SnapshotIsOlder
  /\ MemoriesApart /\ KnowledgeApart /\ FlightsApart /\ VerifierClosed

----------------------------------------------------------------------------
(* Labels and sets of labels.                                              *)

LEMMA BranchesDiffer ==
  \A r, q, b, c : BranchLabel(r, b) = BranchLabel(q, c) => r = q /\ b = c
  BY DEF BranchLabel

LEMMA NamesDiffer ==
  \A r, b : \A name \in {"private", "verifier", "proof"} : BranchLabel(r, b) # Label(name)
  BY DEF BranchLabel, Label

LEMMA PastMany ==
  ASSUME NEW round, NEW s, NEW t, Past(s, round), Past(t, round)
  PROVE  Past(s \cup t, round) /\ Past({}, round)
  BY DEF Past

LEMMA ApartMany ==
  ASSUME NEW round, NEW b, NEW s, NEW t, Apart(s, round, b), Apart(t, round, b)
  PROVE  Apart(s \cup t, round, b) /\ Apart({}, round, b)
  BY DEF Apart

LEMMA OwnLabel ==
  ASSUME BarrierTypes
  PROVE  /\ Past({Own}, baRound)
         /\ baPhase = "branch" => Apart({Own}, baRound, baBranch)
         /\ baPhase = "verifier" => {Own} \subseteq VerifierLabels
         /\ Past({Label("private")}, baRound) /\ Past({Label("proof")}, baRound)
<1>1. baRound \in Nat /\ BranchNumbers \subseteq Nat
  BY BarriersAssumption DEF BarrierTypes
<1>2. CASE baPhase = "branch"
  BY <1>1, <1>2, BranchesDiffer, NamesDiffer DEF Own, Past, Apart
<1>3. CASE baPhase # "branch"
  BY <1>1, <1>3, NamesDiffer DEF Own, Past, Apart, VerifierLabels
<1> QED BY <1>2, <1>3

LEMMA SealedPast ==
  ASSUME BarrierTypes, NothingAhead
  PROVE  Past(Sealed, baRound)
  BY DEF BarrierTypes, NothingAhead, Sealed, Past

\* What the open role may read tells it no more than its barrier allows.
LEMMA ContentKeeps ==
  ASSUME BarrierInv, NEW resource \in Resources, baPhase \in Roles,
         resource \in ReadableBy[baPhase] \/ resource \in Searchable(baPhase)
  PROVE  /\ Past(ContentOf(resource), baRound)
         /\ baPhase = "branch" => Apart(ContentOf(resource), baRound, baBranch)
         /\ baPhase = "verifier" => ContentOf(resource) \subseteq VerifierLabels
<1> USE DEF BarrierInv
<1>1. CASE baPhase = "branch"
  <2>1. resource \in {"snapshot", "branch:self", "memory:branch"}
    BY <1>1 DEF ReadableBy, Searchable
  <2>2. baBranch \in BranchNumbers
    BY <1>1 DEF BarrierTypes
  <2>3. CASE resource = "memory:branch"
    <3>1. ContentOf(resource) = baMemory[baBranch]
      BY <2>3 DEF ContentOf, OwnMemory
    <3> QED BY <1>1, <2>2, <3>1 DEF NothingAhead, MemoriesApart
  <2>4. CASE resource = "branch:self"
    BY <1>1, <2>4, PastMany DEF ContentOf, Past, Apart
  <2>5. CASE resource = "snapshot"
    <3>1. ContentOf(resource) = baStores["snapshot"]
      BY <1>1, <2>5 DEF ContentOf
    <3> QED BY <1>1, <3>1 DEF NothingAhead, SnapshotIsOlder, Apart, Shared
  <2> QED BY <2>1, <2>3, <2>4, <2>5
<1>2. CASE baPhase = "verifier"
  <2>1. resource \in {"proof", "memory:verifier"}
    BY <1>2 DEF ReadableBy, Searchable
  <2>2. ContentOf(resource) = baStores[resource]
    BY <2>1 DEF ContentOf
  <2> QED BY <1>2, <2>1, <2>2 DEF NothingAhead, VerifierClosed, Shared
<1>3. CASE baPhase \in {"generator", "join", "assembler", "repair"}
  <2>1. resource \in Shared \cup {"branch:sealed", "steering"}
    BY <1>3 DEF ReadableBy, Searchable, GenerationMemory, Shared
  <2>2. ContentOf(resource) \in {{}, Sealed, baStores[resource]}
    BY <2>1 DEF ContentOf, Shared
  <2>3. ContentOf(resource) = baStores[resource] => resource \in Shared \/ ContentOf(resource) \in {{}, Sealed}
    BY <2>1 DEF ContentOf, Shared
  <2>4. Past(ContentOf(resource), baRound)
    BY <2>2, <2>3, SealedPast DEF NothingAhead, Past
  <2> QED BY <1>3, <2>4
<1> QED BY <1>1, <1>2, <1>3 DEF Roles

----------------------------------------------------------------------------
(* Steps.                                                                  *)

LEMMA IssueKeeps ==
  ASSUME BarrierInv, IssueRoleTask
  PROVE  BarrierInv'
<1> USE DEF BarrierInv
<1>1. /\ baKnows' = {Own} \cup Context(baPhase) /\ baPhase \in Roles
      /\ UNCHANGED <<baMemory, baResults, baPhase, baRound, baBranch, baStores, baFlight>>
  BY DEF IssueRoleTask, branchStores
<1>2. Past(Context(baPhase), baRound) /\ (baPhase \in {"branch", "verifier"} => Context(baPhase) = {})
  BY OwnLabel, SealedPast DEF Context, NothingAhead, Past, Shared
<1>3. /\ Past(baKnows', baRound)
      /\ baPhase = "branch" => Apart(baKnows', baRound, baBranch)
      /\ baPhase = "verifier" => baKnows' \subseteq VerifierLabels
  BY <1>1, <1>2, OwnLabel, PastMany, ApartMany DEF Apart
<1> QED
  BY <1>1, <1>3 DEF BarrierTypes, NothingAhead, SnapshotIsOlder, MemoriesApart, KnowledgeApart,
     FlightsApart, VerifierClosed

LEMMA LearnKeeps ==
  ASSUME BarrierInv, NEW resource \in Resources, Read(resource) \/ Search(resource)
  PROVE  BarrierInv'
<1> USE DEF BarrierInv
<1>1. /\ baKnows' = baKnows \cup ContentOf(resource) /\ baPhase \in Roles
      /\ resource \in ReadableBy[baPhase] \/ resource \in Searchable(baPhase)
      /\ UNCHANGED <<baMemory, baResults, baPhase, baRound, baBranch, baStores, baFlight>>
  BY DEF Read, Search, MayRead, branchStores
<1>2. /\ Past(baKnows', baRound)
      /\ baPhase = "branch" => Apart(baKnows', baRound, baBranch)
      /\ baPhase = "verifier" => baKnows' \subseteq VerifierLabels
  BY <1>1, ContentKeeps, PastMany, ApartMany DEF NothingAhead, KnowledgeApart, VerifierClosed
<1> QED
  BY <1>1, <1>2 DEF BarrierTypes, NothingAhead, SnapshotIsOlder, MemoriesApart, KnowledgeApart,
     FlightsApart, VerifierClosed

\* What is written where the writer's barrier lets it.
Allowed(place, labels) ==
  /\ Past(labels, baRound)
  /\ \/ place.branch \in BranchNumbers /\ DOMAIN place = {"branch"} /\ Apart(labels, baRound, place.branch)
     \/ /\ DOMAIN place = {"shared"} /\ place.shared \in Shared \ {"snapshot"}
        /\ place.shared \in {"verification_report", "memory:verifier"} => labels \subseteq VerifierLabels

LEMMA PutKeeps ==
  ASSUME BarrierInv, NEW store \in Shared \ {"snapshot"}, NEW labels, Past(labels, baRound),
         store \in {"verification_report", "memory:verifier"} => labels \subseteq VerifierLabels
  PROVE  /\ DOMAIN Put(store, labels) = Shared
         /\ \A s \in Shared : Past(Put(store, labels)[s], baRound)
         /\ Put(store, labels)["snapshot"] = baStores["snapshot"]
         /\ Put(store, labels)["proof"] \cup Put(store, labels)["verification_report"]
              \cup Put(store, labels)["memory:verifier"] \subseteq VerifierLabels
<1> USE DEF BarrierInv
<1> DEFINE new == IF store \in {"proof", "join_result", "verification_report"}
                  THEN Document(store, labels) ELSE baStores[store] \cup labels
<1>1. Put(store, labels) = [baStores EXCEPT ![store] = new]
  BY DEF Put
<1>2. Past(new, baRound)
  BY OwnLabel, PastMany DEF Document, NothingAhead
<1>3. store \in {"proof", "verification_report", "memory:verifier"} => new \subseteq VerifierLabels
  BY DEF Document, VerifierLabels, VerifierClosed
<1> HIDE DEF new
<1>4. \A s \in Shared : Put(store, labels)[s] = IF s = store THEN new ELSE baStores[s]
  BY <1>1 DEF BarrierTypes
<1>5. {"proof", "verification_report", "memory:verifier", "snapshot"} \subseteq Shared
  BY DEF Shared
<1>6. DOMAIN Put(store, labels) = Shared
  BY <1>1 DEF BarrierTypes
<1>7. \A s \in Shared : Past(Put(store, labels)[s], baRound)
  BY <1>2, <1>4 DEF NothingAhead
<1> QED BY <1>3, <1>4, <1>5, <1>6, <1>7 DEF VerifierClosed

LEMMA StoreKeeps ==
  ASSUME BarrierInv, NEW place, NEW labels, Allowed(place, labels), StoreIn(place, labels),
         baFlight' \subseteq baFlight, UNCHANGED <<baPhase, baRound, baBranch, baKnows, baResults>>
  PROVE  BarrierInv'
<1> USE DEF BarrierInv
<1>1. CASE /\ place.branch \in BranchNumbers /\ DOMAIN place = {"branch"}
           /\ Apart(labels, baRound, place.branch)
  <2> DEFINE b == place.branch
  <2>1. baMemory' = [baMemory EXCEPT ![b] = baMemory[b] \cup labels] /\ baStores' = baStores
    BY <1>1 DEF StoreIn
  <2>2. /\ b \in BranchNumbers
        /\ Past(baMemory[b] \cup labels, baRound) /\ Apart(baMemory[b] \cup labels, baRound, b)
    BY <1>1, PastMany, ApartMany DEF Allowed, NothingAhead, MemoriesApart
  <2> HIDE DEF b
  <2>3. /\ DOMAIN baMemory' = BranchNumbers
        /\ \A c \in BranchNumbers : Past(baMemory'[c], baRound) /\ Apart(baMemory'[c], baRound, c)
    BY <2>1, <2>2 DEF BarrierTypes, NothingAhead, MemoriesApart
  <2> QED
    BY <2>1, <2>3 DEF BarrierTypes, NothingAhead, SnapshotIsOlder, MemoriesApart, KnowledgeApart,
       FlightsApart, VerifierClosed
<1>2. CASE /\ DOMAIN place = {"shared"} /\ place.shared \in Shared \ {"snapshot"}
           /\ place.shared \in {"verification_report", "memory:verifier"} => labels \subseteq VerifierLabels
  <2> DEFINE store == place.shared
  <2>1. baStores' = Put(store, labels) /\ baMemory' = baMemory
    BY <1>2 DEF StoreIn
  <2>2. Past(labels, baRound)
    BY DEF Allowed
  <2>3. /\ DOMAIN baStores' = Shared /\ \A s \in Shared : Past(baStores'[s], baRound)
        /\ baStores'["snapshot"] = baStores["snapshot"]
        /\ baStores'["proof"] \cup baStores'["verification_report"] \cup baStores'["memory:verifier"]
             \subseteq VerifierLabels
    BY <1>2, <2>1, <2>2, PutKeeps
  <2> QED
    BY <2>1, <2>3 DEF BarrierTypes, NothingAhead, SnapshotIsOlder, MemoriesApart, KnowledgeApart,
       FlightsApart, VerifierClosed
<1> QED BY <1>1, <1>2 DEF Allowed

LEMMA WriteKeeps ==
  ASSUME BarrierInv, NEW resource \in Resources, Write(resource)
  PROVE  BarrierInv'
<1> USE DEF BarrierInv
<1> DEFINE place == Destination(resource)
<1>1. /\ baPhase \in Roles /\ resource \in WritableBy[baPhase] /\ resource # "branch:self"
      /\ StoreIn(place, baKnows)
      /\ UNCHANGED <<baPhase, baRound, baBranch, baKnows, baResults, baFlight>>
  BY DEF Write, MayWrite
<1>2. Past(baKnows, baRound)
  BY DEF NothingAhead
<1>3. Allowed(place, baKnows)
  <2>1. CASE baPhase = "branch"
    <3>1. resource = "memory:branch" /\ baBranch \in BranchNumbers
      BY <1>1, <2>1 DEF WritableBy, BarrierTypes
    <3>2. place = [branch |-> baBranch]
      BY <3>1 DEF Destination
    <3>3. DOMAIN place = {"branch"} /\ place.branch = baBranch
      BY <3>2
    <3> QED BY <1>2, <2>1, <3>1, <3>3 DEF Allowed, KnowledgeApart
  <2>2. CASE baPhase # "branch"
    <3>1. /\ resource \in Shared \ {"snapshot"}
          /\ resource \in {"verification_report", "memory:verifier"} => baPhase = "verifier"
      BY <1>1, <2>2 DEF WritableBy, GenerationMemory, Shared, Roles
    <3>2. place = [shared |-> resource]
      BY <3>1 DEF Destination, Shared
    <3>3. DOMAIN place = {"shared"} /\ place.shared = resource
      BY <3>2
    <3> QED BY <1>2, <3>1, <3>3 DEF Allowed, VerifierClosed
  <2> QED BY <2>1, <2>2
<1> HIDE DEF place
<1> QED BY <1>1, <1>3, StoreKeeps

LEMMA RetrieveKeeps ==
  ASSUME BarrierInv, BeginRetrieve \/ EndRetrieve
  PROVE  BarrierInv'
<1> USE DEF BarrierInv
<1>1. CASE BeginRetrieve
  <2> DEFINE f == [role |-> baPhase, branch |-> baBranch, labels |-> baKnows]
  <2>1. /\ baFlight' = {f}
        /\ UNCHANGED <<baMemory, baResults, baPhase, baRound, baBranch, baKnows, baStores>>
    BY <1>1 DEF BeginRetrieve, branchStores
  <2>2. f.role = baPhase /\ f.branch = baBranch /\ f.labels = baKnows
    OBVIOUS
  <2> HIDE DEF f
  <2> QED
    BY <2>1, <2>2 DEF BarrierTypes, NothingAhead, SnapshotIsOlder, MemoriesApart, KnowledgeApart,
       FlightsApart, VerifierClosed
<1>2. CASE EndRetrieve
  <2>1. PICK f \in baFlight : StoreIn(RecordedIn(f), f.labels)
    BY <1>2 DEF EndRetrieve
  <2> DEFINE place == RecordedIn(f)
  <2>2. baFlight' = {} /\ UNCHANGED <<baPhase, baRound, baBranch, baKnows, baResults>>
    BY <1>2 DEF EndRetrieve
  <2>3. Allowed(place, f.labels)
    <3>1. CASE f.role = "branch"
      <4>1. place = [branch |-> f.branch]
        BY <3>1 DEF RecordedIn
      <4>2. DOMAIN place = {"branch"} /\ place.branch = f.branch
        BY <4>1
      <4> QED BY <3>1, <4>2 DEF Allowed, NothingAhead, FlightsApart
    <3>2. CASE f.role # "branch"
      <4> DEFINE store == IF f.role = "verifier" THEN "memory:verifier" ELSE "memory:generation:events"
      <4>1. place = [shared |-> store]
        BY <3>2 DEF RecordedIn
      <4>2. DOMAIN place = {"shared"} /\ place.shared = store
        BY <4>1
      <4>3. /\ store \in Shared \ {"snapshot"}
            /\ store \in {"verification_report", "memory:verifier"} => f.role = "verifier"
        BY DEF Shared
      <4> HIDE DEF store
      <4> QED BY <4>2, <4>3 DEF Allowed, NothingAhead, VerifierClosed
    <3> QED BY <3>1, <3>2
  <2> HIDE DEF place
  <2> QED BY <2>1, <2>2, <2>3, StoreKeeps DEF place
<1> QED BY <1>1, <1>2

\* A commit leaves the open domain behind: the next one starts knowing nothing.
LEMMA CloseForgets ==
  ASSUME NEW phase, Close(phase)
  PROVE  /\ baPhase' = phase /\ baKnows' = {}
         /\ Past({}, baRound) /\ (\A b : Apart({}, baRound, b)) /\ {} \subseteq VerifierLabels
  BY DEF Close, Past, Apart

LEMMA RouteKeeps ==
  ASSUME BarrierInv, CommitRoute \/ CommitJoin
  PROVE  BarrierInv'
<1> USE DEF BarrierInv
<1>1. PICK phase \in {"assembler", "generator"} : Close(phase)
  BY DEF CommitRoute, CommitJoin
<1>2. UNCHANGED <<baMemory, baResults, baRound, baBranch, baFlight>>
  BY DEF CommitRoute, CommitJoin, branchStores
<1> DEFINE put == Put("join_result", baKnows)
<1>3. "join_result" \in Shared \ {"snapshot"} /\ "memory:generation" \in Shared
  BY DEF Shared
<1>4. /\ DOMAIN put = Shared /\ \A s \in Shared : Past(put[s], baRound)
      /\ put["snapshot"] = baStores["snapshot"]
      /\ put["proof"] \cup put["verification_report"] \cup put["memory:verifier"] \subseteq VerifierLabels
  BY <1>3, PutKeeps DEF NothingAhead
<1>5. \/ baStores' = put
      \/ baStores' = [put EXCEPT !["memory:generation"] = put["memory:generation"] \cup baKnows]
  BY DEF CommitRoute, CommitJoin
<1>6. Past(put["memory:generation"] \cup baKnows, baRound)
  BY <1>3, <1>4, PastMany DEF NothingAhead
<1> HIDE DEF put
<1>7. /\ DOMAIN baStores' = Shared /\ \A s \in Shared : Past(baStores'[s], baRound)
      /\ baStores'["snapshot"] = baStores["snapshot"]
      /\ baStores'["proof"] \cup baStores'["verification_report"] \cup baStores'["memory:verifier"]
           \subseteq VerifierLabels
  BY <1>3, <1>4, <1>5, <1>6 DEF Shared
<1>8. baPhase' \in Phases \ {"branch", "verifier"} /\ Past(baKnows', baRound)
  BY <1>1, CloseForgets DEF Phases, Roles
<1> QED
  BY <1>2, <1>7, <1>8 DEF BarrierTypes, NothingAhead, SnapshotIsOlder, MemoriesApart, KnowledgeApart,
     FlightsApart, VerifierClosed

\* A new round: what its branches are given is of the rounds before.
LEMMA PrepareKeeps ==
  ASSUME BarrierInv, PrepareBranches
  PROVE  BarrierInv'
<1> USE DEF BarrierInv
<1> DEFINE round == baRound + 1
<1>1. /\ baPhase' = "branch" /\ baKnows' = {} /\ baRound' = round /\ baBranch' = 1
      /\ baStores' = [baStores EXCEPT !["snapshot"] = baStores["memory:generation"]]
      /\ baMemory' = Nothing(BranchNumbers) /\ baResults' = Nothing(BranchNumbers)
      /\ baFlight' = {f \in baFlight : f.role # "branch"}
  BY DEF PrepareBranches, Close, Frozen
<1>2. \A labels : Past(labels, baRound) =>
        Past(labels, round) /\ \A b \in BranchNumbers : BranchLabel(round, b) \notin labels
  BY DEF Past, BarrierTypes
<1>3. Past({}, round) /\ \A b : Apart({}, round, b)
  BY DEF Past, Apart
<1>4. /\ "snapshot" \in Shared /\ "memory:generation" \in Shared
      /\ {"proof", "verification_report", "memory:verifier"} \subseteq Shared \ {"snapshot"}
  BY DEF Shared
<1>5. \A s \in Shared : baStores'[s] = IF s = "snapshot" THEN baStores["memory:generation"] ELSE baStores[s]
  BY <1>1 DEF BarrierTypes
<1>6. round \in Nat /\ 1 \in BranchNumbers
  BY BarriersAssumption DEF BarrierTypes
<1> HIDE DEF round
<1>7. BarrierTypes'
  BY <1>1, <1>6 DEF BarrierTypes, Phases, Roles, Nothing
<1>8. NothingAhead' /\ SnapshotIsOlder'
  BY <1>1, <1>2, <1>3, <1>4, <1>5 DEF NothingAhead, SnapshotIsOlder, Nothing
<1>9. MemoriesApart' /\ KnowledgeApart' /\ FlightsApart'
  BY <1>1, <1>3 DEF MemoriesApart, KnowledgeApart, FlightsApart, Nothing
<1>10. VerifierClosed'
  BY <1>1, <1>4, <1>5 DEF VerifierClosed
<1> QED BY <1>7, <1>8, <1>9, <1>10

LEMMA CommitBranchKeeps ==
  ASSUME BarrierInv, CommitBranch
  PROVE  BarrierInv'
<1> USE DEF BarrierInv
<1>1. /\ baPhase = "branch" /\ baBranch \in BranchNumbers
      /\ baStores' = Put("memory:generation", baKnows)
      /\ baResults' = [baResults EXCEPT ![baBranch] = baKnows]
      /\ UNCHANGED <<baRound, baMemory, baFlight>>
  BY DEF CommitBranch, WithSealed, BarrierTypes
<1>2. /\ baKnows' = {}
      /\ \/ baPhase' = "branch" /\ baBranch' \in BranchNumbers
         \/ baPhase' = "join"
  BY DEF CommitBranch, Close
<1>3. "memory:generation" \in Shared \ {"snapshot"}
  BY DEF Shared
<1>4. /\ DOMAIN baStores' = Shared /\ \A s \in Shared : Past(baStores'[s], baRound)
      /\ baStores'["snapshot"] = baStores["snapshot"]
      /\ baStores'["proof"] \cup baStores'["verification_report"] \cup baStores'["memory:verifier"]
           \subseteq VerifierLabels
  BY <1>1, <1>3, PutKeeps DEF NothingAhead
<1>5. Past({}, baRound) /\ \A b : Apart({}, baRound, b)
  BY DEF Past, Apart
<1>6. BarrierTypes'
  BY <1>1, <1>2, <1>4 DEF BarrierTypes, Phases, Roles
<1>7. NothingAhead' /\ SnapshotIsOlder'
  BY <1>1, <1>2, <1>4, <1>5 DEF NothingAhead, SnapshotIsOlder, BarrierTypes
<1>8. MemoriesApart' /\ KnowledgeApart' /\ FlightsApart' /\ VerifierClosed'
  BY <1>1, <1>2, <1>4, <1>5 DEF MemoriesApart, KnowledgeApart, FlightsApart, VerifierClosed
<1> QED BY <1>6, <1>7, <1>8

LEMMA HandOverKeeps ==
  ASSUME BarrierInv, SubmitProof \/ Gate \/ CommitVerification
  PROVE  BarrierInv'
<1> USE DEF BarrierInv
<1>1. PICK phase \in {"gate", "verifier", "repair", "done"} : Close(phase)
  BY DEF SubmitProof, Gate, CommitVerification
<1>2. UNCHANGED <<baMemory, baResults, baRound, baBranch, baStores, baFlight>>
  BY DEF SubmitProof, Gate, CommitVerification, branchStores
<1>3. /\ baPhase' \in Phases \ {"branch"} /\ baKnows' = {} /\ Past(baKnows', baRound)
  BY <1>1, CloseForgets DEF Phases, Roles
<1> QED
  BY <1>2, <1>3 DEF BarrierTypes, NothingAhead, SnapshotIsOlder, MemoriesApart, KnowledgeApart,
     FlightsApart, VerifierClosed

----------------------------------------------------------------------------
\* Whatever the roles read, write, search and retrieve, and in whatever order:
\* nothing a branch found reaches another branch of its round before the join,
\* and the verifier and its report hold nothing but the proof and their own.
THEOREM BarriersStand == BarriersSpec => []BarriersHold
<1>1. BarriersInit => BarrierInv
  <2> SUFFICES ASSUME BarriersInit PROVE BarrierInv
    OBVIOUS
  <2>1. /\ Past({}, 0) /\ (\A b : Apart({}, 0, b))
        /\ {"snapshot", "proof", "verification_report", "memory:verifier"} \subseteq Shared
    BY DEF Past, Apart, Shared
  <2>2. \A s \in Shared : baStores[s] = {}
    BY DEF BarriersInit, Nothing
  <2>3. \A b \in BranchNumbers : baMemory[b] = {} /\ baResults[b] = {}
    BY DEF BarriersInit, Nothing
  <2>4. BarrierTypes
    BY DEF BarriersInit, Nothing, BarrierTypes, Phases, Roles
  <2>5. NothingAhead /\ SnapshotIsOlder
    BY <2>1, <2>2, <2>3 DEF BarriersInit, NothingAhead, SnapshotIsOlder
  <2>6. MemoriesApart /\ KnowledgeApart /\ FlightsApart /\ VerifierClosed
    BY <2>1, <2>2, <2>3 DEF BarriersInit, MemoriesApart, KnowledgeApart, FlightsApart, VerifierClosed
  <2> QED BY <2>4, <2>5, <2>6 DEF BarrierInv
<1>2. BarrierInv /\ [BarriersNext]_barrierVars => BarrierInv'
  <2> SUFFICES ASSUME BarrierInv, [BarriersNext]_barrierVars PROVE BarrierInv'
    OBVIOUS
  <2>1. CASE UNCHANGED barrierVars
    BY <2>1 DEF barrierVars, BarrierInv, BarrierTypes, NothingAhead, SnapshotIsOlder, MemoriesApart,
       KnowledgeApart, FlightsApart, VerifierClosed
  <2>2. GenerationMemory \cup {"memory:branch"} \subseteq Resources
    BY DEF GenerationMemory, Resources, Shared
  <2> QED
    BY <2>1, <2>2, IssueKeeps, LearnKeeps, WriteKeeps, RetrieveKeeps, RouteKeeps, PrepareKeeps,
       CommitBranchKeeps, HandOverKeeps DEF BarriersNext
<1>3. BarrierInv => BarriersHold
  BY DEF BarrierInv, KnowledgeApart, VerifierClosed, BarriersHold, BranchesApart, VerifierIsBlind,
     Apart, VerifierLabels
<1> QED BY <1>1, <1>2, <1>3, PTL DEF BarriersSpec

----------------------------------------------------------------------------
(* Delivery: what a handler knows of the path it works on.                 *)

CallPcs == {"idle", "look", "compare", "look_again", "prepare", "commit", "link", "confirm"}
Content == Texts \cup {NoText}
Calls == [pc : CallPcs, run : ExportRuns \cup {NoText}, path : Paths \cup {NoText}, poll : BOOLEAN,
          expected : Content, update : BOOLEAN, base : Content, fresh : BOOLEAN,
          calm : BOOLEAN, saw : SUBSET Content]

ExportTypes == call \in [Handlers -> Calls] /\ file \in [Paths -> Content]

\* The path holds something the call has seen; and as long as nobody else
\* touched it, it is as the call's last step left it.
Follows(c, f) ==
  /\ c.run \in ExportRuns /\ c.path \in Paths
  /\ f[c.path] \in c.saw
  /\ c.poll => c.expected = NoText
  /\ c.pc = "compare" /\ c.calm => f[c.path] # NoText
  /\ c.pc \in {"look_again", "prepare"} /\ c.poll /\ c.calm => f[c.path] = NoText
  /\ c.pc = "link" /\ c.calm => f[c.path] = NoText
  /\ c.pc = "prepare" /\ c.expected = NoText => ~ c.update
  /\ c.pc \in {"commit", "link", "confirm"} => c.base = c.expected
  /\ c.pc = "commit" /\ c.fresh => f[c.path] = c.base
  /\ c.pc \in {"commit", "confirm"} /\ c.calm => c.fresh
  /\ c.pc = "confirm" => Verified[c.run] \in c.saw

ExportInv ==
  /\ ExportTypes
  /\ \A h \in Handlers : call[h].pc = "idle" \/ Follows(call[h], file)
  /\ \A answer \in answers : answer.reason
  /\ \A pair \in replaced : pair[1] = pair[2]

\* An idle handler has no call, and so knows nothing.
LEMMA IdleCall == NoExport \in Calls /\ NoExport.pc = "idle"
  BY DEF NoExport, Calls, CallPcs, Content

\* In the beginning nobody delivers anything.
LEMMA ExportStarts == ExportInit => ExportInv
  BY IdleCall DEF ExportInit, ExportInv, ExportTypes, Content

\* One handler works on its call, the path stays as it is.
LEMMA OwnStep ==
  ASSUME ExportInv, NEW h \in Handlers, NEW c \in Calls,
         call' = [call EXCEPT ![h] = c], UNCHANGED <<file, historyVars>>,
         c.pc = "idle" \/ Follows(c, file)
  PROVE  ExportInv'
<1>1. ExportTypes' /\ \A g \in Handlers : call'[g] = IF g = h THEN c ELSE call[g]
  BY DEF ExportInv, ExportTypes, historyVars
<1> QED BY <1>1 DEF ExportInv, historyVars

\* An answer with a good reason.
LEMMA AnswerStep ==
  ASSUME ExportInv, NEW h \in Handlers, NEW ok \in BOOLEAN, NEW reason \in BOOLEAN,
         Answers(h, ok, reason), reason, UNCHANGED file,
         replaced' = replaced \/ \E e : replaced' = replaced \cup {<<e, e>>}
  PROVE  ExportInv'
<1>1. /\ ExportTypes'
      /\ \A g \in Handlers : call'[g] = IF g = h THEN NoExport ELSE call[g]
  BY IdleCall DEF ExportInv, ExportTypes, Answers
<1>2. \A a \in answers' : a.reason
  BY DEF ExportInv, Answers
<1>3. \A pair \in replaced' : pair[1] = pair[2]
  BY DEF ExportInv
<1> QED BY <1>1, <1>2, <1>3, IdleCall DEF ExportInv

\* What somebody's write of a path is to the calls of others.
LEMMA SeenByOthers ==
  ASSUME ExportInv, NEW p \in Paths, NEW t \in Content, NEW h, NEW g \in Handlers, g # h,
         file' = [file EXCEPT ![p] = t]
  PROVE  /\ Seen(h, p, t)[g] \in Calls
         /\ Seen(h, p, t)[g].pc = "idle" \/ Follows(Seen(h, p, t)[g], file')
<1> DEFINE c == call[g]
           d == [c EXCEPT !.saw = @ \cup {t}, !.calm = FALSE, !.fresh = FALSE]
<1>1. c \in Calls /\ file \in [Paths -> Content]
  BY DEF ExportInv, ExportTypes
<1>2. Seen(h, p, t)[g] = IF c.path = p THEN d ELSE c
  <2>1. (c.calm /\ g = h) = FALSE /\ (c.fresh /\ g = h) = FALSE
    OBVIOUS
  <2> QED BY <2>1 DEF Seen
<1>3. /\ d \in Calls /\ d.pc = c.pc /\ d.run = c.run /\ d.path = c.path /\ d.poll = c.poll
      /\ d.expected = c.expected /\ d.update = c.update /\ d.base = c.base
      /\ d.saw = c.saw \cup {t} /\ ~ d.calm /\ ~ d.fresh
  BY <1>1 DEF Calls
<1>4. c.pc = "idle" \/ Follows(c, file)
  BY DEF ExportInv
<1>5. file'[p] = t /\ \A q \in Paths \ {p} : file'[q] = file[q]
  BY <1>1
<1> HIDE DEF c, d
<1>6. CASE c.path = p
  <2>1. Seen(h, p, t)[g] = d
    BY <1>2, <1>6
  <2> QED BY <1>3, <1>4, <1>5, <1>6, <2>1 DEF Follows
<1>7. CASE c.path # p
  <2>1. Seen(h, p, t)[g] = c
    BY <1>2, <1>7
  <2> QED BY <1>1, <1>4, <1>5, <1>7, <2>1 DEF Follows
<1> QED BY <1>6, <1>7

\* A handler changes the path it works on.
LEMMA PathStep ==
  ASSUME ExportInv, NEW h \in Handlers, NEW p \in Paths, NEW t \in Content, NEW c \in Calls,
         file' = [file EXCEPT ![p] = t], call' = [Seen(h, p, t) EXCEPT ![h] = c],
         c.pc = "idle" \/ Follows(c, file'), UNCHANGED historyVars
  PROVE  ExportInv'
<1>1. \A g \in Handlers : call'[g] = IF g = h THEN c ELSE Seen(h, p, t)[g]
  BY DEF Seen
<1>2. \A g \in Handlers : call'[g] \in Calls /\ (call'[g].pc = "idle" \/ Follows(call'[g], file'))
  <2> SUFFICES ASSUME NEW g \in Handlers
               PROVE  call'[g] \in Calls /\ (call'[g].pc = "idle" \/ Follows(call'[g], file'))
    OBVIOUS
  <2>1. CASE g = h
    BY <1>1, <2>1
  <2>2. CASE g # h
    <3>1. /\ Seen(h, p, t)[g] \in Calls
          /\ Seen(h, p, t)[g].pc = "idle" \/ Follows(Seen(h, p, t)[g], file')
      BY <2>2, SeenByOthers
    <3>2. call'[g] = Seen(h, p, t)[g]
      BY <1>1, <2>2
    <3> QED BY <3>1, <3>2
  <2> QED BY <2>1, <2>2
<1>3. ExportTypes'
  <2>1. call' = [g \in Handlers |-> call'[g]]
    BY DEF Seen
  <2> QED BY <1>2, <2>1 DEF ExportInv, ExportTypes, historyVars
<1> QED BY <1>2, <1>3 DEF ExportInv, historyVars

----------------------------------------------------------------------------
(* Every step of a delivery keeps it.                                      *)

\* The call of a handler with some of its fields changed.
LEMMA CallFields ==
  ASSUME ExportTypes, NEW h \in Handlers
  PROVE  /\ call[h] \in Calls
         /\ \A pc \in CallPcs : [call[h] EXCEPT !.pc = pc] \in Calls
         /\ call[h].path \in Paths => AtPath(h) \in Content
BY DEF ExportTypes, Calls, AtPath

\* A handler sees what it writes itself.
LEMMA SeenBySelf ==
  ASSUME ExportTypes, NEW h \in Handlers, NEW t
  PROVE  Seen(h, call[h].path, t)[h] = [call[h] EXCEPT !.saw = @ \cup {t}]
<1>1. call[h] \in Calls
  BY DEF ExportTypes
<1>2. Seen(h, call[h].path, t)[h] = [call[h] EXCEPT !.saw = @ \cup {t}, !.calm = @ /\ TRUE,
                                                    !.fresh = @ /\ TRUE]
  BY DEF Seen
<1>3. call[h].calm \in BOOLEAN /\ call[h].fresh \in BOOLEAN
  BY <1>1 DEF Calls
<1> QED BY <1>1, <1>2, <1>3 DEF Calls

\* Every step of a call keeps the invariant: its first,
LEMMA AskKeeps ==
  ASSUME ExportInv, NEW h \in Handlers, NEW r \in ExportRuns, NEW p \in Paths,
         NEW e \in Content, NEW poll \in BOOLEAN, poll => e = NoText, Ask(h, r, p, e, poll)
  PROVE  ExportInv'
<1> DEFINE c == [NoExport EXCEPT !.pc = IF poll THEN "look" ELSE "look_again", !.run = r, !.path = p,
                             !.poll = poll, !.expected = e, !.calm = TRUE, !.saw = {file[p]}]
<1>1. file[p] \in Content
  BY DEF ExportInv, ExportTypes
<1>2. /\ c.pc = (IF poll THEN "look" ELSE "look_again") /\ c.run = r /\ c.path = p
      /\ c.poll = poll /\ c.expected = e /\ c.calm /\ c.saw = {file[p]}
      /\ c \in Calls
  BY <1>1 DEF NoExport, Calls, CallPcs, Content
<1>3. call' = [call EXCEPT ![h] = c] /\ UNCHANGED <<file, historyVars>>
  BY DEF Ask
<1> HIDE DEF c
<1>4. Follows(c, file)
  BY <1>2 DEF Follows
<1> QED BY <1>2, <1>3, <1>4, OwnStep

\* the looks at the path that come before the transaction,
LEMMA LookKeeps ==
  ASSUME ExportInv, NEW h \in Handlers, Look(h)
  PROVE  ExportInv'
<1> DEFINE pc == IF AtPath(h) = NoText THEN "look_again" ELSE "compare"
           c == [call[h] EXCEPT !.pc = pc]
<1>1. call[h] \in Calls /\ Follows(call[h], file) /\ call[h].pc = "look"
  BY DEF ExportInv, ExportTypes, Look
<1>2. /\ c \in Calls /\ c.pc = pc /\ c.run = call[h].run /\ c.path = call[h].path
      /\ c.poll = call[h].poll /\ c.expected = call[h].expected /\ c.calm = call[h].calm
      /\ c.saw = call[h].saw
  BY <1>1 DEF Calls, CallPcs
<1>3. call' = [call EXCEPT ![h] = c] /\ UNCHANGED <<file, historyVars>>
  BY DEF Look, ExportInv, ExportTypes
<1> HIDE DEF c
<1>4. Follows(c, file)
  BY <1>1, <1>2 DEF Follows, AtPath
<1> QED BY <1>2, <1>3, <1>4, OwnStep

\* A refusal and a confirmation are answers; what is said has a reason.
LEMMA RefusalKeeps ==
  ASSUME ExportInv, NEW h \in Handlers, Refuses(h), UNCHANGED <<file, replaced>>,
         call[h].poll /\ call[h].calm => AtPath(h) \notin {NoText, Text(h)}, AtPath(h) \in call[h].saw
  PROVE  ExportInv'
<1>1. ~ call[h].poll \/ ~ call[h].calm \/ ~ call[h].saw \subseteq {NoText, Text(h)}
  OBVIOUS
<1> QED BY <1>1, AnswerStep DEF Refuses

LEMMA ConfirmationKeeps ==
  ASSUME ExportInv, NEW h \in Handlers, Confirms(h), UNCHANGED file, Text(h) \in call[h].saw,
         replaced' = replaced \/ \E e : replaced' = replaced \cup {<<e, e>>}
  PROVE  ExportInv'
BY AnswerStep DEF Confirms

LEMMA CompareKeeps ==
  ASSUME ExportInv, NEW h \in Handlers, CompareFile(h)
  PROVE  ExportInv'
<1>1. Follows(call[h], file) /\ call[h].pc = "compare" /\ UNCHANGED <<file, replaced>>
  BY DEF ExportInv, CompareFile
<1>2. CASE AtPath(h) = Text(h)
  BY <1>1, <1>2, ConfirmationKeeps DEF CompareFile, Follows, AtPath
<1>3. CASE AtPath(h) # Text(h)
  BY <1>1, <1>3, RefusalKeeps DEF CompareFile, Follows, AtPath
<1> QED BY <1>2, <1>3

LEMMA LookAgainKeeps ==
  ASSUME ExportInv, NEW h \in Handlers, LookAgain(h)
  PROVE  ExportInv'
<1> DEFINE c == [call[h] EXCEPT !.pc = "prepare", !.update = AtPath(h) # NoText]
<1>1. /\ call[h] \in Calls /\ Follows(call[h], file) /\ call[h].pc = "look_again"
      /\ UNCHANGED <<file, replaced>>
  BY DEF ExportInv, ExportTypes, LookAgain
<1>2. CASE AtPath(h) # NoText /\ call[h].expected = NoText /\ Refuses(h)
  BY <1>1, <1>2, RefusalKeeps DEF Follows, AtPath
<1>3. CASE /\ AtPath(h) = NoText \/ call[h].expected # NoText
           /\ call' = [call EXCEPT ![h].pc = "prepare", ![h].update = AtPath(h) # NoText]
           /\ UNCHANGED answers
  <2>1. /\ c \in Calls /\ c.pc = "prepare" /\ c.run = call[h].run /\ c.path = call[h].path
        /\ c.poll = call[h].poll /\ c.expected = call[h].expected /\ c.calm = call[h].calm
        /\ c.saw = call[h].saw /\ (AtPath(h) = NoText => ~ c.update)
    BY <1>1 DEF Calls, CallPcs
  <2>2. call' = [call EXCEPT ![h] = c] /\ UNCHANGED historyVars
    BY <1>1, <1>3 DEF ExportInv, ExportTypes, historyVars
  <2> HIDE DEF c
  <2>3. Follows(c, file)
    BY <1>1, <1>3, <2>1 DEF Follows, AtPath
  <2> QED BY <1>1, <2>1, <2>2, <2>3, OwnStep
<1> QED BY <1>2, <1>3 DEF LookAgain

\* the steps of the transaction,
LEMMA CaptureKeeps ==
  ASSUME ExportInv, NEW h \in Handlers, Prepare(h)
  PROVE  ExportInv'
<1> DEFINE c == [call[h] EXCEPT !.pc = "commit", !.base = AtPath(h), !.fresh = TRUE]
<1>1. /\ call[h] \in Calls /\ Follows(call[h], file) /\ call[h].pc = "prepare"
      /\ UNCHANGED <<file, replaced>>
  BY DEF ExportInv, ExportTypes, Prepare
<1>2. CASE ~ Matches(h) /\ Refuses(h)
  BY <1>1, <1>2, RefusalKeeps DEF Follows, AtPath, Matches
<1>3. CASE /\ Matches(h)
           /\ call' = [call EXCEPT ![h].pc = "commit", ![h].base = AtPath(h), ![h].fresh = TRUE]
           /\ UNCHANGED answers
  <2>1. AtPath(h) \in Content
    BY <1>1 DEF AtPath, Follows, ExportInv, ExportTypes
  <2>2. /\ c \in Calls /\ c.pc = "commit" /\ c.run = call[h].run /\ c.path = call[h].path
        /\ c.poll = call[h].poll /\ c.expected = call[h].expected /\ c.calm = call[h].calm
        /\ c.saw = call[h].saw /\ c.base = AtPath(h) /\ c.fresh
    BY <1>1, <2>1 DEF Calls, CallPcs
  <2>3. call' = [call EXCEPT ![h] = c] /\ UNCHANGED historyVars
    BY <1>1, <1>3 DEF ExportInv, ExportTypes, historyVars
  <2> HIDE DEF c
  <2>4. Follows(c, file)
    BY <1>1, <1>3, <2>2 DEF Follows, AtPath, Matches
  <2> QED BY <1>1, <2>2, <2>3, <2>4, OwnStep
<1> QED BY <1>2, <1>3 DEF Prepare

LEMMA CommitKeeps ==
  ASSUME ExportInv, NEW h \in Handlers, Commit(h)
  PROVE  ExportInv'
<1> DEFINE p == call[h].path
           c == [call[h] EXCEPT !.pc = "link"]
<1>1. /\ call[h] \in Calls /\ Follows(call[h], file) /\ call[h].pc = "commit"
      /\ UNCHANGED replaced /\ p \in Paths
  BY DEF ExportInv, ExportTypes, Commit, Follows
<1>2. CASE ~ call[h].fresh /\ Refuses(h) /\ UNCHANGED file
  BY <1>1, <1>2, RefusalKeeps DEF Follows, AtPath
<1>3. CASE call[h].fresh /\ call[h].base = Text(h) /\ Confirms(h) /\ UNCHANGED file
  BY <1>1, <1>3, ConfirmationKeeps DEF Follows, AtPath
<1>4. CASE /\ call[h].fresh /\ call[h].base # Text(h)
           /\ file' = [file EXCEPT ![p] = NoText]
           /\ call' = [IF call[h].base = NoText THEN call ELSE Seen(h, p, NoText)
                       EXCEPT ![h].pc = "link"]
           /\ UNCHANGED answers
  <2>0. file \in [Paths -> Content] /\ NoText \in Content
    BY DEF ExportInv, ExportTypes, Content
  <2>1. /\ c \in Calls /\ c.pc = "link" /\ c.run = call[h].run /\ c.path = call[h].path
        /\ c.poll = call[h].poll /\ c.expected = call[h].expected /\ c.calm = call[h].calm
        /\ c.saw = call[h].saw /\ c.base = call[h].base
    BY <1>1 DEF Calls, CallPcs
  <2>2. CASE call[h].base = NoText
    <3>1. file' = file
      BY <1>1, <1>4, <2>0, <2>2 DEF Follows
    <3>2. call' = [call EXCEPT ![h] = c] /\ UNCHANGED historyVars
      BY <1>1, <1>4, <2>2 DEF ExportInv, ExportTypes, historyVars
    <3> HIDE DEF c
    <3>3. Follows(c, file)
      BY <1>1, <1>4, <2>1, <2>2 DEF Follows
    <3> QED BY <2>1, <3>1, <3>2, <3>3, OwnStep
  <2>3. CASE call[h].base # NoText
    <3> DEFINE d == [c EXCEPT !.saw = @ \cup {NoText}]
    <3>1. /\ d \in Calls /\ d.pc = "link" /\ d.run = c.run /\ d.path = c.path
          /\ d.poll = c.poll /\ d.expected = c.expected /\ d.calm = c.calm
          /\ d.saw = c.saw \cup {NoText} /\ d.base = c.base
      BY <2>0, <2>1 DEF Calls
    <3>2. Seen(h, p, NoText)[h] = [call[h] EXCEPT !.saw = @ \cup {NoText}]
      BY SeenBySelf DEF ExportInv
    <3>3. call' = [Seen(h, p, NoText) EXCEPT ![h] = d] /\ UNCHANGED historyVars
      <4>1. [Seen(h, p, NoText)[h] EXCEPT !.pc = "link"] = d
        BY <1>1, <3>2 DEF Calls
      <4>2. call' = [Seen(h, p, NoText) EXCEPT ![h].pc = "link"]
        BY <1>4, <2>3
      <4>3. Seen(h, p, NoText) = [g \in Handlers |-> Seen(h, p, NoText)[g]]
        BY DEF Seen
      <4> QED BY <1>1, <1>4, <4>1, <4>2, <4>3 DEF historyVars
    <3>4. file'[p] = NoText
      BY <1>1, <1>4, <2>0
    <3> HIDE DEF d, c
    <3>5. Follows(d, file')
      BY <1>1, <2>1, <3>1, <3>4 DEF Follows
    <3> QED BY <1>1, <1>4, <2>0, <3>1, <3>3, <3>5, PathStep
  <2> QED BY <2>2, <2>3
<1> QED BY <1>2, <1>3, <1>4 DEF Commit

LEMMA LinkKeeps ==
  ASSUME ExportInv, NEW h \in Handlers, LinkFile(h)
  PROVE  ExportInv'
<1> DEFINE p == call[h].path
           t == Text(h)
           c == [call[h] EXCEPT !.saw = @ \cup {t}, !.pc = "confirm", !.fresh = TRUE]
<1>1. /\ call[h] \in Calls /\ Follows(call[h], file) /\ call[h].pc = "link"
      /\ UNCHANGED replaced /\ p \in Paths
  BY DEF ExportInv, ExportTypes, LinkFile, Follows
<1>2. CASE AtPath(h) # NoText /\ Refuses(h) /\ UNCHANGED file
  BY <1>1, <1>2, RefusalKeeps DEF Follows, AtPath
<1>3. CASE /\ AtPath(h) = NoText
           /\ file' = [file EXCEPT ![p] = t]
           /\ call' = [Seen(h, p, t) EXCEPT ![h].pc = "confirm", ![h].fresh = TRUE]
           /\ UNCHANGED answers
  <2>1. file \in [Paths -> Content] /\ t \in Content /\ t = Verified[call[h].run]
    BY <1>1, ExportAssumption DEF ExportInv, ExportTypes, Content, Text, Follows
  <2> HIDE DEF t
  <2>2. /\ c \in Calls /\ c.pc = "confirm" /\ c.run = call[h].run /\ c.path = p
        /\ c.poll = call[h].poll /\ c.expected = call[h].expected /\ c.calm = call[h].calm
        /\ c.saw = call[h].saw \cup {t} /\ c.base = call[h].base /\ c.fresh
    BY <1>1, <2>1 DEF Calls, CallPcs
  <2>3. call' = [Seen(h, p, t) EXCEPT ![h] = c]
    <3>1. Seen(h, p, t)[h] = [call[h] EXCEPT !.saw = @ \cup {t}]
      BY SeenBySelf DEF ExportInv
    <3>2. [Seen(h, p, t)[h] EXCEPT !.pc = "confirm", !.fresh = TRUE] = c
      BY <1>1, <3>1 DEF Calls
    <3>3. Seen(h, p, t) = [g \in Handlers |-> Seen(h, p, t)[g]]
      BY DEF Seen
    <3> QED BY <1>3, <3>2, <3>3
  <2>4. file'[p] = t
    BY <1>1, <1>3, <2>1
  <2> HIDE DEF c, p
  <2>5. Follows(c, file')
    BY <1>1, <2>1, <2>2, <2>4 DEF Follows
  <2> QED BY <1>1, <1>3, <2>1, <2>2, <2>3, <2>5, PathStep DEF historyVars
<1> QED BY <1>2, <1>3 DEF LinkFile

LEMMA ConfirmKeeps ==
  ASSUME ExportInv, NEW h \in Handlers, Confirm(h)
  PROVE  ExportInv'
<1>1. Follows(call[h], file) /\ call[h].pc = "confirm" /\ UNCHANGED file
  BY DEF ExportInv, Confirm
<1>2. CASE ~ call[h].fresh /\ Refuses(h) /\ UNCHANGED replaced
  BY <1>1, <1>2, RefusalKeeps DEF Follows, AtPath
<1>3. CASE /\ call[h].fresh /\ Confirms(h)
           /\ replaced' = replaced \cup {<<call[h].base, call[h].expected>>}
  <2>1. call[h].base = call[h].expected /\ Text(h) \in call[h].saw
    BY <1>1 DEF Follows, Text
  <2> QED BY <1>1, <1>3, <2>1, ConfirmationKeeps
<1> QED BY <1>2, <1>3 DEF Confirm

\* the failure of a call at any of them,
LEMMA FailKeeps ==
  ASSUME ExportInv, NEW h \in Handlers, Fails(h)
  PROVE  ExportInv'
<1> DEFINE p == call[h].path
           undone == call[h].pc \in {"link", "confirm"} /\ call[h].fresh
<1>1. /\ call[h] \in Calls /\ Follows(call[h], file) /\ UNCHANGED historyVars
      /\ p \in Paths /\ call[h].base \in Content
  BY DEF ExportInv, ExportTypes, Fails, Follows, Calls
<1>2. CASE undone
  <2>1. /\ file' = [file EXCEPT ![p] = call[h].base]
        /\ call' = [Seen(h, p, call[h].base) EXCEPT ![h] = NoExport]
    BY <1>2 DEF Fails
  <2> QED BY <1>1, <2>1, PathStep, IdleCall
<1>3. CASE ~ undone
  BY <1>1, <1>3, OwnStep, IdleCall DEF Fails
<1> QED BY <1>2, <1>3

\* and what restarts, users and runs do to all calls.
LEMMA OthersKeep ==
  ASSUME ExportInv,
         Restart \/ (\E p \in Paths : UserWrites(p)) \/ (\E r \in ExportRuns : RunEnds(r))
  PROVE  ExportInv'
<1>1. CASE Restart
  <2>1. \A h \in Handlers : call'[h] = NoExport
    BY <1>1 DEF Restart
  <2>2. call' \in [Handlers -> Calls]
    BY <1>1, IdleCall DEF Restart
  <2> QED BY <1>1, <2>1, <2>2, IdleCall DEF Restart, ExportInv, ExportTypes, historyVars
<1>2. ASSUME NEW p \in Paths, NEW t \in Content, file' = [file EXCEPT ![p] = t],
             call' = Seen(NoText, p, t), UNCHANGED historyVars
      PROVE  ExportInv'
  <2>1. ASSUME NEW g \in Handlers
        PROVE  call'[g] \in Calls /\ (call'[g].pc = "idle" \/ Follows(call'[g], file'))
    <3>1. g # NoText
      BY ExportAssumption
    <3> QED BY <1>2, <3>1, SeenByOthers
  <2>2. call' = [g \in Handlers |-> call'[g]]
    BY <1>2 DEF Seen
  <2> QED BY <1>2, <2>1, <2>2 DEF ExportInv, ExportTypes, historyVars
<1>3. CASE \E p \in Paths : UserWrites(p)
  BY <1>2, <1>3 DEF UserWrites, Content
<1>4. CASE \E r \in ExportRuns : RunEnds(r)
  BY <1>4 DEF RunEnds, ExportInv, ExportTypes, historyVars
<1> QED BY <1>1, <1>3, <1>4

\* What a handler knows of its path is invariant.
LEMMA ExportInductive == ExportSpec => []ExportInv
<1>1. ASSUME ExportInv, [ExportNext]_exportVars PROVE ExportInv'
  <2>1. ASSUME NEW h \in Handlers, NEW r \in ExportRuns, PollExport(h, r) PROVE ExportInv'
    <3>1. ExportPath[r] \in Paths /\ NoText \in Content
      BY ExportAssumption DEF Content
    <3> QED BY <1>1, <2>1, <3>1, AskKeeps DEF PollExport
  <2>2. ASSUME NEW h \in Handlers, ExportTo(h) PROVE ExportInv'
    BY <1>1, <2>2, AskKeeps DEF ExportTo, Content
  <2>3. ASSUME NEW h \in Handlers,
               \/ Look(h) \/ CompareFile(h) \/ LookAgain(h) \/ Prepare(h)
               \/ Commit(h) \/ LinkFile(h) \/ Confirm(h) \/ Fails(h)
        PROVE  ExportInv'
    BY <1>1, <2>3, LookKeeps, CompareKeeps, LookAgainKeeps, CaptureKeeps, CommitKeeps, LinkKeeps,
       ConfirmKeeps, FailKeeps
  <2>4. CASE UNCHANGED exportVars
    BY <1>1, <2>4 DEF exportVars, ExportInv, ExportTypes
  <2> QED BY <1>1, <2>1, <2>2, <2>3, <2>4, OthersKeep DEF ExportNext
<1> QED BY <1>1, ExportStarts, PTL DEF ExportSpec

\* However users and other deliveries interleave with it, a delivery writes over
\* nothing its caller did not name, and does not report a proof it did not see.
THEOREM ExportsSafe == ExportSpec => []ExportsAreSafe
<1>1. ExportInv => ExportsAreSafe
  BY DEF ExportInv, ExportsAreSafe
<1> QED BY <1>1, ExportInductive, PTL

\* A poll that nobody disturbs delivers, unless another text is there.
THEOREM PollsDeliver == ExportSpec => []PollDelivers
<1>1. ExportInv => PollDelivers
  BY DEF ExportInv, PollDelivers
<1> QED BY <1>1, ExportInductive, PTL
===================================================================================
