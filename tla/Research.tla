------------------------------ MODULE Research ------------------------------
(***************************************************************************)
(* The research history of a protocol-3 run (research_state/): what is     *)
(* accepted into it, and the graph and the advice that are derived from it *)
(* whenever a task is issued to the generator.                             *)
(*                                                                         *)
(* A plan is a sequence of goals [needs, critical]; "needs" holds the      *)
(* positions of goals of the same plan.  The node of a goal is <<round,    *)
(* plan, goal>>, as protocol_node_id builds it.  Records keep only what    *)
(* the graph and the advice read: prose, identifiers and evidence are left *)
(* out, and so are decisions, which never change either.                   *)
(***************************************************************************)
EXTENDS Naturals, FiniteSets, SequencesExt

CONSTANTS Proposals,      \* the decompositions a client proposes
          Screenings,     \* screening reports: <<plan, goal>> -> entry
          BranchReports,  \* [status, proved, unproved, obstructed], sets of goals; an
                          \* obstruction is of the class missing_reference
          FreeFailures,   \* affected_node_ids of failed_paths written directly
          MaxResearchRounds,      \* bound: rounds of branches
          MaxNotes        \* bound: records the generator writes itself

Findings == {"solved", "partial", "stuck"}

ASSUME ProposalAssumption ==
  Proposals \subseteq Seq(Seq([needs : SUBSET Nat, critical : BOOLEAN]))
ASSUME ScreeningAssumption ==
  \A report \in Screenings : \A g \in DOMAIN report : report[g].status \in Findings

VARIABLES rsPhase,     \* the run's state, from propose_plans to assemble
          rsRound,     \* round_index
          rsPlans,     \* metadata.active_plans, with the round in their ids
          rsProgress,  \* metadata.direct_screening_progress: node -> entry
          rsSealed,    \* plans of the current round whose branch is sealed
          rsHistory,   \* the vault's records, oldest first
          rsTask       \* the task of this phase was issued, with its capability

researchVars == <<rsPhase, rsRound, rsPlans, rsProgress, rsSealed, rsHistory, rsTask>>

Target == <<0, 0, 0>>
GeneratorPhases == {"propose", "direct", "failures", "replan"}
Notes == {"counterexamples", "events", "failed_paths"}

----------------------------------------------------------------------------
(* Accepting a decomposition.                                              *)

\* Goals can be put in an order in which each comes after those it needs: there is
\* no cycle, and no key of a goal that does not exist.  (Module GoalGraph has the
\* search that finds this out.)
ValidLocalGraph(goals) ==
  \E rank \in [DOMAIN goals -> DOMAIN goals] :
    \A key \in DOMAIN goals : \A need \in goals[key].needs :
      need \in DOMAIN goals /\ rank[need] < rank[key]

Acceptable(proposal) ==
  /\ Len(proposal) >= 2
  /\ \A i \in DOMAIN proposal : proposal[i] /= <<>> /\ ValidLocalGraph(proposal[i])

----------------------------------------------------------------------------
(* The graph: normalize_research and project.                              *)

ActivePlans == DOMAIN rsPlans.goals
NodesOf(plan) == {<<rsPlans.round, plan, g>> : g \in DOMAIN rsPlans.goals[plan]}
Nodes == {Target} \cup UNION {NodesOf(plan) : plan \in ActivePlans}
Goal(node) == rsPlans.goals[node[2]][node[3]]
Needs(node) ==
  IF node = Target THEN {} ELSE {<<node[1], node[2], g>> : g \in Goal(node).needs}

Channel(name) == SelectSeq(rsHistory, LAMBDA record : record.channel = name)
Affected(record) == IF record.nodes = {} THEN {Target} ELSE record.nodes

\* normalize_research raises on these records and on no other.
Readable ==
  \A i \in DOMAIN rsHistory : rsHistory[i].channel \in {"events", "failed_paths"}
     => Affected(rsHistory[i]) \subseteq Nodes

Screened == [node \in Nodes |->
  IF node \notin DOMAIN rsProgress THEN "open"
  ELSE CASE rsProgress[node].status = "solved" -> "route_solved"
         [] rsProgress[node].status = "partial" -> "partial"
         [] rsProgress[node].status = "stuck" -> "blocked"]

\* Branch results are read once every branch is sealed; an old plan's is skipped.
SealedResults == IF rsSealed = ActivePlans
           THEN SelectSeq(Channel("branch_results"), LAMBDA r : r.round = rsPlans.round)
           ELSE <<>>
Among(result, goals) == {n \in NodesOf(result.plan) : n[3] \in goals}
Touched(result) ==
  IF \/ result.status = "solved"
     \/ result.status = "failed" /\ result.proved \cup result.unproved = {}
  THEN NodesOf(result.plan)
  ELSE Among(result, result.proved \cup result.unproved \cup result.obstructed)
Solved(result) ==
  IF result.status = "solved" THEN NodesOf(result.plan) ELSE Among(result, result.proved)

\* The passes over the records of a channel.  In each the order of the records makes
\* no difference: what is solved stays so, and what is refuted.
WithResults(status) == [node \in Nodes |->
  IF \E i \in DOMAIN SealedResults : node \in Solved(SealedResults[i]) THEN "route_solved"
  ELSE IF /\ status[node] /= "route_solved"
          /\ \E i \in DOMAIN SealedResults : node \in Touched(SealedResults[i])
       THEN "blocked" ELSE status[node]]
Refutes(record, node) ==
  /\ record.channel = "counterexamples" /\ record.outcome = "found"
  /\ record.nodes \subseteq Nodes /\ node \in record.nodes
WithProbes(status) == [node \in Nodes |->
  IF \E i \in DOMAIN rsHistory : Refutes(rsHistory[i], node) THEN "refuted" ELSE status[node]]

\* (A wrong variant: the passes are made in the other order.)
StatusProbesFirst == WithResults(WithProbes(Screened))
Status == WithProbes(WithResults(Screened))

\* What can be reached from some nodes along `needs', a function of all nodes: after
\* as many steps as there are nodes nothing is added any more.
Reach(from, needs) ==
  LET reached[k \in 0..Cardinality(DOMAIN needs)] ==
        IF k = 0 THEN from
        ELSE LET before == reached[k - 1] IN before \cup UNION {needs[n] : n \in before}
  IN reached[Cardinality(DOMAIN needs)]
Closure(nodes) == Reach(nodes, [node \in Nodes |-> Needs(node)])

\* What follows takes the graph's statuses, computed once.
Dependents == [node \in Nodes |-> {n \in Nodes : node \in Needs(n)}]
Tainted(status) == Reach({node \in Nodes : status[node] = "refuted"}, Dependents)
Actionable(status) ==
  {node \in Nodes \ Tainted(status) :
     /\ status[node] \in {"open", "partial", "blocked"}
     /\ node = Target => ActivePlans = {}
     /\ \A need \in Needs(node) : status[need] = "route_solved"}

Candidates(plan) ==
  LET critical == {node \in NodesOf(plan) : Goal(node).critical}
  IN IF critical = {} THEN NodesOf(plan) ELSE critical
Goals(plan) ==
  LET last == {node \in Candidates(plan) : \A n \in Candidates(plan) : node \notin Needs(n)}
  IN IF last = {} THEN NodesOf(plan) ELSE last
\* (A wrong variant: what the goals rest on is not collected.)
RouteCriticalGoals(plan) == Goals(plan)
RouteCritical(plan) == Closure(Goals(plan))
RouteInvalid(plan, status) == RouteCritical(plan) \cap Tainted(status) /= {}
RouteSolved(plan, status) ==
  (\A node \in RouteCritical(plan) : status[node] = "route_solved") /\ ~RouteInvalid(plan, status)
Critical == {Target} \cup UNION {RouteCritical(plan) : plan \in ActivePlans}
Blockers(status) == {node \in Critical : status[node] /= "route_solved"}

----------------------------------------------------------------------------
(* The attempts on record, and the advice.                                 *)

Attempt(node, method, outcome, obstruction) ==
  [node |-> node, method |-> method, outcome |-> outcome, obstruction |-> obstruction]

AttemptsOf(record) ==
  CASE record.channel = "proof_steps" ->
         [i \in 1..Cardinality(DOMAIN record.entries \cap Nodes) |->
            LET node == SetToSeq(DOMAIN record.entries \cap Nodes)[i]
                entry == record.entries[node]
            IN Attempt(node, entry.method,
                       IF entry.status = "solved" THEN "route_solved"
                       ELSE IF entry.status = "partial" THEN "progress" ELSE "failed",
                       entry.obstruction)]
    [] record.channel = "branch_results" ->
         [i \in 1..Cardinality(Touched(record)) |->
            LET node == SetToSeq(Touched(record))[i]
            IN Attempt(node, "synthesis",
                       CASE record.status = "solved" -> "route_solved"
                         [] record.status = "partial" -> "progress"
                         [] record.status = "failed" -> "failed",
                       IF node \in Among(record, record.obstructed) THEN "missing_reference"
                       ELSE IF record.status = "failed" THEN "no_progress" ELSE "none")]
    [] record.channel = "counterexamples" ->
         <<Attempt(IF record.nodes \subseteq Nodes THEN CHOOSE n \in record.nodes : TRUE
                   ELSE Target, "counterexample", record.outcome, "none")>>
    [] record.channel = "events" ->
         <<Attempt(CHOOSE n \in Affected(record) : TRUE, "retrieval", record.outcome, "none")>>
    [] record.channel = "failed_paths" ->
         [i \in 1..Cardinality(Affected(record)) |->
            Attempt(SetToSeq(Affected(record))[i], "synthesis", "failed", "unknown")]

Attempts ==
  FlattenSeq([i \in DOMAIN Channel("proof_steps") |-> AttemptsOf(Channel("proof_steps")[i])])
  \o FlattenSeq([i \in DOMAIN SealedResults |-> AttemptsOf(SealedResults[i])])
  \o FlattenSeq([i \in DOMAIN Channel("counterexamples") |->
                   AttemptsOf(Channel("counterexamples")[i])])
  \o FlattenSeq([i \in DOMAIN Channel("events") |-> AttemptsOf(Channel("events")[i])])
  \o FlattenSeq([i \in DOMAIN Channel("failed_paths") |->
                   AttemptsOf(Channel("failed_paths")[i])])

Count(attempts, Test(_)) == Len(SelectSeq(attempts, Test))
OnNode(attempts, node, Test(_)) ==
  Count(attempts, LAMBDA a : a.node = node /\ Test(a))

RuleHolds(rule, status, attempts) ==
  CASE rule = "R08_ASSEMBLE" -> \E plan \in ActivePlans : RouteSolved(plan, status)
    [] rule = "R01_REPLAN_REFUTED" ->
         /\ \E node \in Critical : status[node] = "refuted"
         /\ \A plan \in ActivePlans : RouteInvalid(plan, status)
    [] rule = "R03_TEST_COUNTEREXAMPLE" -> \E node \in Blockers(status) :
         /\ OnNode(attempts, node, LAMBDA a : a.method = "direct" /\ a.outcome = "failed") >= 2
         /\ OnNode(attempts, node, LAMBDA a : a.method = "counterexample") = 0
    [] rule = "R04_RETRIEVE_FOCUSED" -> \E node \in Blockers(status) :
         /\ OnNode(attempts, node, LAMBDA a : a.obstruction = "missing_reference") > 0
         /\ OnNode(attempts, node, LAMBDA a : a.method = "retrieval") = 0
    [] rule = "R05_STOP_RETRIEVAL" ->
         LET retrievals == SelectSeq(attempts, LAMBDA a : a.method = "retrieval")
         IN /\ Len(retrievals) >= 2
            /\ \A i \in {Len(retrievals) - 1, Len(retrievals)} :
                 retrievals[i].outcome = "inconclusive"
    [] rule = "R06_SCREEN_FRONTIER" -> \E node \in Actionable(status) \cap Critical :
         OnNode(attempts, node, LAMBDA a : TRUE) = 0
    [] rule = "R07_CONSOLIDATE" -> \E node \in Blockers(status) :
         /\ status[node] = "partial"
         /\ OnNode(attempts, node, LAMBDA a : a.method /= "retrieval" /\ a.outcome = "progress") >= 2
    [] rule = "R09_REVIEW_STATE" -> TRUE

Rules == <<"R08_ASSEMBLE", "R01_REPLAN_REFUTED", "R03_TEST_COUNTEREXAMPLE",
           "R04_RETRIEVE_FOCUSED", "R05_STOP_RETRIEVAL", "R06_SCREEN_FRONTIER",
           "R07_CONSOLIDATE", "R09_REVIEW_STATE">>
\* The first rule that holds; the last one always does.
Advice == LET status == Status
              attempts == Attempts
              Holds(i) == RuleHolds(Rules[i], status, attempts)
          IN Rules[CHOOSE i \in DOMAIN Rules : Holds(i) /\ \A j \in 1..(i - 1) : ~Holds(j)]

----------------------------------------------------------------------------
ResearchInit ==
  /\ rsPhase = "propose" /\ rsRound = 0
  /\ rsPlans = [round |-> 0, goals |-> <<>>]
  /\ rsProgress = <<>> /\ rsSealed = {} /\ rsHistory = <<>> /\ rsTask = FALSE

\* next_task: the generator's context is the graph of the whole history.
IssueTask ==
  /\ ~rsTask /\ rsPhase /= "assemble"
  /\ rsPhase \in GeneratorPhases => Readable
  /\ rsTask' = TRUE
  /\ UNCHANGED <<rsPhase, rsRound, rsPlans, rsProgress, rsSealed, rsHistory>>

Record(record) == rsHistory' = Append(rsHistory, record)
OwnNotes == Cardinality({i \in DOMAIN rsHistory : rsHistory[i].channel \in Notes
                                                  /\ rsHistory[i].own})
MayNote == rsTask /\ rsPhase \in GeneratorPhases /\ OwnNotes < MaxNotes

\* A counterexample probe or a retrieval assessment, for a node of the active plans.
Probe(node, outcome) ==
  /\ MayNote /\ node \in Nodes
  /\ Record([channel |-> "counterexamples", own |-> TRUE, nodes |-> {node}, outcome |-> outcome])
  /\ UNCHANGED <<rsPhase, rsRound, rsPlans, rsProgress, rsSealed, rsTask>>
Assess(nodes, outcome) ==
  /\ MayNote /\ nodes \subseteq Nodes
  /\ Record([channel |-> "events", own |-> TRUE, nodes |-> nodes, outcome |-> outcome])
  /\ UNCHANGED <<rsPhase, rsRound, rsPlans, rsProgress, rsSealed, rsTask>>
\* Other channels are stored as they are written.
NoteFailure(nodes) ==
  /\ MayNote
  /\ Record([channel |-> "failed_paths", own |-> TRUE, nodes |-> nodes])
  /\ UNCHANGED <<rsPhase, rsRound, rsPlans, rsProgress, rsSealed, rsTask>>

Propose(proposal) ==
  /\ rsTask /\ rsPhase = "propose" /\ rsRound < MaxResearchRounds
  /\ Acceptable(proposal)
  /\ rsPlans' = [round |-> rsRound + 1, goals |-> proposal]
  /\ rsProgress' = <<>> /\ rsSealed' = {} /\ rsPhase' = "direct" /\ rsTask' = FALSE
  /\ UNCHANGED <<rsRound, rsHistory>>

\* A report may cover some of the goals; the round ends when all are covered.
MergedScreening(report) ==
  LET named == {n \in Nodes : <<n[2], n[3]>> \in DOMAIN report}
  IN [n \in named \cup DOMAIN rsProgress |->
        IF n \in named THEN report[<<n[2], n[3]>>] ELSE rsProgress[n]]

Screen(report) ==
  LET merged == MergedScreening(report)
      complete == DOMAIN merged = Nodes \ {Target}
      solved == \E plan \in ActivePlans : \A n \in NodesOf(plan) : merged[n].status = "solved"
  IN /\ rsTask /\ rsPhase = "direct"
     /\ DOMAIN report \subseteq {<<n[2], n[3]>> : n \in Nodes}
     /\ rsProgress' = merged
     /\ IF complete
        THEN /\ Record([channel |-> "proof_steps", entries |-> merged])
             /\ rsPhase' = IF solved THEN "assemble" ELSE "branches"
             /\ rsRound' = IF solved THEN rsRound ELSE rsRound + 1
             /\ rsTask' = FALSE
        ELSE UNCHANGED <<rsHistory, rsPhase, rsRound, rsTask>>
     /\ UNCHANGED <<rsPlans, rsSealed>>

SealBranch(plan, report) ==
  /\ rsTask /\ rsPhase = "branches" /\ rsSealed = 1..(plan - 1)   \* the next pending
  /\ report.proved \cup report.unproved \cup report.obstructed \subseteq DOMAIN rsPlans.goals[plan]
  /\ report.proved \cap report.unproved = {}
  /\ report.status = "solved" => report.unproved = {} /\ report.obstructed = {}
  /\ Record([channel |-> "branch_results", round |-> rsPlans.round, plan |-> plan,
             status |-> report.status, proved |-> report.proved, unproved |-> report.unproved,
             obstructed |-> report.obstructed])
  /\ rsSealed' = rsSealed \cup {plan}
  /\ rsPhase' = IF rsSealed' = ActivePlans THEN "join" ELSE "branches"
  /\ rsTask' = FALSE
  /\ UNCHANGED <<rsRound, rsPlans, rsProgress>>

\* A synthesis may solve what no single branch solved.
Join(outcome) ==
  /\ rsTask /\ rsPhase = "join" /\ rsTask' = FALSE
  /\ outcome = "failed" => \A i \in DOMAIN SealedResults : SealedResults[i].status /= "solved"
  /\ rsPhase' = IF outcome = "solved" THEN "assemble" ELSE "failures"
  /\ UNCHANGED <<rsRound, rsPlans, rsProgress, rsSealed, rsHistory>>

IdentifyFailures(nodes) ==
  /\ rsTask /\ rsPhase = "failures" /\ nodes /= {} /\ nodes \subseteq Nodes
  /\ Record([channel |-> "failed_paths", own |-> FALSE, nodes |-> nodes])
  /\ rsPhase' = "replan" /\ rsTask' = FALSE
  /\ UNCHANGED <<rsRound, rsPlans, rsProgress, rsSealed>>

Replan ==
  /\ rsTask /\ rsPhase = "replan" /\ rsPhase' = "propose" /\ rsTask' = FALSE
  /\ UNCHANGED <<rsRound, rsPlans, rsProgress, rsSealed, rsHistory>>

ResearchNext ==
  \/ IssueTask
  \/ \E node \in Nodes, outcome \in {"found", "inconclusive"} : Probe(node, outcome)
  \/ \E node \in Nodes, outcome \in {"progress", "inconclusive"} : Assess({node}, outcome)
  \/ \E nodes \in FreeFailures : NoteFailure(nodes)
  \/ \E proposal \in Proposals : Propose(proposal)
  \/ \E report \in Screenings : Screen(report)
  \/ \E plan \in ActivePlans, report \in BranchReports : SealBranch(plan, report)
  \/ \E outcome \in {"solved", "failed"} : Join(outcome)
  \/ \E nodes \in {{Target}} \cup {{node} : node \in Nodes} \cup {Nodes} : IdentifyFailures(nodes)
  \/ Replan

ResearchSpec == ResearchInit /\ [][ResearchNext]_researchVars

----------------------------------------------------------------------------
\* What a client is told about its routes is true of what is on record.  A
\* proof is to be assembled only along a plan of which every critical claim,
\* and everything those rest on, is reported solved and not refuted by an
\* accepted counterexample; and replanning is advised only when every active
\* plan rests on a refuted claim (select_advice).
AdviceIsTrue ==
  Readable =>
    LET advice == Advice
        status == Status
        Whole(plan) == Closure(Candidates(plan))
        Refuted(node) == \E i \in DOMAIN rsHistory :
          /\ rsHistory[i].channel = "counterexamples"
          /\ rsHistory[i].nodes = {node} /\ rsHistory[i].outcome = "found"
    IN /\ advice = "R08_ASSEMBLE" => \E plan \in ActivePlans : \A n \in Whole(plan) :
            status[n] = "route_solved" /\ ~Refuted(n)
       /\ advice = "R01_REPLAN_REFUTED" => \A plan \in ActivePlans : \E n \in Whole(plan) : Refuted(n)

\* Work never disappears from view: while a plan is neither solved nor resting
\* on a refuted claim, some claim of its route can be acted on now, whatever
\* was screened, sealed or refuted; and what can be acted on rests on nothing
\* refuted (project: actionable_frontier).
WorkRemainsVisible ==
  Readable =>
    LET status == Status
        actionable == Actionable(status)
    IN /\ \A plan \in ActivePlans : ~RouteSolved(plan, status) /\ ~RouteInvalid(plan, status)
            => RouteCritical(plan) \cap actionable /= {}
       /\ \A node \in actionable, n \in Nodes : n \in Closure({node}) => status[n] /= "refuted"

\* The advice and the frontier a task carries can be acted upon (view.py).
AdviceIsSound == AdviceIsTrue /\ WorkRemainsVisible

\* A claim that an accepted counterexample refuted stays refuted for as long
\* as its plan is active: no later screening, branch or note brings it back.
RefutationStands ==
  [][rsPlans' = rsPlans /\ Readable /\ Readable' =>
       LET before == Status
           after == Status'
       IN \A node \in Nodes : before[node] = "refuted" => after[node] = "refuted"]_researchVars

\* Whenever the run waits for the generator, its next task can be issued: what
\* was accepted into the history, each record checked against the plans active
\* then, can be read now (normalize_research, called by _task_context).
HistoryStaysReadable == rsPhase \in GeneratorPhases /\ ~rsTask => Readable
=============================================================================
