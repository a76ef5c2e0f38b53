----------------------------- MODULE GoalGraph -----------------------------
(***************************************************************************)
(* The two searches of a dependency graph, as the code runs them: the      *)
(* depth-first one that refuses a decomposition, and the one that collects *)
(* what a node rests on.  Both are compared with what Research says of     *)
(* their results, on every graph of up to three goals, with a key that     *)
(* names no goal among the needs.                                          *)
(***************************************************************************)
EXTENDS Research

\* visit: depth first, with the keys finished and those being visited.
RECURSIVE Visit(_, _, _, _)
Visit(goals, key, visited, visiting) ==
  IF key \in visited THEN [ok |-> TRUE, visited |-> visited]
  ELSE IF key \in visiting \/ key \notin DOMAIN goals
  THEN [ok |-> FALSE, visited |-> visited]
  ELSE LET needs == FoldLeft(LAMBDA acc, need : IF acc.ok
                                THEN Visit(goals, need, acc.visited, visiting \cup {key})
                                ELSE acc,
                             [ok |-> TRUE, visited |-> visited], SetToSeq(goals[key].needs))
       IN [needs EXCEPT !.visited = @ \cup {key}]

VisitAccepts(goals) ==
  FoldLeft(LAMBDA acc, key : IF acc.ok THEN Visit(goals, key, acc.visited, {}) ELSE acc,
           [ok |-> TRUE, visited |-> {}], [i \in DOMAIN goals |-> i]).ok

\* _closure: nodes are taken from the end of `pending'.
RECURSIVE Found(_, _, _)
Found(pending, found, needs) ==
  IF pending = <<>> THEN found
  ELSE IF Last(pending) \in found THEN Found(Front(pending), found, needs)
  ELSE Found(Front(pending) \o SetToSeq(needs[Last(pending)]), found \cup {Last(pending)}, needs)

SmallGraphs ==
  UNION { [1..n -> [needs : SUBSET (1..4), critical : {TRUE}]] : n \in 1..3 }

ASSUME SearchesAreExact ==
  \A goals \in SmallGraphs :
    /\ VisitAccepts(goals) <=> ValidLocalGraph(goals)
    /\ LET all == DOMAIN goals
           needs == [key \in all |-> goals[key].needs \cap all]
       IN \A key \in all : Found(<<key>>, {}, needs) = Reach({key}, needs)
=============================================================================
