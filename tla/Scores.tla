------------------------------- MODULE Scores -------------------------------
(***************************************************************************)
(* Acceptance scores (core/sim: dynamics.go, topology.go, asset.go): what  *)
(* the nodes of a simulation think of one asset, and how that moves.       *)
(*                                                                         *)
(* A score is a float64 in [0, 1] in the code.  Here it is a number of     *)
(* hundredths, and a computed score is rounded to one: down where only     *)
(* bounds are asked of it, either way where it is compared with a          *)
(* threshold, which an exactly equal float64 result may miss.              *)
(***************************************************************************)
EXTENDS Integers, FiniteSets, FiniteSetsExt

One == 100  \* the score 1.0, and the weight, share or rate 1.0
Score == 0 .. One

Clamp01(x) == IF x < 0 THEN 0 ELSE IF x > One THEN One ELSE x

\* A score moves the part alpha of its way to a goal, rounded down.
Toward(alpha, score, goal) == Clamp01(score + (alpha * (goal - score)) \div One)

\* The same where the result meets a threshold.  In float64 it lies on either
\* side of the exact one (0.7 + (0.1 - 0.7) < 0.1), but it never leaves score in
\* the other direction.  What slip adds, in steps of a hundredth, covers both.
Slip == {-1, 0, 1}
TowardRounded(alpha, score, goal, slip) ==
  LET moved == Clamp01(score + (alpha * (goal - score)) \div One + slip)
  IN  CASE alpha * (goal - score) > 0 -> Max({score, moved})
        [] alpha * (goal - score) < 0 -> Min({score, moved})
        [] OTHER -> score

-----------------------------------------------------------------------------
\* Neighbours by the name of the topology.  Nodes are numbered in the order of
\* their ids.
Topology(name, nodes, clusters) ==
  CASE name = "full"      -> [n \in nodes |-> nodes \ {n}]
    [] name = "chain"     -> [n \in nodes |-> nodes \cap {n - 1, n + 1}]
    [] name = "clustered" -> [n \in nodes |-> (UNION {c \in clusters : n \in c}) \ {n}]

Mean(scores, S) == SumFunctionOnSet(scores, S) \div Cardinality(S)

\* StepMarketTopology: each node moves towards its neighbourhood, itself included.
StepMarketTopology(alpha, scores, near) ==
  [n \in DOMAIN scores |-> Toward(alpha, scores[n], Mean(scores, near[n] \cup {n}))]

\* BinaryAcceptanceRatio among the nodes S.
Accepting(scores, S, tau) == {n \in S : scores[n] >= tau}
Ratio(scores, S, tau) ==
  IF S = {} THEN 0
  ELSE (One * Cardinality(Accepting(scores, S, tau))) \div Cardinality(S)

\* The steps below round every node's result by its own slip.
StepByOthers(alpha, scores, tau, slip) ==
  [n \in DOMAIN scores |->
     TowardRounded(alpha, scores[n], Ratio(scores, DOMAIN scores \ {n}, tau), slip[n])]
\* StepAcceptance: every node moves towards the share of all that accept.
StepAcceptance(alpha, scores, tau, slip) ==
  [n \in DOMAIN scores |->
     TowardRounded(alpha, scores[n], Ratio(scores, DOMAIN scores, tau), slip[n])]

\* StepLocalAcceptance: towards the share of the neighbourhood.
StepLocalAcceptance(alpha, scores, near, tau, includeSelf, slip) ==
  [n \in DOMAIN scores |->
     LET around == IF includeSelf THEN near[n] \cup {n} ELSE near[n]
     IN  TowardRounded(alpha, scores[n], Ratio(scores, around, tau), slip[n])]
=============================================================================
