----------------------------- MODULE MCNodeTrade -----------------------------
(* The instances of NodeTrade that TLC checks. *)
EXTENDS NodeTrade, TLC

CONSTANTS n1, n2, n3, e1, e2, gold, silver, a1, a2, a3, p1

Sale(seller, sellUnit, sellAmount, buyer, buyUnit, buyAmount) ==
  [seller |-> seller, buyer |-> buyer, sellUnit |-> sellUnit,
   buyUnit |-> buyUnit, sellAmount |-> sellAmount, buyAmount |-> buyAmount,
   timestamp |-> 1]

\* Three nodes of one store; n2 is a party of both trades.
StoredRank == n1 :> 1 @@ n2 :> 2 @@ n3 :> 3
StoredTerms == a1 :> Sale(n2, gold, 1, n1, silver, 1)
               @@ a2 :> Sale(n3, silver, 1, n2, gold, 1)

\* Two nodes of one store and two without: a signed trade of either pair, a
\* one-sided one that requireDurableReplayGuard refuses, and an unsigned one.
MixedRank == n1 :> 2 @@ n2 :> 4 @@ e1 :> 1 @@ e2 :> 3
MixedTerms == a1 :> Sale(e1, gold, 1, e2, silver, 1)
              @@ a2 :> Sale(n2, gold, 1, n1, silver, 1)
              @@ a3 :> Sale(n1, silver, 1, e2, gold, 1)
              @@ p1 :> Sale(e2, gold, 1, e1, silver, 1)
=============================================================================
