------------------------------ MODULE MCValues ------------------------------
(* The instance of Values, Policy and Inventories that TLC checks. *)
EXTENDS Policy, Inventories, TLC

CONSTANTS a, b, none, ua, ub

TwoIssuers == ua :> a @@ ub :> b

\* Two issuers' units; outputs of a wrong issuer or without an owner included.
SomeDrafts ==
  [unit : {ua, ub}, issuer : {a, b}, owner : {a, b, none},
   amount : 1 .. 3, expiry : {0, 1, 2}, depth : 0 .. 2]

\* Everything is issued to one node, one at a time.
SomeIssuances ==
  [unit : {ua}, owner : {a}, amount : {1}, expiry : {0, 1, 2}]
    \cup [unit : {ub}, owner : {a}, amount : {1}, expiry : {0}]

\* One that could stand on an issue of a, one that a third party passed on and that
\* names a as the issuer of b's unit.
SomePresented ==
  {[unit |-> ua, issuer |-> a, owner |-> a, amount |-> 2, expiry |-> 2, depth |-> 1],
   [unit |-> ub, issuer |-> a, owner |-> b, amount |-> 1, expiry |-> 0, depth |-> 0]}

Policy(trust, minScore, maxDepth) ==
  [trust |-> trust, minScore |-> minScore, maxDepth |-> maxDepth]

\* One that knows one issuer, one that knows both and trusts one of them
\* enough, and one that accepts a single hand-over.
SomePolicies ==
  {Policy(a :> 2, 1, 2), Policy(a :> 2 @@ b :> 1, 2, 2), Policy(a :> 2 @@ b :> 1, 1, 1)}
=============================================================================
