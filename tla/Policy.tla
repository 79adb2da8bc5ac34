------------------------------- MODULE Policy -------------------------------
(***************************************************************************)
(* The local trust policy of a node (core/policy/policy.go) over the       *)
(* transactions of Values.  A policy only answers: it keeps no state, and  *)
(* the time it is asked at is a parameter here.                            *)
(***************************************************************************)
EXTENDS Values

CONSTANTS
  Policies,  \* the policies of the nodes
  Times      \* the times at which they are asked

\* A policy: the trust in each known issuer, the least score and the greatest
\* depth that it accepts.
IsPolicy(p) ==
  /\ DOMAIN p.trust \subseteq Nodes
  /\ \A n \in DOMAIN p.trust : p.trust[n] \in Nat
  /\ p.minScore \in Nat /\ p.maxDepth \in Depths

ASSUME PolicyAssumption == Times \subseteq Nat /\ \A p \in Policies : IsPolicy(p)

\* isExpired: a value is good until the second before its expiry.
Expired(v, now) == v.expiry # Never /\ v.expiry <= now

\* Not expired, and handed on no more often than the policy allows.
Usable(p, v, now) == ~Expired(v, now) /\ v.depth <= p.maxDepth

Trusted(p, v) == v.issuer \in DOMAIN p.trust

\* EvaluateIssue = Accept, for a validated issue.
AcceptsIssue(p, v, now) ==
  Usable(p, v, now) /\ Trusted(p, v) /\ p.trust[v.issuer] >= p.minScore

AcceptsBestInput(p, tx, now) ==
  /\ ValidateTransferTx(tx)
  /\ \A v \in Range(tx.inputs) : Usable(p, v, now) /\ Trusted(p, v)
  /\ \A v \in Range(tx.outputs) : Usable(p, v, now)
  /\ Max({p.trust[v.issuer] : v \in Range(tx.inputs)}) >= p.minScore
AcceptsAnyOutput(p, tx, now) ==
  /\ ValidateTransferTx(tx)
  /\ \A v \in Range(tx.inputs) : Usable(p, v, now) /\ Trusted(p, v)
  /\ Min({p.trust[v.issuer] : v \in Range(tx.inputs)}) >= p.minScore
\* EvaluateTransfer = Accept.  The score of a transfer is the least trust among
\* the issuers of its inputs.
AcceptsTransfer(p, tx, now) ==
  /\ ValidateTransferTx(tx)
  /\ \A v \in Range(tx.inputs) : Usable(p, v, now) /\ Trusted(p, v)
  /\ \A v \in Range(tx.outputs) : Usable(p, v, now)
  /\ Min({p.trust[v.issuer] : v \in Range(tx.inputs)}) >= p.minScore

-----------------------------------------------------------------------------
\* The values that a policy lets into circulation at some time.
AcceptedValues(p, now) ==
  {v \in issued : AcceptsIssue(p, v, now)}
    \cup UNION {Range(t.outputs) : t \in {u \in transfers : AcceptsTransfer(p, u, now)}}

\* What a policy accepts stands on trust: after any number of transfers, mixed
\* with values of other issuers and made by authors who trust others, it descends
\* from a value of the same unit and issuer that has not expired and that names
\* an issuer whom the policy trusts enough.  EvaluateTransfer never looks at the
\* issuers of the outputs: conservation must tie them to the inputs.  Naming is
\* all there is to it.  Whether that issuer signed an issue of the value, neither
\* ValidateTransferTx nor EvaluateTransfer asks, and w may be Foreign.
AcceptedStandsOnTrust ==
  \A p \in Policies, now \in Times : \A v \in AcceptedValues(p, now) :
    \E w \in Roots :
      /\ SameKind(v, w) /\ ~Expired(w, now)
      /\ w.issuer \in DOMAIN p.trust /\ p.trust[w.issuer] >= p.minScore

HandOver(v, receiver) ==
  [author |-> v.owner, inputs |-> <<v>>,
   outputs |-> <<[v EXCEPT !.owner = receiver, !.depth = v.depth + 1]>>]

\* Nothing that a policy accepts is a dead end: at the same time and under the
\* same policy its owner can hand it on whole, unless that exceeds the depth.
AcceptedCanMoveOn ==
  \A p \in Policies, now \in Times : \A v \in AcceptedValues(p, now) :
    v.depth < p.maxDepth =>
      \A receiver \in Nodes : AcceptsTransfer(p, HandOver(v, receiver), now)
=============================================================================
