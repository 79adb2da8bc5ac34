------------------------------- MODULE Values -------------------------------
(***************************************************************************)
(* The signed values of core/model: values that issuers create and owners  *)
(* hand on (issue.go, transfer.go, validate.go).                           *)
(*                                                                         *)
(* The state is the set of valid transactions that exist.  There is no     *)
(* global ledger: nothing marks a value as spent, so every output stays    *)
(* available as an input for ever, and nothing looks up where an input     *)
(* comes from, so values that no transaction gave out are inputs as well.  *)
(* A value is its record (ValueIDFor hashes every field), so equal outputs *)
(* are one value.  A signature is the author of the record that carries    *)
(* it.                                                                     *)
(***************************************************************************)
EXTENDS Integers, FiniteSets, FiniteSetsExt, Functions, Sequences, SequencesExt

CONSTANTS
  Nodes,        \* node ids (public keys)
  NoNode,       \* the id with all bytes zero
  Units,        \* unit ids, hashes of an issuer and a name
  IssuerOf,     \* IssuerOf[u]: the issuer whose key went into u
  Expiries,     \* expiry times that occur, 0 for "never"
  Never,        \* the expiry 0
  MaxAmount,    \* the largest Amount (2^63 - 1 in the code)
  MaxUint32,    \* the largest Depth (2^32 - 1 in the code)
  MaxInputs,    \* bound on the inputs that a caller passes
  MaxOutputs,   \* bound on the outputs that it asks for
  Drafts,       \* the outputs that callers ask for or are shown
  Issuances,    \* what issuers issue: unit, owner, amount and expiry
  Presented,    \* values presented as inputs, whoever gave them out, if anybody
  MaxIssues,    \* bound on the number of issued values
  MaxTransactions \* bound on the number of issued values and transfers

Amounts == 1 .. MaxAmount  \* validAmount
Depths == 0 .. MaxUint32

\* CreatedAt is left out: the constructors here leave it zero.
Value ==
  [unit : Units, issuer : Nodes, owner : Nodes, amount : Amounts,
   expiry : Expiries, depth : Depths]

\* What a caller may ask for as an output: any issuer, and the zero owner too.
Draft ==
  [unit : Units, issuer : Nodes, owner : Nodes \cup {NoNode},
   amount : Int, expiry : Expiries, depth : Depths]

ASSUME ConstantsAssumption ==
  /\ NoNode \notin Nodes
  /\ IssuerOf \in [Units -> Nodes]
  /\ Drafts \subseteq Draft
  /\ Never = 0 /\ Never \in Expiries /\ Expiries \subseteq Nat
  /\ MaxAmount \in Nat \ {0} /\ MaxUint32 \in Nat
  /\ Issuances \subseteq
       [unit : Units, owner : Nodes, amount : Amounts, expiry : Expiries]
  /\ Presented \subseteq Value
  /\ MaxInputs \in Nat /\ MaxOutputs \in Nat
  /\ MaxIssues \in Nat /\ MaxTransactions \in Nat

VARIABLES
  issued,    \* the outputs of the issue transactions that exist
  transfers  \* the transfer transactions that exist

vars == <<issued, transfers>>

\* The values that the transactions gave out.
Circulating == issued \cup UNION {Range(t.outputs) : t \in transfers}

\* The values that somebody can present as inputs: ValidateTransferTx asks that
\* an input hashes to its id and belongs to the author, not that it was given
\* out.
Presentable == Presented \cup Circulating

-----------------------------------------------------------------------------
(***************************************************************************)
(* Amounts                                                                 *)
(***************************************************************************)
Overflow == -1

SaturatingAdd(a, b) == IF a + b > MaxAmount THEN MaxAmount ELSE a + b
CheckedAdd(a, b) == IF a + b > MaxAmount THEN Overflow ELSE a + b

\* A running sum with CheckedAdd; the first overflow is the result.
CheckedSum(amounts) ==
  FoldSeq(LAMBDA x, sum : IF sum = Overflow THEN sum ELSE CheckedAdd(sum, x),
          0, amounts)

TrueSum(amounts) == FoldSeq(+, 0, amounts)

AmountOf(v, unit) == IF v.unit = unit THEN v.amount ELSE 0
AmountsOf(values, unit) == [i \in DOMAIN values |-> AmountOf(values[i], unit)]

-----------------------------------------------------------------------------
(***************************************************************************)
(* Issue transactions                                                      *)
(***************************************************************************)
\* NewIssueTx: what an issuer signs.  ValidateIssueTx accepts exactly the
\* transactions of this form, whose one output repeats the signed fields.
NewIssueTx(i) ==
  [unit |-> i.unit, issuer |-> IssuerOf[i.unit], owner |-> i.owner,
   amount |-> i.amount, expiry |-> i.expiry, depth |-> 0]

\* ValidateIssueTx of a signer's transaction and the value shown with it: the
\* unit is the issuer's own, and the output agrees with the signed fields.
ValidateIssueTx(signer, output) ==
  /\ IssuerOf[output.unit] = signer
  /\ output.issuer = signer
  /\ output.owner # NoNode
  /\ output.amount \in Amounts
  /\ output.depth = 0

-----------------------------------------------------------------------------
(***************************************************************************)
(* Transfer transactions                                                   *)
(***************************************************************************)
\* canonicalInputsForTransfer: no value is an input twice.
Unique(inputs) == IsInjective(inputs)

\* nextTransferDepth: one more than the deepest input in uint32 arithmetic, and
\* an error instead of zero.
NoDepthLimit(inputs) == FALSE
DepthLimitReached(inputs) == \E v \in inputs : v.depth = MaxUint32
NextDepth(inputs) == (Max({v.depth : v \in inputs}) + 1) % (MaxUint32 + 1)

SameKind(v, w) == v.unit = w.unit /\ v.issuer = w.issuer

\* The expiry dates, other than "never", of the inputs that o is made of.
Deadlines(inputs, o) == {v.expiry : v \in {w \in inputs : SameKind(w, o)}} \ {Never}

LatestExpiry(inputs, o) ==
  IF Deadlines(inputs, o) = {} THEN o.expiry
  ELSE IF o.expiry = Never \/ o.expiry > Max(Deadlines(inputs, o))
       THEN Max(Deadlines(inputs, o)) ELSE o.expiry
\* normalizeTransferOutputExpiries: an output expires no later than the first
\* of the inputs of its unit and issuer.
NormalizedExpiry(inputs, o) ==
  IF Deadlines(inputs, o) = {} THEN o.expiry
  ELSE IF o.expiry = Never \/ o.expiry > Min(Deadlines(inputs, o))
       THEN Min(Deadlines(inputs, o)) ELSE o.expiry

ExpiryNotExtended(inputs, o) ==
  Deadlines(inputs, o) # {} => o.expiry <= Min(Deadlines(inputs, o))
\* checkExpiryPropagation, for one output.
ExpiryPropagates(inputs, o) ==
  \A deadline \in Deadlines(inputs, o) : o.expiry # Never /\ o.expiry <= deadline

\* checkConservation, for one output: its unit is among the inputs, with the
\* same issuer.
KnownKind(inputs, o) == \E v \in inputs : SameKind(v, o)

\* checkConservation: one issuer per unit, and the same total of every unit on
\* both sides.  The sum of the inputs is checked for overflow; an output is
\* taken from what is left of it and cannot overflow.
Conserves(inputs, outputs) ==
  /\ \A v, w \in Range(inputs) : v.unit = w.unit => v.issuer = w.issuer
  /\ \A unit \in {v.unit : v \in Range(inputs)} :
       LET given == CheckedSum(AmountsOf(inputs, unit))
       IN  given # Overflow /\ given = TrueSum(AmountsOf(outputs, unit))

OutputWithoutOwnerValid(inputs, o) ==
  /\ o.amount \in Amounts
  /\ KnownKind(inputs, o)
  /\ o.depth = NextDepth(inputs)
  /\ ExpiryPropagates(inputs, o)
\* Whether an output of a transfer is acceptable whatever the others are.
OutputValid(inputs, o) ==
  /\ o.amount \in Amounts
  /\ o.owner # NoNode
  /\ KnownKind(inputs, o)
  /\ o.depth = NextDepth(inputs)
  /\ ExpiryPropagates(inputs, o)

\* ValidateTransferTx, for a transaction whose author signed it.
ValidateTransferTx(tx) ==
  LET inputs == Range(tx.inputs)
  IN  /\ tx.inputs # <<>> /\ tx.outputs # <<>>
      /\ Unique(tx.inputs)
      /\ \A v \in inputs : v.owner = tx.author
      /\ ~DepthLimitReached(inputs)
      /\ \A o \in Range(tx.outputs) : OutputValid(inputs, o)
      /\ Conserves(tx.inputs, tx.outputs)

\* NewTransferTx sets the depth and the expiry of each output ...
Normalized(inputs, o) ==
  [o EXCEPT !.depth = NextDepth(inputs), !.expiry = NormalizedExpiry(inputs, o)]

\* ... and makes the transaction unless one of its checks fails.
NewTransferTxSucceeds(tx) ==
  LET inputs == Range(tx.inputs)
  IN  /\ tx.inputs # <<>> /\ tx.outputs # <<>>
      /\ Unique(tx.inputs)
      /\ \A v \in inputs : v.owner = tx.author
      /\ ~DepthLimitReached(inputs)
      /\ \A o \in Range(tx.outputs) :
           /\ o.owner # NoNode /\ o.amount \in Amounts
           /\ KnownKind(inputs, o)
      /\ Conserves(tx.inputs, tx.outputs)

-----------------------------------------------------------------------------
Init == issued = {} /\ transfers = {}

MayIssue ==
  /\ Cardinality(issued) < MaxIssues
  /\ Cardinality(issued) + Cardinality(transfers) < MaxTransactions

\* An issuer makes a value.
Issue(i) ==
  /\ MayIssue
  /\ issued' = issued \cup {NewIssueTx(i)}
  /\ UNCHANGED transfers

\* A node is shown a value and a transaction of some signer with the same
\* fields, and checks them.  (Only what is issued at all is shown.)
ReceiveIssue(signer, output) ==
  /\ MayIssue
  /\ Restrict(output, {"unit", "owner", "amount", "expiry"}) \in Issuances
  /\ ValidateIssueTx(signer, output)
  /\ issued' = issued \cup {output}
  /\ UNCHANGED transfers

Add(tx) ==
  /\ transfers' = transfers \cup {tx}
  /\ UNCHANGED issued

\* An author makes a transfer of the normalised drafts.
Transfer(tx) == NewTransferTxSucceeds(tx) /\ Add(tx)

\* A node is shown a transfer that its author signed without NewTransferTx:
\* any depths, any expiries.
ReceiveTransfer(tx) == ValidateTransferTx(tx) /\ Add(tx)

Held(author) == {v \in Presentable : v.owner = author}

\* The drafts that are worth normalising: NewTransferTx refuses the others.
Sensible(inputs) ==
  {d \in Drafts : d.owner # NoNode /\ d.amount \in Amounts /\ KnownKind(inputs, d)}

Tx(author, inputs, outputs) ==
  [author |-> author, inputs |-> inputs, outputs |-> outputs]

Next ==
  \/ \E i \in Issuances : Issue(i)
  \/ \E signer \in Nodes, output \in Drafts : ReceiveIssue(signer, output)
  \/ /\ Cardinality(issued) + Cardinality(transfers) < MaxTransactions
     /\ \E author \in Nodes : \E inputs \in BoundedSeq(Held(author), MaxInputs) :
          LET values == Range(inputs)
          IN  \/ \E outputs \in
                    BoundedSeq({Normalized(values, d) : d \in Sensible(values)}, MaxOutputs) :
                   Transfer(Tx(author, inputs, outputs))
              \/ \E outputs \in
                    BoundedSeq({o \in Drafts : OutputValid(values, o)}, MaxOutputs) :
                   ReceiveTransfer(Tx(author, inputs, outputs))

Spec == Init /\ [][Next]_vars

-----------------------------------------------------------------------------
Transactions == [author : Nodes, inputs : Seq(Value), outputs : Seq(Value)]

\* Every value given out has a positive amount, an owner, and a depth that
\* fits; a transaction has inputs and outputs.
TypeOK == issued \subseteq Value /\ transfers \subseteq Transactions

\* What NewTransferTx makes, every node accepts: its normalisation of depths and
\* expiries (transfer.go) agrees with the checks of ValidateTransferTx
\* (validate.go), two pieces of code that are written twice.
MadeTransfersAreValid == [][\A t \in transfers' \ transfers : ValidateTransferTx(t)]_vars

\* The inputs that no transaction gave out.
Foreign == (UNION {Range(t.inputs) : t \in transfers}) \ Circulating

\* What every chain of transfers starts from.
Roots == issued \cup Foreign

\* No chain of transfers extends an expiry: whatever is merged, split or handed
\* on, an output stands on a value of its unit and issuer that was issued, or
\* brought in from outside, and that expires no earlier and is no deeper.
ExpiryLineage ==
  \A v \in Circulating : \E w \in Roots :
    /\ SameKind(v, w) /\ w.depth <= v.depth
    /\ w.expiry # Never => v.expiry # Never /\ v.expiry <= w.expiry

\* A value that looks fresh from its issuer (depth 0) is: the depth of transfers
\* never wraps around, it ends the chain.
FreshValuesAreIssued == \A v \in Circulating : v.depth = 0 => v \in issued

\* A transfer hands on exactly what it takes, in the integers: no sum that
\* exceeds an int64, no repeated input and no unit under a second issuer makes
\* the outputs worth more or less than the inputs.
TransfersConserve ==
  \A t \in transfers, unit \in Units :
    LET inputs == Range(t.inputs)
    IN  SumFunctionOnSet([v \in inputs |-> AmountOf(v, unit)], inputs)
          = TrueSum(AmountsOf(t.outputs, unit))
=============================================================================
