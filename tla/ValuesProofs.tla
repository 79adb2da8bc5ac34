---------------------------- MODULE ValuesProofs ----------------------------
(***************************************************************************)
(* Theorems about Values, Policy and Inventories for any nodes, units and  *)
(* policies, any limits of the integer types and any number of             *)
(* transactions with any number of inputs and outputs.                     *)
(***************************************************************************)
EXTENDS Policy, Inventories, Sums

(***************************************************************************)
(* What a transfer does to one output.                                     *)
(***************************************************************************)
\* Below the limit the depth of an output does not wrap around: it exceeds that
\* of every input.
LEMMA NextDepthFacts ==
  ASSUME NEW I \in SUBSET Value, I # {}, ~DepthLimitReached(I)
  PROVE  /\ NextDepth(I) \in Depths \ {0}
         /\ \A v \in I : v.depth < NextDepth(I)
<1> DEFINE D == {v.depth : v \in I}
<1>1. D \in SUBSET (0 .. MaxUint32) /\ D # {}
  BY DEF Value, Depths
<1>2. MaxUint32 \in Nat
  BY ConstantsAssumption
<1>3. Max(D) \in D /\ \A d \in D : d <= Max(D)
  BY <1>1, <1>2, MaxFacts
<1>4. Max(D) \in 0 .. MaxUint32 /\ Max(D) # MaxUint32
  BY <1>1, <1>3 DEF DepthLimitReached
<1>5. (Max(D) + 1) % (MaxUint32 + 1) = Max(D) + 1
  <2> DEFINE k == Max(D) + 1
  <2>1. k \in Nat /\ k < MaxUint32 + 1
    BY <1>2, <1>4
  <2> HIDE DEF k
  <2>2. k % (MaxUint32 + 1) = k
    BY <1>2, <2>1
  <2>3. QED
    BY <2>2 DEF k
<1>6. \A v \in I : v.depth \in Nat /\ v.depth <= Max(D)
  BY <1>1, <1>3
<1>7. NextDepth(I) = Max(D) + 1
  BY <1>5 DEF NextDepth
<1> HIDE DEF D
<1>8. QED
  BY <1>2, <1>4, <1>6, <1>7 DEF Depths

LEMMA DeadlinesAreTimes ==
  ASSUME NEW I \in SUBSET Value, NEW o
  PROVE  Deadlines(I, o) \in SUBSET (Expiries \ {Never}) /\ Deadlines(I, o) \in SUBSET Nat
<1>1. \A v \in I : v.expiry \in Expiries
  BY DEF Value
<1>2. Deadlines(I, o) \subseteq Expiries \ {Never}
  BY <1>1 DEF Deadlines
<1>3. Expiries \subseteq Nat
  BY ConstantsAssumption
<1>4. QED
  BY <1>2, <1>3

\* The constructor's normalisation (transfer.go) passes the validator's check
\* (validate.go).
LEMMA NormalizedPropagates ==
  ASSUME NEW I \in SUBSET Value, NEW d \in Draft
  PROVE  LET o == Normalized(I, d)
         IN  o.expiry \in Expiries /\ ExpiryPropagates(I, o)
<1> DEFINE o == Normalized(I, d)
           E == Deadlines(I, d)
<1>1. /\ o.expiry = NormalizedExpiry(I, d) /\ o.depth = NextDepth(I)
      /\ o.unit = d.unit /\ o.issuer = d.issuer
  BY DEF Normalized, Draft
<1>2. Deadlines(I, o) = E
  BY <1>1 DEF Deadlines, SameKind
<1>3. E \in SUBSET (Expiries \ {Never}) /\ E \in SUBSET Nat
  BY DeadlinesAreTimes
<1>4. d.expiry \in Expiries /\ d.expiry \in Nat
  BY ConstantsAssumption DEF Draft
<1>5. CASE E = {}
  BY <1>1, <1>2, <1>4, <1>5 DEF NormalizedExpiry, ExpiryPropagates
<1>6. CASE E # {}
  <2>1. Min(E) \in E /\ \A n \in E : Min(E) <= n
    BY <1>3, <1>6, MinFacts
  <2>2. NormalizedExpiry(I, d) \in Expiries \ {Never} /\ NormalizedExpiry(I, d) <= Min(E)
    BY <1>3, <1>4, <1>6, <2>1 DEF NormalizedExpiry
  <2>3. NormalizedExpiry(I, d) \in Nat /\ Min(E) \in Nat
    <3>1. Expiries \subseteq Nat
      BY ConstantsAssumption
    <3>2. QED
      BY <1>3, <2>1, <2>2, <3>1
  <2>4. \A n \in E : NormalizedExpiry(I, d) <= n
    BY <1>3, <2>3, <2>1, <2>2
  <2>5. QED
    BY <1>1, <1>2, <2>2, <2>4 DEF ExpiryPropagates
<1>7. QED
  BY <1>5, <1>6

LEMMA MadeOutputValid ==
  ASSUME NEW I \in SUBSET Value, NEW d \in Sensible(I), ~DepthLimitReached(I)
  PROVE  Normalized(I, d) \in Value /\ OutputValid(I, Normalized(I, d))
<1> DEFINE o == Normalized(I, d)
<1>1. d \in Draft /\ d.owner # NoNode /\ d.amount \in Amounts /\ KnownKind(I, d)
  BY ConstantsAssumption DEF Sensible
<1>2. o.expiry \in Expiries /\ ExpiryPropagates(I, o)
  BY <1>1, NormalizedPropagates
<1>3. I # {}
  BY <1>1 DEF KnownKind
<1>4. NextDepth(I) \in Depths
  BY <1>3, NextDepthFacts
<1>5. o = [d EXCEPT !.depth = NextDepth(I), !.expiry = NormalizedExpiry(I, d)]
  BY DEF Normalized
<1>6. /\ o.unit = d.unit /\ o.issuer = d.issuer /\ o.owner = d.owner
      /\ o.amount = d.amount /\ o.depth = NextDepth(I)
  BY <1>1, <1>5 DEF Draft
<1>7. KnownKind(I, o)
  BY <1>1, <1>6 DEF KnownKind, SameKind
<1>8. o \in Value
  <2>1. o \in [unit : Units, issuer : Nodes, owner : Nodes, amount : Amounts,
               expiry : Expiries, depth : Depths]
    <3>1. o.expiry = NormalizedExpiry(I, d)
      BY <1>1, <1>5 DEF Draft
    <3>2. NormalizedExpiry(I, d) \in Expiries
      BY <3>1, <1>2
    <3> HIDE DEF o
    <3>3. QED
      BY <1>1, <1>4, <1>5, <3>2 DEF Draft
  <2>2. QED
    BY <2>1 DEF Value
<1>9. QED
  BY <1>1, <1>2, <1>6, <1>7, <1>8 DEF OutputValid

LEMMA ShownOutputValid ==
  ASSUME NEW I, NEW o \in Drafts, OutputValid(I, o)
  PROVE  o \in Value
<1>1. o \in Draft
  BY ConstantsAssumption
<1>2. QED
  BY <1>1 DEF OutputValid, Draft, Value

LEMMA ListMembers ==
  ASSUME NEW S, NEW n \in Nat, NEW list \in BoundedSeq(S, n)
  PROVE  list \in Seq(S) /\ Range(list) \subseteq S
<1>1. PICK m \in 0 .. n : list \in [1 .. m -> S]
  BY DEF BoundedSeq, SeqOf
<1>2. QED
  BY <1>1 DEF Range

\* A transaction that may be added: it is valid, and its inputs are values.
Acceptable(tx) ==
  /\ tx \in Transactions
  /\ ValidateTransferTx(tx)
  /\ Range(tx.inputs) \subseteq Value /\ Range(tx.outputs) \subseteq Value

LEMMA CirculatingType ==
  ASSUME TypeOK
  PROVE  Circulating \subseteq Value
<1>1. \A t \in transfers : Range(t.outputs) \subseteq Value
  BY DEF TypeOK, Transactions, Range
<1>2. QED
  BY <1>1 DEF Circulating, TypeOK

LEMMA PresentableType ==
  ASSUME TypeOK
  PROVE  Presentable \subseteq Value
BY CirculatingType, ConstantsAssumption DEF Presentable

LEMMA TransferAcceptable ==
  ASSUME TypeOK, NEW author \in Nodes,
         NEW inputs \in BoundedSeq(Held(author), MaxInputs), NEW outputs,
         LET values == Range(inputs)
         IN  \/ /\ outputs \in
                      BoundedSeq({Normalized(values, d) : d \in Sensible(values)}, MaxOutputs)
                /\ NewTransferTxSucceeds(Tx(author, inputs, outputs))
             \/ /\ outputs \in
                      BoundedSeq({o \in Drafts : OutputValid(values, o)}, MaxOutputs)
                /\ ValidateTransferTx(Tx(author, inputs, outputs))
  PROVE  Acceptable(Tx(author, inputs, outputs))
<1> DEFINE I == Range(inputs)
           tx == Tx(author, inputs, outputs)
<1>1. MaxInputs \in Nat /\ MaxOutputs \in Nat
  BY ConstantsAssumption
<1>2. Held(author) \subseteq Value
  BY PresentableType DEF Held
<1>3. inputs \in Seq(Held(author)) /\ I \subseteq Held(author)
  BY <1>1, ListMembers
<1>4. inputs \in Seq(Value) /\ I \in SUBSET Value
  BY <1>2, <1>3
<1>5. tx.author = author /\ tx.inputs = inputs /\ tx.outputs = outputs
  BY DEF Tx
<1>6. ValidateTransferTx(tx) /\ outputs \in Seq(Value) /\ Range(outputs) \subseteq Value
  <2>1. CASE /\ outputs \in BoundedSeq({Normalized(I, d) : d \in Sensible(I)}, MaxOutputs)
             /\ NewTransferTxSucceeds(tx)
    <3> DEFINE O == {Normalized(I, d) : d \in Sensible(I)}
    <3>1. outputs \in Seq(O) /\ Range(outputs) \subseteq O
      BY <1>1, <2>1, ListMembers
    <3>2. ~DepthLimitReached(I)
      BY <1>5, <2>1 DEF NewTransferTxSucceeds
    <3>3. \A o \in O : o \in Value /\ OutputValid(I, o)
      BY <1>4, <3>2, MadeOutputValid
    <3> HIDE DEF O
    <3>4. \A o \in Range(outputs) : OutputValid(I, o)
      BY <3>1, <3>3
    <3>5. ValidateTransferTx(tx)
      BY <1>5, <2>1, <3>4 DEF NewTransferTxSucceeds, ValidateTransferTx
    <3>6. outputs \in Seq(Value) /\ Range(outputs) \subseteq Value
      BY <3>1, <3>3
    <3>7. QED
      BY <3>5, <3>6
  <2>2. CASE /\ outputs \in BoundedSeq({o \in Drafts : OutputValid(I, o)}, MaxOutputs)
             /\ ValidateTransferTx(tx)
    <3> DEFINE O == {o \in Drafts : OutputValid(I, o)}
    <3>1. outputs \in Seq(O) /\ Range(outputs) \subseteq O
      BY <1>1, <2>2, ListMembers
    <3>2. O \subseteq Value
      BY ShownOutputValid
    <3>3. outputs \in Seq(Value) /\ Range(outputs) \subseteq Value
      BY <3>1, <3>2
    <3>4. QED
      BY <2>2, <3>3
  <2>3. QED
    BY <2>1, <2>2
<1>7. tx \in Transactions
  BY <1>4, <1>6 DEF Tx, Transactions
<1>8. QED
  BY <1>4, <1>5, <1>6, <1>7 DEF Acceptable

(***************************************************************************)
(* A step issues a value or adds an acceptable transfer.                   *)
(***************************************************************************)
Issues(w) == w \in Value /\ w.depth = 0 /\ issued' = issued \cup {w} /\ transfers' = transfers
Adds(tx) == Acceptable(tx) /\ issued' = issued /\ transfers' = transfers \cup {tx}

LEMMA StepCases ==
  ASSUME TypeOK, Next
  PROVE  (\E w : Issues(w)) \/ (\E tx : Adds(tx))
<1>1. ASSUME NEW i \in Issuances, Issue(i) PROVE Issues(NewIssueTx(i))
  <2>1. i \in [unit : Units, owner : Nodes, amount : Amounts, expiry : Expiries]
    BY ConstantsAssumption
  <2>2. 0 \in Depths /\ IssuerOf[i.unit] \in Nodes
    BY <2>1, ConstantsAssumption DEF Depths
  <2>3. NewIssueTx(i) \in Value /\ NewIssueTx(i).depth = 0
    BY <2>1, <2>2 DEF NewIssueTx, Value
  <2>4. QED
    BY <1>1, <2>3 DEF Issue, Issues
<1>2. ASSUME NEW signer \in Nodes, NEW output \in Drafts, ReceiveIssue(signer, output)
      PROVE  Issues(output)
  <2>1. output \in Draft
    BY ConstantsAssumption
  <2>2. output \in Value
    BY <1>2, <2>1 DEF ReceiveIssue, ValidateIssueTx, Draft, Value
  <2>3. QED
    BY <1>2, <2>2 DEF ReceiveIssue, ValidateIssueTx, Issues
<1>3. ASSUME NEW author \in Nodes, NEW inputs \in BoundedSeq(Held(author), MaxInputs),
             NEW outputs,
             LET values == Range(inputs)
             IN  \/ /\ outputs \in
                          BoundedSeq({Normalized(values, d) : d \in Sensible(values)}, MaxOutputs)
                    /\ Transfer(Tx(author, inputs, outputs))
                 \/ /\ outputs \in
                          BoundedSeq({o \in Drafts : OutputValid(values, o)}, MaxOutputs)
                    /\ ReceiveTransfer(Tx(author, inputs, outputs))
      PROVE  Adds(Tx(author, inputs, outputs))
  <2>1. Acceptable(Tx(author, inputs, outputs))
    BY <1>3, TransferAcceptable DEF Transfer, ReceiveTransfer
  <2>2. Add(Tx(author, inputs, outputs))
    BY <1>3 DEF Transfer, ReceiveTransfer
  <2>3. QED
    BY <2>1, <2>2 DEF Adds, Add
<1>4. QED
  BY <1>1, <1>2, <1>3 DEF Next

LEMMA CirculatingStep ==
  ASSUME TypeOK
  PROVE  /\ \A w : Issues(w) => Circulating' = Circulating \cup {w}
         /\ \A tx : Adds(tx) => Circulating' = Circulating \cup Range(tx.outputs)
BY DEF Issues, Adds, Circulating

LEMMA TypeStep == TypeOK /\ [Next]_vars => TypeOK'
<1> SUFFICES ASSUME TypeOK, [Next]_vars PROVE TypeOK'
  OBVIOUS
<1>1. ASSUME NEW w, Issues(w) PROVE TypeOK'
  BY <1>1 DEF Issues, TypeOK
<1>2. ASSUME NEW tx, Adds(tx) PROVE TypeOK'
  BY <1>2 DEF Adds, Acceptable, TypeOK
<1>3. CASE UNCHANGED vars
  BY <1>3 DEF vars, TypeOK
<1>4. QED
  BY <1>1, <1>2, <1>3, StepCases

\* Whatever is issued, made or shown, what circulates are values: positive
\* amounts that fit, an owner, a depth that fits.
THEOREM TypeCorrect == Spec => []TypeOK
<1>1. Init => TypeOK
  BY DEF Init, TypeOK
<1>2. QED
  BY <1>1, TypeStep, PTL DEF Spec

\* NewTransferTx never makes a transaction that ValidateTransferTx refuses.
THEOREM MadeIsValid == Spec => MadeTransfersAreValid
<1>1. TypeOK /\ [Next]_vars
        => [\A t \in transfers' \ transfers : ValidateTransferTx(t)]_vars
  <2> SUFFICES ASSUME TypeOK, Next
               PROVE  \A t \in transfers' \ transfers : ValidateTransferTx(t)
    BY DEF vars
  <2>1. QED
    BY StepCases DEF Issues, Adds, Acceptable
<1>2. QED
  BY <1>1, TypeCorrect, PTL DEF Spec, MadeTransfersAreValid

(***************************************************************************)
(* An output descends from an input of its kind, which is less deep.       *)
(***************************************************************************)
Outlives(v, w) == w.expiry # Never => v.expiry # Never /\ v.expiry <= w.expiry
StandsOn(v, w) == SameKind(v, w) /\ w.depth <= v.depth /\ Outlives(v, w)

LEMMA ValueNumbers ==
  ASSUME NEW v \in Value
  PROVE  v.expiry \in Nat /\ v.depth \in Nat
<1>1. v.expiry \in Expiries /\ v.depth \in Depths
  BY DEF Value
<1>2. Expiries \subseteq Nat /\ Depths \subseteq Nat
  BY ConstantsAssumption DEF Depths
<1>. QED
  BY <1>1, <1>2

LEMMA OutputDescends ==
  ASSUME NEW tx, Acceptable(tx), NEW o \in Range(tx.outputs)
  PROVE  /\ \E v \in Range(tx.inputs) : StandsOn(o, v)
         /\ \A v \in Range(tx.inputs) : v.depth < o.depth
<1>. DEFINE I == Range(tx.inputs)
<1>1. OutputValid(I, o) /\ ~DepthLimitReached(I) /\ I \in SUBSET Value /\ o \in Value
  BY DEF Acceptable, ValidateTransferTx
<1>2. PICK v \in I : SameKind(v, o)
  BY <1>1 DEF OutputValid, KnownKind
<1>3. v.expiry # Never => v.expiry \in Deadlines(I, o)
  BY <1>2 DEF Deadlines
<1>4. \A u \in I : u.depth < o.depth
  BY <1>1, <1>2, NextDepthFacts DEF OutputValid
<1>5. SameKind(o, v) /\ Outlives(o, v)
  BY <1>1, <1>2, <1>3 DEF OutputValid, ExpiryPropagates, Outlives, SameKind
<1>6. v.depth <= o.depth
  <2>1. v.depth \in Nat /\ o.depth \in Nat /\ v.depth < o.depth
    BY <1>1, <1>2, <1>4, ValueNumbers
  <2>. QED BY <2>1
<1>. QED
  BY <1>4, <1>5, <1>6 DEF StandsOn

LEMMA StandsOnItself ==
  ASSUME NEW v \in Value
  PROVE  StandsOn(v, v)
BY ValueNumbers DEF StandsOn, SameKind, Outlives

LEMMA StandsOnTransitive ==
  ASSUME NEW u \in Value, NEW v \in Value, NEW w \in Value,
         StandsOn(u, v), StandsOn(v, w)
  PROVE  StandsOn(u, w)
<1>1. /\ u.expiry \in Nat /\ v.expiry \in Nat /\ w.expiry \in Nat
      /\ u.depth \in Nat /\ v.depth \in Nat /\ w.depth \in Nat
  BY ValueNumbers
<1>2. SameKind(u, w)
  BY DEF StandsOn, SameKind
<1>3. w.depth <= u.depth
  BY <1>1 DEF StandsOn
<1>4. Outlives(u, w)
  BY <1>1 DEF StandsOn, Outlives
<1>. QED
  BY <1>2, <1>3, <1>4 DEF StandsOn

LEMMA LineageMeans == ExpiryLineage <=> \A v \in Circulating : \E w \in Roots : StandsOn(v, w)
BY DEF ExpiryLineage, StandsOn, Outlives

LEMMA RootsType ==
  ASSUME TypeOK
  PROVE  Roots \subseteq Value
<1>1. \A t \in transfers : Range(t.inputs) \subseteq Value
  BY DEF TypeOK, Transactions, Range
<1>. QED
  BY <1>1 DEF Roots, Foreign, TypeOK

\* A root stays one until a transfer gives it out; an input is one unless a
\* transaction gave it out.
LEMMA RootsStep ==
  ASSUME TypeOK
  PROVE  /\ \A i : Issues(i) => Roots' = Roots \cup {i}
         /\ \A tx : Adds(tx) =>
              Roots' = (Roots \cup (Range(tx.inputs) \ Circulating))
                         \ (Range(tx.outputs) \ issued)
<1>1. ASSUME NEW i, Issues(i) PROVE Roots' = Roots \cup {i}
  <2>1. /\ issued' = issued \cup {i} /\ transfers' = transfers
        /\ Circulating' = Circulating \cup {i}
    BY <1>1, CirculatingStep DEF Issues
  <2>. DEFINE Inputs == UNION {Range(t.inputs) : t \in transfers}
  <2>2. /\ Roots = issued \cup (Inputs \ Circulating)
        /\ Roots' = issued' \cup (Inputs \ Circulating')
    BY <2>1 DEF Roots, Foreign
  <2>. HIDE DEF Inputs
  <2>3. issued \subseteq Circulating
    BY DEF Circulating
  <2>. QED BY <2>1, <2>2, <2>3
<1>2. ASSUME NEW tx, Adds(tx)
      PROVE  Roots' = (Roots \cup (Range(tx.inputs) \ Circulating))
                        \ (Range(tx.outputs) \ issued)
  <2>1. /\ issued' = issued /\ transfers' = transfers \cup {tx}
        /\ Circulating' = Circulating \cup Range(tx.outputs)
    BY <1>2, CirculatingStep DEF Adds
  <2>. DEFINE Inputs == UNION {Range(t.inputs) : t \in transfers}
              InputsAfter == UNION {Range(t.inputs) : t \in transfers'}
  <2>2. InputsAfter = Inputs \cup Range(tx.inputs)
    BY <2>1
  <2>3. /\ Roots = issued \cup (Inputs \ Circulating)
        /\ Roots' = issued' \cup (InputsAfter \ Circulating')
    BY DEF Roots, Foreign
  <2>. HIDE DEF Inputs, InputsAfter
  <2>4. issued \subseteq Circulating
    BY DEF Circulating
  <2>. QED BY <2>1, <2>2, <2>3, <2>4
<1>. QED
  BY <1>1, <1>2

LEMMA LineageStep == TypeOK /\ ExpiryLineage /\ [Next]_vars => ExpiryLineage'
<1> SUFFICES ASSUME TypeOK, ExpiryLineage, [Next]_vars PROVE ExpiryLineage'
  OBVIOUS
<1>1. \A v \in Circulating : v \in Value /\ \E w \in Roots : w \in Value /\ StandsOn(v, w)
  BY CirculatingType, RootsType, LineageMeans
<1>. DEFINE Rooted == \A v \in Circulating' : \E w \in Roots' : StandsOn(v, w)
<1>2. Rooted => ExpiryLineage'
  BY DEF ExpiryLineage, StandsOn, Outlives, SameKind
<1>3. ASSUME NEW i, Issues(i) PROVE Rooted
  <2>1. StandsOn(i, i)
    BY <1>3, StandsOnItself DEF Issues
  <2>2. Roots' = Roots \cup {i} /\ Circulating' = Circulating \cup {i}
    BY <1>3, RootsStep, CirculatingStep
  <2>. QED BY <1>1, <2>1, <2>2
<1>4. ASSUME NEW tx, Adds(tx) PROVE Rooted
  <2>. DEFINE I == Range(tx.inputs)
              O == Range(tx.outputs)
  <2>1. Acceptable(tx) /\ I \subseteq Value /\ O \subseteq Value
    BY <1>4 DEF Adds, Acceptable
  <2>2. /\ Roots' = (Roots \cup (I \ Circulating)) \ (O \ issued)
        /\ Circulating' = Circulating \cup O
    BY <1>4, RootsStep, CirculatingStep
  <2>3. ASSUME NEW o \in O
        PROVE  \E w \in Roots' : w \in Value /\ StandsOn(o, w)
    <3>1. PICK i \in I : StandsOn(o, i)
      BY <2>1, OutputDescends
    <3>2. PICK w \in Roots \cup (I \ Circulating) : w \in Value /\ StandsOn(i, w)
      BY <1>1, <2>1, <3>1, StandsOnItself
    <3>3. \A u \in O : i.depth < u.depth
      BY <2>1, <3>1, OutputDescends
    <3>4. w \notin O
      <4>. SUFFICES ASSUME w \in O PROVE FALSE
        OBVIOUS
      <4>1. w.depth \in Nat /\ i.depth \in Nat
        BY <2>1, <3>1, <3>2, ValueNumbers
      <4>2. w.depth <= i.depth /\ i.depth < w.depth
        BY <3>2, <3>3 DEF StandsOn
      <4>. QED BY <4>1, <4>2
    <3>5. StandsOn(o, w)
      BY <2>1, <3>1, <3>2, StandsOnTransitive
    <3>. QED BY <2>2, <3>2, <3>4, <3>5
  <2>4. ASSUME NEW v \in Circulating
        PROVE  \E w \in Roots' : StandsOn(v, w)
    <3>1. PICK w \in Roots : w \in Value /\ StandsOn(v, w)
      BY <1>1
    <3>2. CASE w \in O
      <4>1. PICK x \in Roots' : x \in Value /\ StandsOn(w, x)
        BY <2>3, <3>2
      <4>. QED BY <1>1, <3>1, <4>1, StandsOnTransitive
    <3>3. CASE w \notin O
      BY <2>2, <3>1, <3>3
    <3>. QED BY <3>2, <3>3
  <2>. HIDE DEF I, O
  <2>. QED BY <2>2, <2>3, <2>4
<1>5. CASE UNCHANGED vars
  BY <1>5 DEF vars, ExpiryLineage, Circulating, Roots, Foreign, SameKind
<1>. HIDE DEF Rooted
<1>. QED
  BY <1>2, <1>3, <1>4, <1>5, StepCases

\* No chain of transfers, of any length and with any merges, lets a value
\* outlive the issue, or the value from outside, that it stands on.
THEOREM Lineage == Spec => []ExpiryLineage
<1>1. Init => ExpiryLineage
  BY DEF Init, ExpiryLineage, Circulating
<1>2. QED
  BY <1>1, LineageStep, TypeCorrect, PTL DEF Spec

(***************************************************************************)
(* Depths.                                                                 *)
(***************************************************************************)
LEMMA FreshStep == TypeOK /\ FreshValuesAreIssued /\ [Next]_vars => FreshValuesAreIssued'
<1> SUFFICES ASSUME TypeOK, FreshValuesAreIssued, [Next]_vars PROVE FreshValuesAreIssued'
  OBVIOUS
<1>1. ASSUME NEW w, Issues(w) PROVE FreshValuesAreIssued'
  BY <1>1, CirculatingStep DEF FreshValuesAreIssued, Issues
<1>2. ASSUME NEW tx, Adds(tx) PROVE FreshValuesAreIssued'
  <2> DEFINE I == Range(tx.inputs)
  <2>1. Acceptable(tx)
    BY <1>2 DEF Adds
  <2>2. ASSUME NEW o \in Range(tx.outputs) PROVE o.depth # 0
    <3>1. OutputValid(I, o) /\ ~DepthLimitReached(I) /\ I \in SUBSET Value
      BY <2>1 DEF Acceptable, ValidateTransferTx
    <3>2. I # {}
      BY <3>1 DEF OutputValid, KnownKind
    <3>3. QED
      BY <3>1, <3>2, NextDepthFacts DEF OutputValid
  <2>3. QED
    BY <1>2, <2>2, CirculatingStep DEF FreshValuesAreIssued, Adds
<1>3. CASE UNCHANGED vars
  BY <1>3 DEF vars, FreshValuesAreIssued, Circulating
<1>4. QED
  BY <1>1, <1>2, <1>3, StepCases

\* The depth of a transferred value never wraps around to that of a fresh one
\* (nextTransferDepth), whatever the width of the depth.
THEOREM FreshIsIssued == Spec => []FreshValuesAreIssued
<1>1. Init => FreshValuesAreIssued
  BY DEF Init, FreshValuesAreIssued, Circulating
<1>2. QED
  BY <1>1, FreshStep, TypeCorrect, PTL DEF Spec

(***************************************************************************)
(* Sums of amounts.                                                        *)
(***************************************************************************)
AddOrOverflow(sum, x) == IF sum = Overflow THEN sum ELSE CheckedAdd(sum, x)

\* g computes the running sums of f over the sets in the family T.
Checks(g, f, T) ==
  g = [s \in T |-> IF s = {} THEN 0 ELSE AddOrOverflow(g[s \ {Chosen(s)}], f[Chosen(s)])]

\* There is a function that computes the running sums, level by level.
LEMMA CheckedExists ==
  ASSUME NEW S, IsFiniteSet(S), NEW f
  PROVE  \E g : Checks(g, f, SUBSET S)
<1>. DEFINE N == {n \in Nat : \E g : Checks(g, f, SubsetsUpTo(S, n))}
<1>1. 0 \in N
  <2>. DEFINE g == [s \in SubsetsUpTo(S, 0) |-> 0]
  <2>1. \A s \in SubsetsUpTo(S, 0) : s = {}
    BY FS_Subset, FS_EmptySet, FS_CardinalityType DEF SubsetsUpTo
  <2>2. Checks(g, f, SubsetsUpTo(S, 0))
    BY <2>1 DEF Checks
  <2>. QED BY <2>2
<1>2. ASSUME NEW n \in Nat, n \in N PROVE n + 1 \in N
  <2>1. PICK g : Checks(g, f, SubsetsUpTo(S, n))
    BY <1>2
  <2>. DEFINE h == [s \in SubsetsUpTo(S, n + 1) |->
                      IF s = {} THEN 0 ELSE AddOrOverflow(g[s \ {Chosen(s)}], f[Chosen(s)])]
  <2>2. ASSUME NEW s \in SubsetsUpTo(S, n) PROVE h[s] = g[s]
    <3>1. s \in SubsetsUpTo(S, n + 1)
      BY FS_Subset, FS_CardinalityType DEF SubsetsUpTo
    <3>. QED BY <2>1, <3>1 DEF Checks
  <2>3. ASSUME NEW s \in SubsetsUpTo(S, n + 1)
        PROVE  h[s] = IF s = {} THEN 0
                      ELSE AddOrOverflow(h[s \ {Chosen(s)}], f[Chosen(s)])
    <3>1. CASE s = {}
      BY <3>1
    <3>2. CASE s # {}
      <4>1. h[s \ {Chosen(s)}] = g[s \ {Chosen(s)}]
        BY <2>2, <3>2, LevelDown
      <4>2. h[s] = AddOrOverflow(g[s \ {Chosen(s)}], f[Chosen(s)])
        BY <3>2
      <4>. HIDE DEF h
      <4>. QED BY <3>2, <4>1, <4>2
    <3>. QED BY <3>1, <3>2
  <2>4. h = [s \in SubsetsUpTo(S, n + 1) |->
               IF s = {} THEN 0 ELSE AddOrOverflow(h[s \ {Chosen(s)}], f[Chosen(s)])]
    BY <2>3, Zenon
  <2>5. Checks(h, f, SubsetsUpTo(S, n + 1))
    BY <2>4 DEF Checks
  <2>. QED BY <2>5
<1>. HIDE DEF N
<1>3. \A n \in Nat : n \in N
  BY <1>1, <1>2, AllNaturals
<1>4. Cardinality(S) \in Nat /\ SubsetsUpTo(S, Cardinality(S)) = SUBSET S
  BY FS_CardinalityType, FS_Subset DEF SubsetsUpTo
<1>. QED
  BY <1>3, <1>4 DEF N

\* CheckedSum is what that function says of all its amounts.
LEMMA CheckedIsUnfolded ==
  ASSUME NEW f
  PROVE  CheckedSum(f) = (CHOOSE g : Checks(g, f, SUBSET DOMAIN f))[DOMAIN f]
BY DEF CheckedSum, FoldSeq, FoldFunction, FoldFunctionOnSet, MapThenFoldSet,
       Checks, Chosen, AddOrOverflow

\* The result of a running sum, told from the sum of the integers.
Capped(total) == IF total > MaxAmount THEN Overflow ELSE total

\* A running sum that never exceeded an int64 is the sum of the integers; one
\* that did is an overflow, in whatever order the amounts were added.
LEMMA CheckedUpTo ==
  ASSUME NEW S, IsFiniteSet(S), NEW f, \A x \in S : f[x] \in Nat,
         NEW g, Checks(g, f, SUBSET S)
  PROVE  g[S] = Capped(SumFunctionOnSet(f, S))
<1>. DEFINE Right(s) == g[s] = Capped(SumFunctionOnSet(f, s))
            N == {n \in Nat : \A s \in SubsetsUpTo(S, n) : Right(s)}
<1>1. 0 \in N
  <2>1. \A s \in SubsetsUpTo(S, 0) : s = {} /\ s \in SUBSET S
    BY FS_Subset, FS_EmptySet, FS_CardinalityType DEF SubsetsUpTo
  <2>2. g[{}] = 0
    BY DEF Checks
  <2>3. SumFunctionOnSet(f, {}) = 0
    BY SumEmpty
  <2>4. Right({})
    BY <2>2, <2>3, ConstantsAssumption DEF Capped
  <2>5. \A s \in SubsetsUpTo(S, 0) : Right(s)
    BY <2>1, <2>4
  <2>. QED BY <2>5
<1>2. ASSUME NEW n \in Nat, n \in N PROVE n + 1 \in N
  <2>. SUFFICES ASSUME NEW s \in SubsetsUpTo(S, n + 1) PROVE Right(s)
    OBVIOUS
  <2>. DEFINE c == Chosen(s)
              r == s \ {Chosen(s)}
  <2>1. s \in SUBSET S /\ IsFiniteSet(s)
    BY FS_Subset DEF SubsetsUpTo
  <2>2. CASE s = {}
    <3>1. s \in SubsetsUpTo(S, 0)
      BY <2>2, FS_EmptySet DEF SubsetsUpTo
    <3>. QED BY <1>1, <3>1
  <2>3. CASE s # {}
    <3>1. r \in SubsetsUpTo(S, n) /\ c \in s /\ IsFiniteSet(r)
      BY <2>1, <2>3, LevelDown, ChosenIn, FS_Subset
    <3>2. g[r] = Capped(SumFunctionOnSet(f, r))
      BY <1>2, <3>1
    <3>3. g[s] = AddOrOverflow(g[r], f[c])
      BY <2>1, <2>3 DEF Checks
    <3>4. SumFunctionOnSet(f, s) = f[c] + SumFunctionOnSet(f, r)
      BY <2>1, <2>3, SumChosen
    <3>5. f[c] \in Nat
      BY <2>1, <3>1
    <3>6. SumFunctionOnSet(f, r) \in Nat
      <4>1. \A x \in r : f[x] \in Nat /\ f[x] \in Int
        BY <2>1
      <4>. QED BY <3>1, <4>1, SumType
    <3>7. MaxAmount \in Nat
      BY ConstantsAssumption
    <3>. HIDE DEF c, r
    <3>. QED
      BY <3>2, <3>3, <3>4, <3>5, <3>6, <3>7 DEF Capped, AddOrOverflow, CheckedAdd, Overflow
  <2>. QED BY <2>2, <2>3
<1>. HIDE DEF N
<1>3. \A n \in Nat : n \in N
  BY <1>1, <1>2, AllNaturals
<1>4. Cardinality(S) \in Nat /\ S \in SubsetsUpTo(S, Cardinality(S))
  BY FS_CardinalityType DEF SubsetsUpTo
<1>. QED
  BY <1>3, <1>4 DEF N

\* CheckedSum reports an overflow exactly when the sum exceeds the limit.
LEMMA CheckedSumFacts ==
  ASSUME NEW f, IsFiniteSet(DOMAIN f), \A x \in DOMAIN f : f[x] \in Nat
  PROVE  CheckedSum(f) = Capped(SumFunctionOnSet(f, DOMAIN f))
<1>. DEFINE g == CHOOSE k : Checks(k, f, SUBSET DOMAIN f)
<1>1. Checks(g, f, SUBSET DOMAIN f)
  BY CheckedExists
<1>2. CheckedSum(f) = g[DOMAIN f]
  BY CheckedIsUnfolded
<1>. HIDE DEF g
<1>. QED
  BY <1>1, <1>2, CheckedUpTo

\* TrueSum is the sum over the places of a sequence.
LEMMA TrueSumFacts ==
  ASSUME NEW f
  PROVE  TrueSum(f) = SumFunctionOnSet(f, DOMAIN f)
BY DEF TrueSum, FoldSeq, FoldFunction, SumFunctionOnSet

\* The transfers that exist have been validated.
TransfersValid == \A t \in transfers : ValidateTransferTx(t)

\* A transfer that passes the validation hands on what it takes: the overflow
\* check makes the running sum the sum, and the check for repeated inputs makes
\* the sum over the list the sum over the values.
LEMMA ValidConserves ==
  ASSUME NEW t \in Transactions, ValidateTransferTx(t), NEW unit
  PROVE  SumFunctionOnSet([v \in Range(t.inputs) |-> AmountOf(v, unit)], Range(t.inputs))
           = TrueSum(AmountsOf(t.outputs, unit))
<1>. DEFINE I == Range(t.inputs)
            D == DOMAIN t.inputs
            f == [v \in I |-> AmountOf(v, unit)]
            given == AmountsOf(t.inputs, unit)
            made == AmountsOf(t.outputs, unit)
<1>1. t.inputs \in Seq(Value) /\ t.outputs \in Seq(Value)
  BY DEF Transactions
<1>2. IsFiniteSet(D) /\ IsFiniteSet(DOMAIN t.outputs)
  BY <1>1, FS_Interval
<1>3. \A v \in Value : AmountOf(v, unit) \in Nat
  BY ConstantsAssumption DEF Value, Amounts, AmountOf
<1>4. /\ I = {t.inputs[i] : i \in D} /\ IsFiniteSet(I)
      /\ \A i \in D : t.inputs[i] \in I
      /\ I \subseteq Value
  <2>1. I = {t.inputs[i] : i \in D}
    BY DEF Range
  <2>2. I \subseteq Value
    BY <1>1, <2>1
  <2>3. t.inputs \in Surjection(D, I)
    BY <1>1, <2>1 DEF Surjection
  <2>4. IsFiniteSet(I)
    BY <1>2, <2>3, FS_Surjection
  <2>. QED BY <2>1, <2>2, <2>4
<1>5. \A i \in D : f[t.inputs[i]] = AmountOf(t.inputs[i], unit) /\ f[t.inputs[i]] \in Nat
  BY <1>3, <1>4
<1>6. /\ DOMAIN given = D /\ DOMAIN made = DOMAIN t.outputs
      /\ \A i \in D : given[i] = AmountOf(t.inputs[i], unit) /\ given[i] \in Nat
      /\ \A i \in DOMAIN t.outputs : made[i] = AmountOf(t.outputs[i], unit)
  BY <1>3, <1>4 DEF AmountsOf
<1>7. given = [i \in D |-> f[t.inputs[i]]]
  BY <1>5 DEF AmountsOf
<1>8. TrueSum(made) = SumFunctionOnSet(made, DOMAIN t.outputs)
  BY <1>6, TrueSumFacts
<1>9. CASE unit \in {v.unit : v \in I}
  <2>1. CheckedSum(given) # Overflow /\ CheckedSum(given) = TrueSum(made)
    BY <1>9 DEF ValidateTransferTx, Conserves
  <2>2. CheckedSum(given) = Capped(SumFunctionOnSet(given, D))
    BY <1>2, <1>6, CheckedSumFacts
  <2>3. SumFunctionOnSet(given, D) = TrueSum(made)
    BY <2>1, <2>2 DEF Capped
  <2>4. SumFunctionOnSet([i \in D |-> f[t.inputs[i]]], D)
          = SumFunctionOnSet(f, {t.inputs[i] : i \in D})
    <3>1. \A i, j \in D : t.inputs[i] = t.inputs[j] => i = j
      BY DEF ValidateTransferTx, Unique, IsInjective
    <3>2. \A i \in D : f[t.inputs[i]] \in Int
      BY <1>5
    <3>. HIDE DEF f, D
    <3>. QED
      BY <1>2, <3>1, <3>2, SumImage
  <2>. HIDE DEF f, D, I, given, made
  <2>. QED
    BY <1>4, <1>7, <2>3, <2>4 DEF f, I, made
<1>10. CASE unit \notin {v.unit : v \in I}
  <2>1. \A v \in I : f[v] = 0
    BY <1>10 DEF AmountOf
  <2>2. ASSUME NEW i \in DOMAIN t.outputs PROVE made[i] = 0
    <3>1. OutputValid(I, t.outputs[i])
      BY DEF ValidateTransferTx, Range
    <3>2. t.outputs[i].unit # unit
      BY <1>10, <3>1 DEF OutputValid, KnownKind, SameKind
    <3>. QED BY <1>6, <3>2 DEF AmountOf
  <2>3. SumFunctionOnSet(f, I) = 0
    BY <1>4, <2>1, SumZero
  <2>4. SumFunctionOnSet(made, DOMAIN t.outputs) = 0
    BY <1>2, <2>2, SumZero
  <2>. QED BY <1>8, <2>3, <2>4
<1>. QED
  BY <1>9, <1>10

\* Only validated transfers are ever added.
LEMMA ConserveStep == TypeOK /\ [Next]_vars /\ TransfersValid => TransfersValid'
<1> SUFFICES ASSUME TypeOK, [Next]_vars, TransfersValid PROVE TransfersValid'
  OBVIOUS
<1>1. ASSUME NEW w, Issues(w) PROVE TransfersValid'
  BY <1>1 DEF Issues, TransfersValid
<1>2. ASSUME NEW tx, Adds(tx) PROVE TransfersValid'
  BY <1>2 DEF Adds, Acceptable, TransfersValid
<1>3. CASE UNCHANGED vars
  BY <1>3 DEF vars, TransfersValid
<1>. QED
  BY <1>1, <1>2, <1>3, StepCases

\* No transfer, made or shown, creates or destroys an amount: with any number of
\* inputs and outputs, any units and any width of the amounts.
THEOREM Conserved == Spec => []TransfersConserve
<1>1. Init => TransfersValid
  BY DEF Init, TransfersValid
<1>2. TypeOK /\ TransfersValid => TransfersConserve
  BY ValidConserves DEF TypeOK, TransfersValid, TransfersConserve
<1>. QED
  BY <1>1, <1>2, ConserveStep, TypeCorrect, PTL DEF Spec

(***************************************************************************)
(* Policies.                                                               *)
(***************************************************************************)
LEMMA EnoughTrust ==
  ASSUME NEW p \in Policies, NEW tx, NEW now,
         AcceptsTransfer(p, tx, now), NEW v \in Range(tx.inputs)
  PROVE  v.issuer \in DOMAIN p.trust /\ p.trust[v.issuer] >= p.minScore
<1> DEFINE S == {p.trust[u.issuer] : u \in Range(tx.inputs)}
<1>1. \A u \in Range(tx.inputs) : u.issuer \in DOMAIN p.trust
  BY DEF AcceptsTransfer, Trusted
<1>2. \A n \in DOMAIN p.trust : p.trust[n] \in Nat
  BY PolicyAssumption DEF IsPolicy
<1>3. p.minScore \in Nat
  BY PolicyAssumption DEF IsPolicy
<1>4. S \subseteq Nat /\ p.trust[v.issuer] \in S
  BY <1>1, <1>2
<1>5. Min(S) \in S /\ Min(S) <= p.trust[v.issuer]
  <2>1. S \in SUBSET Nat /\ S # {}
    BY <1>4
  <2> HIDE DEF S
  <2>2. QED
    BY <1>4, <2>1, MinFacts
<1>6. Min(S) >= p.minScore
  BY DEF AcceptsTransfer
<1>7. QED
  BY <1>1, <1>3, <1>4, <1>5, <1>6

LEMMA TrustByLineage == TypeOK /\ ExpiryLineage => AcceptedStandsOnTrust
<1> SUFFICES ASSUME TypeOK, ExpiryLineage,
                    NEW p \in Policies, NEW now \in Times,
                    NEW v \in AcceptedValues(p, now)
             PROVE  \E w \in Roots :
                      /\ SameKind(v, w) /\ ~Expired(w, now)
                      /\ w.issuer \in DOMAIN p.trust /\ p.trust[w.issuer] >= p.minScore
  BY DEF AcceptedStandsOnTrust
<1>1. CASE v \in issued /\ AcceptsIssue(p, v, now)
  BY <1>1 DEF AcceptsIssue, Usable, Trusted, SameKind, Roots
<1>2. ASSUME NEW t \in transfers, AcceptsTransfer(p, t, now), v \in Range(t.outputs)
      PROVE  \E w \in Roots :
               /\ SameKind(v, w) /\ ~Expired(w, now)
               /\ w.issuer \in DOMAIN p.trust /\ p.trust[w.issuer] >= p.minScore
  <2>1. v \in Circulating
    BY <1>2 DEF Circulating
  <2>2. PICK w \in Roots : SameKind(v, w) /\ Outlives(v, w)
    BY <2>1, LineageMeans DEF StandsOn
  <2>3. v \in Value /\ w \in Value
    BY <2>1, CirculatingType, RootsType
  <2>4. v.expiry \in Nat /\ w.expiry \in Nat /\ now \in Nat
    BY <2>3, ValueNumbers, PolicyAssumption
  <2>5. ~Expired(v, now)
    BY <1>2 DEF AcceptsTransfer, Usable
  <2>6. ~Expired(w, now)
    BY <2>2, <2>4, <2>5 DEF Expired, Outlives
  <2>7. OutputValid(Range(t.inputs), v)
    BY <1>2 DEF AcceptsTransfer, ValidateTransferTx
  <2>8. PICK u \in Range(t.inputs) : SameKind(u, v)
    BY <2>7 DEF OutputValid, KnownKind
  <2>9. u.issuer \in DOMAIN p.trust /\ p.trust[u.issuer] >= p.minScore
    BY <1>2, EnoughTrust
  <2>10. QED
    BY <2>2, <2>6, <2>8, <2>9 DEF SameKind
<1>3. QED
  BY <1>1, <1>2 DEF AcceptedValues

\* Every value that a policy accepts, through any number of transfers between
\* strangers, descends from one of its unit and issuer that is unexpired and names
\* an issuer trusted enough.  (Nothing in the code says who made that one.)
THEOREM StandsOnTrust == Spec => []AcceptedStandsOnTrust
BY TrustByLineage, Lineage, TypeCorrect, PTL

\* A value that a policy accepts is usable under it, and its issuer trusted
\* enough: conservation ties the issuer of an output to those of the inputs.
LEMMA AcceptedFacts ==
  ASSUME TypeOK, NEW p \in Policies, NEW now, NEW v \in AcceptedValues(p, now)
  PROVE  /\ v \in Value /\ Usable(p, v, now)
         /\ Trusted(p, v) /\ p.trust[v.issuer] >= p.minScore
<1>1. v \in Circulating
  BY DEF AcceptedValues, Circulating
<1>2. v \in Value
  BY <1>1, CirculatingType
<1>3. CASE v \in issued /\ AcceptsIssue(p, v, now)
  BY <1>2, <1>3 DEF AcceptsIssue
<1>4. ASSUME NEW t \in transfers, AcceptsTransfer(p, t, now), v \in Range(t.outputs)
      PROVE  /\ v \in Value /\ Usable(p, v, now)
             /\ Trusted(p, v) /\ p.trust[v.issuer] >= p.minScore
  <2>1. Usable(p, v, now) /\ OutputValid(Range(t.inputs), v)
    BY <1>4 DEF AcceptsTransfer, ValidateTransferTx
  <2>2. PICK u \in Range(t.inputs) : SameKind(u, v)
    BY <2>1 DEF OutputValid, KnownKind
  <2>3. u.issuer \in DOMAIN p.trust /\ p.trust[u.issuer] >= p.minScore
    BY <1>4, EnoughTrust
  <2>. QED BY <1>2, <2>1, <2>2, <2>3 DEF SameKind, Trusted
<1>. QED
  BY <1>3, <1>4 DEF AcceptedValues

\* The running sum and the sum of a single amount.
LEMMA OneAmount ==
  ASSUME NEW v \in Value
  PROVE  /\ CheckedSum(AmountsOf(<<v>>, v.unit)) = v.amount
         /\ TrueSum(AmountsOf(<<v>>, v.unit)) = v.amount
<1>. DEFINE f == AmountsOf(<<v>>, v.unit)
<1>1. DOMAIN f = {1} /\ f[1] = v.amount
  BY DEF AmountsOf, AmountOf
<1>2. v.amount \in Nat /\ v.amount \in Int /\ v.amount <= MaxAmount
  BY ConstantsAssumption DEF Value, Amounts
<1>3. IsFiniteSet({1})
  BY FS_Singleton
<1>. HIDE DEF f
<1>4. SumFunctionOnSet(f, {1}) = v.amount
  BY <1>1, <1>2, SumSingle
<1>5. CheckedSum(f) = Capped(SumFunctionOnSet(f, DOMAIN f))
  BY <1>1, <1>2, <1>3, CheckedSumFacts
<1>6. TrueSum(f) = SumFunctionOnSet(f, DOMAIN f)
  BY TrueSumFacts
<1>. QED
  BY <1>1, <1>2, <1>4, <1>5, <1>6, ConstantsAssumption DEF f, Capped

\* A value below the depth limit can be handed on whole.
LEMMA HandOverValid ==
  ASSUME NEW v \in Value, v.depth < MaxUint32, NEW receiver \in Nodes
  PROVE  ValidateTransferTx(HandOver(v, receiver))
<1>. DEFINE o == [v EXCEPT !.owner = receiver, !.depth = v.depth + 1]
            tx == HandOver(v, receiver)
<1>1. tx.author = v.owner /\ tx.inputs = <<v>> /\ tx.outputs = <<o>>
  BY DEF HandOver
<1>2. Range(<<v>>) = {v} /\ Range(<<o>>) = {o}
  BY DEF Range
<1>3. /\ o.unit = v.unit /\ o.issuer = v.issuer /\ o.owner = receiver
      /\ o.amount = v.amount /\ o.expiry = v.expiry /\ o.depth = v.depth + 1
  BY DEF Value
<1>4. v.depth \in Nat /\ MaxUint32 \in Nat
  BY ConstantsAssumption DEF Value, Depths
<1>5. o \in Value
  <2>1. v.depth + 1 \in Depths
    BY <1>4 DEF Depths
  <2>. QED BY <2>1 DEF Value
<1>. HIDE DEF o
<1>6. NextDepth({v}) = v.depth + 1
  <2>1. {w.depth : w \in {v}} = {v.depth}
    OBVIOUS
  <2>2. Max({v.depth}) = v.depth
    BY <1>4 DEF Max
  <2>. DEFINE k == v.depth + 1
  <2>3. k \in Nat /\ k < MaxUint32 + 1
    BY <1>4
  <2>4. k % (MaxUint32 + 1) = k
    <3>. HIDE DEF k
    <3>. QED BY <1>4, <2>3
  <2>. QED BY <2>1, <2>2, <2>4 DEF NextDepth
<1>7. OutputValid({v}, o)
  <2>1. o.amount \in Amounts /\ o.owner # NoNode
    BY <1>3, ConstantsAssumption DEF Value
  <2>2. KnownKind({v}, o)
    BY <1>3 DEF KnownKind, SameKind
  <2>3. ExpiryPropagates({v}, o)
    <3>1. \A d \in Deadlines({v}, o) : d = v.expiry /\ d # Never
      BY DEF Deadlines
    <3>2. v.expiry \in Nat
      BY ConstantsAssumption DEF Value
    <3>. QED BY <1>3, <3>1, <3>2 DEF ExpiryPropagates
  <2>. QED BY <1>3, <1>6, <2>1, <2>2, <2>3 DEF OutputValid
<1>8. Conserves(<<v>>, <<o>>)
  <2>1. CheckedSum(AmountsOf(<<v>>, v.unit)) = v.amount
    BY OneAmount
  <2>2. TrueSum(AmountsOf(<<o>>, v.unit)) = v.amount
    BY <1>3, <1>5, OneAmount
  <2>3. v.amount # Overflow
    BY ConstantsAssumption DEF Value, Amounts, Overflow
  <2>. QED BY <1>2, <2>1, <2>2, <2>3 DEF Conserves
<1>9. Unique(<<v>>) /\ <<v>> # <<>> /\ <<o>> # <<>>
  BY DEF Unique, IsInjective
<1>10. ~DepthLimitReached({v})
  BY <1>4 DEF DepthLimitReached
<1>. QED
  BY <1>1, <1>2, <1>7, <1>8, <1>9, <1>10 DEF ValidateTransferTx

\* The hand-over of an accepted value is accepted under the same policy.
LEMMA CanMoveOn == TypeOK => AcceptedCanMoveOn
<1>. SUFFICES ASSUME TypeOK, NEW p \in Policies, NEW now \in Times,
                     NEW v \in AcceptedValues(p, now), v.depth < p.maxDepth,
                     NEW receiver \in Nodes
              PROVE  AcceptsTransfer(p, HandOver(v, receiver), now)
  BY DEF AcceptedCanMoveOn
<1>. DEFINE o == [v EXCEPT !.owner = receiver, !.depth = v.depth + 1]
            tx == HandOver(v, receiver)
<1>1. /\ v \in Value /\ Usable(p, v, now)
      /\ Trusted(p, v) /\ p.trust[v.issuer] >= p.minScore
  BY AcceptedFacts
<1>2. Range(tx.inputs) = {v} /\ Range(tx.outputs) = {o}
  BY DEF HandOver, Range
<1>3. /\ v.depth \in Nat /\ MaxUint32 \in Nat /\ p.maxDepth \in Nat /\ p.maxDepth <= MaxUint32
      /\ p.minScore \in Nat /\ \A n \in DOMAIN p.trust : p.trust[n] \in Nat
  BY <1>1, ConstantsAssumption, PolicyAssumption DEF Value, Depths, IsPolicy
<1>4. ValidateTransferTx(tx)
  BY <1>1, <1>3, HandOverValid
<1>5. o.expiry = v.expiry /\ o.depth = v.depth + 1
  BY <1>1 DEF Value
<1>6. Usable(p, o, now)
  <2>. HIDE DEF o
  <2>. QED BY <1>1, <1>3, <1>5 DEF Usable, Expired
<1>7. Min({p.trust[u.issuer] : u \in {v}}) >= p.minScore
  <2>1. {p.trust[u.issuer] : u \in {v}} = {p.trust[v.issuer]}
    OBVIOUS
  <2>2. p.trust[v.issuer] \in Nat
    BY <1>1, <1>3 DEF Trusted
  <2>3. Min({p.trust[v.issuer]}) = p.trust[v.issuer]
    BY <2>2 DEF Min
  <2>. QED BY <1>1, <2>1, <2>3
<1>. HIDE DEF o, tx
<1>. QED
  BY <1>1, <1>2, <1>4, <1>6, <1>7 DEF AcceptsTransfer, tx

\* A policy strands nobody: what it accepts from others it also lets the owner
\* hand on whole, at the same time, up to its own limit of the depth.
THEOREM MovesOn == Spec => []AcceptedCanMoveOn
BY CanMoveOn, TypeCorrect, PTL

(***************************************************************************)
(* Inventories.                                                            *)
(***************************************************************************)
\* The inventory only adds state: what is proved of the values holds with it.
THEOREM InventoriesExtendValues == InventorySpec => Spec
<1>1. InventoryInit => Init
  BY DEF InventoryInit
<1>2. ASSUME [InventoryNext]_<<vars, inventoryVars>>
      PROVE  [Next]_vars
  <2>1. CASE Apply
    <3>1. ASSUME NEW u \in Units, NEW outputs \in Pairs(Presentable), ApplyIssue(u, outputs)
          PROVE  UNCHANGED vars
      BY <3>1 DEF ApplyIssue, Install
    <3>2. ASSUME NEW tx, ApplyTrade(tx)
          PROVE  UNCHANGED vars
      BY <3>2 DEF ApplyTrade, Install
    <3>3. QED
      BY <2>1, <3>1, <3>2 DEF Apply
  <2>2. CASE Next
    BY <2>2
  <2>3. CASE UNCHANGED <<vars, inventoryVars>>
    BY <2>3
  <2>4. QED
    BY <1>2, <2>1, <2>2, <2>3 DEF InventoryNext
<1>3. QED
  BY <1>1, <1>2, PTL DEF InventorySpec, Spec

\* What the lemmas below ask of a set of values: the amounts and the owners that
\* the validation of a transaction guarantees.
Countable(S) ==
  IsFiniteSet(S) /\ \A v \in S : v.amount \in Nat /\ v.owner \in Nodes

\* The worth of values is a natural, and nothing in a unit that none of them has.
LEMMA WorthFacts ==
  ASSUME NEW S, Countable(S), NEW u
  PROVE  /\ Worth(S, u) \in Nat
         /\ (\A v \in S : v.unit # u) => Worth(S, u) = 0
<1>. DEFINE f == [v \in S |-> v.amount]
            T == {v \in S : v.unit = u}
<1>1. IsFiniteSet(T) /\ \A v \in T : f[v] \in Nat /\ f[v] \in Int
  BY FS_Subset DEF Countable
<1>2. SumFunctionOnSet(f, T) \in Nat
  BY <1>1, SumType
<1>3. (\A v \in S : v.unit # u) => T = {}
  OBVIOUS
<1>4. T = {} => SumFunctionOnSet(f, T) = 0
  BY SumEmpty
<1>. QED
  BY <1>2, <1>3, <1>4 DEF Worth

\* The shares of the owners add up to the whole.
LEMMA WorthByOwner ==
  ASSUME NEW S, Countable(S), NEW u
  PROVE  SumFunctionOnSet([n \in Nodes |-> Worth(OwnedBy(S, n), u)], Nodes) = Worth(S, u)
<1>. DEFINE f == [v \in S |-> v.amount]
            key == [v \in S |-> v.owner]
            T == {v \in S : v.unit = u}
            share == [n \in Nodes |-> Worth(OwnedBy(S, n), u)]
            group == [n \in Nodes |-> SumFunctionOnSet(f, {v \in T : key[v] = n})]
<1>1. IsFiniteSet(Nodes)
  BY InventoryAssumption
<1>2. IsFiniteSet(T) /\ \A v \in T : f[v] \in Int /\ key[v] \in Nodes
  BY FS_Subset DEF Countable
<1>3. SumFunctionOnSet(group, Nodes) = SumFunctionOnSet(f, T)
  <2>. HIDE DEF f, key, T
  <2>. QED BY <1>1, <1>2, SumPartition
<1>4. ASSUME NEW n \in Nodes PROVE share[n] = group[n]
  <2>. DEFINE O == OwnedBy(S, n)
              g == [v \in O |-> v.amount]
              P == {v \in O : v.unit = u}
  <2>1. P = {v \in T : key[v] = n} /\ P \in SUBSET T
    BY DEF OwnedBy
  <2>2. IsFiniteSet(P)
    BY <1>2, <2>1, FS_Subset
  <2>3. \A v \in P : f[v] \in Int /\ g[v] = f[v]
    BY <1>2, <2>1 DEF OwnedBy
  <2>4. Worth(O, u) = SumFunctionOnSet(g, P)
    BY DEF Worth
  <2>. HIDE DEF f, g, P
  <2>5. SumFunctionOnSet(g, P) = SumFunctionOnSet(f, P)
    BY <2>2, <2>3, SumEqual
  <2>. QED BY <2>1, <2>4, <2>5
<1>5. share = group
  BY <1>4
<1>. QED
  BY <1>3, <1>5 DEF Worth

\* Crediting values adds their worth to the holdings, whoever owns them; debiting
\* them takes it away.
LEMMA CreditedTotal ==
  ASSUME NEW h, \A n \in Nodes, v \in Units : h[n][v] \in Int,
         NEW S, Countable(S), NEW u \in Units
  PROVE  /\ SumFunctionOnSet([n \in Nodes |-> Credited(h, S)[n][u]], Nodes)
              = SumFunctionOnSet([n \in Nodes |-> h[n][u]], Nodes) + Worth(S, u)
         /\ SumFunctionOnSet([n \in Nodes |-> Debited(h, S)[n][u]], Nodes)
              = SumFunctionOnSet([n \in Nodes |-> h[n][u]], Nodes) - Worth(S, u)
<1>. DEFINE before == [n \in Nodes |-> h[n][u]]
            share == [n \in Nodes |-> Worth(OwnedBy(S, n), u)]
            more == [n \in Nodes |-> Credited(h, S)[n][u]]
            less == [n \in Nodes |-> Debited(h, S)[n][u]]
<1>1. IsFiniteSet(Nodes)
  BY InventoryAssumption
<1>2. ASSUME NEW n \in Nodes PROVE Worth(OwnedBy(S, n), u) \in Int
  <2>1. Countable(OwnedBy(S, n))
    BY FS_Subset DEF Countable, OwnedBy
  <2>. QED BY <2>1, WorthFacts
<1>3. \A n \in Nodes :
        /\ before[n] \in Int /\ share[n] \in Int /\ less[n] \in Int
        /\ more[n] = before[n] + share[n]
        /\ before[n] = less[n] + share[n]
  BY <1>2 DEF Credited, Debited
<1>4. SumFunctionOnSet(share, Nodes) = Worth(S, u) /\ Worth(S, u) \in Nat
  BY WorthByOwner, WorthFacts
<1>. HIDE DEF before, share, more, less
<1>5. SumFunctionOnSet(more, Nodes)
        = SumFunctionOnSet(before, Nodes) + SumFunctionOnSet(share, Nodes)
  BY <1>1, <1>3, SumPlus
<1>6. SumFunctionOnSet(before, Nodes)
        = SumFunctionOnSet(less, Nodes) + SumFunctionOnSet(share, Nodes)
  BY <1>1, <1>3, SumPlus
<1>7. SumFunctionOnSet(before, Nodes) \in Int /\ SumFunctionOnSet(less, Nodes) \in Int
  BY <1>1, <1>3, SumType
<1>8. /\ SumFunctionOnSet(more, Nodes) = SumFunctionOnSet(before, Nodes) + Worth(S, u)
      /\ SumFunctionOnSet(less, Nodes) = SumFunctionOnSet(before, Nodes) - Worth(S, u)
  BY <1>4, <1>5, <1>6, <1>7
<1>. QED
  BY <1>8 DEF before, more, less

\* A transaction lists finitely many values.
LEMMA PairsFacts ==
  ASSUME NEW S, NEW P \in Pairs(S)
  PROVE  P \subseteq S /\ IsFiniteSet(P)
<1>1. PICK v \in S, w \in S : P = {v, w}
  BY DEF Pairs
<1>2. IsFiniteSet({v}) /\ IsFiniteSet({w}) /\ {v, w} = {v} \cup {w}
  BY FS_Singleton
<1>. QED
  BY <1>1, <1>2, FS_Union

\* Values can be counted.
LEMMA ValuesCount ==
  ASSUME NEW S \in SUBSET Value, IsFiniteSet(S)
  PROVE  Countable(S)
BY ConstantsAssumption DEF Value, Amounts, Countable

\* The inventories that an issue leaves.
LEMMA IssueKeeps ==
  ASSUME TypeOK, InventoryTypeOK, InventoryIsMinted, applied < MaxApplied,
         NEW unit \in Units, NEW outputs \in Pairs(Presentable), ApplyIssue(unit, outputs)
  PROVE  InventoryTypeOK' /\ InventoryIsMinted'
<1>. DEFINE after == Credited(inv, outputs)
<1>1. Countable(outputs)
  BY PairsFacts, PresentableType, ValuesCount
<1>2. /\ inv' = after /\ applied' = applied + 1 /\ Fits(after)
      /\ minted' = [minted EXCEPT ![unit] = @ + Worth(outputs, unit)]
      /\ \A v \in outputs : v.unit = unit
  BY DEF ApplyIssue, Install, ValidateStructuralIssueTx
<1>3. \A n \in Nodes, u \in Units : inv[n][u] \in 0 .. MaxAmount
  BY DEF InventoryTypeOK
<1>4. minted \in [Units -> Nat] /\ applied \in Nat /\ MaxApplied \in Nat /\ MaxAmount \in Nat
  BY InventoryAssumption, ConstantsAssumption DEF InventoryTypeOK
<1>5. InventoryTypeOK'
  <2>1. ASSUME NEW n \in Nodes, NEW u \in Units PROVE after[n][u] \in 0 .. MaxAmount
    <3>1. Countable(OwnedBy(outputs, n))
      BY <1>1, FS_Subset DEF Countable, OwnedBy
    <3>2. Worth(OwnedBy(outputs, n), u) \in Nat
      BY <3>1, WorthFacts
    <3>3. after[n][u] = inv[n][u] + Worth(OwnedBy(outputs, n), u)
      BY DEF Credited
    <3>4. after[n][u] <= MaxAmount
      BY <1>2 DEF Fits
    <3>. HIDE DEF after
    <3>. QED BY <1>3, <1>4, <3>2, <3>3, <3>4
  <2>2. after \in [Nodes -> [Units -> 0 .. MaxAmount]]
    <3>1. \A n \in Nodes : after[n] \in [Units -> 0 .. MaxAmount]
      BY <2>1 DEF Credited
    <3>. QED BY <3>1 DEF Credited
  <2>3. Worth(outputs, unit) \in Nat
    BY <1>1, WorthFacts
  <2>4. minted' \in [Units -> Nat]
    BY <1>2, <1>4, <2>3
  <2>5. applied' \in 0 .. MaxApplied
    BY <1>2, <1>4
  <2>. QED BY <1>2, <2>2, <2>4, <2>5 DEF InventoryTypeOK
<1>6. ASSUME NEW u \in Units
      PROVE  SumFunctionOnSet([n \in Nodes |-> after[n][u]], Nodes) = minted'[u]
  <2>1. SumFunctionOnSet([n \in Nodes |-> after[n][u]], Nodes)
          = SumFunctionOnSet([n \in Nodes |-> inv[n][u]], Nodes) + Worth(outputs, u)
    <3>1. \A n \in Nodes, v \in Units : inv[n][v] \in Int
      BY <1>3
    <3>. QED BY <1>1, <3>1, CreditedTotal
  <2>2. SumFunctionOnSet([n \in Nodes |-> inv[n][u]], Nodes) = minted[u]
    BY DEF InventoryIsMinted
  <2>3. u # unit => Worth(outputs, u) = 0
    BY <1>1, <1>2, WorthFacts
  <2>4. minted'[u] = minted[u] + Worth(outputs, u)
    <3>1. CASE u = unit
      BY <1>2, <1>4, <3>1
    <3>2. CASE u # unit
      BY <1>2, <1>4, <2>3, <3>2
    <3>. QED BY <3>1, <3>2
  <2>. QED BY <2>1, <2>2, <2>4
<1>7. InventoryIsMinted'
  <2>. HIDE DEF after
  <2>. QED BY <1>2, <1>6 DEF InventoryIsMinted
<1>. QED BY <1>5, <1>7

\* The inventories that a trade leaves: each party was covered for what it gave,
\* and what both gave is what is given out.
LEMMA TradeKeeps ==
  ASSUME InventoryTypeOK, InventoryIsMinted, applied < MaxApplied,
         NEW tx, tx.partyA \in Nodes, tx.partyB \in Nodes,
         Countable(tx.inputsA), Countable(tx.inputsB), Countable(tx.outputs),
         ApplyTrade(tx)
  PROVE  InventoryTypeOK' /\ InventoryIsMinted'
<1>. DEFINE G == Gathered(tx)
            O == tx.outputs
            mid == Debited(inv, G)
            after == Credited(mid, O)
<1>1. /\ inv' = after /\ applied' = applied + 1 /\ minted' = minted /\ Fits(after)
      /\ ValidateTradeTx(tx)
  BY DEF ApplyTrade, Install
<1>2. Countable(G)
  BY FS_Union DEF Countable, Gathered
<1>3. \A n \in Nodes, u \in Units : inv[n][u] \in 0 .. MaxAmount
  BY DEF InventoryTypeOK
<1>4. applied \in Nat /\ MaxApplied \in Nat /\ MaxAmount \in Nat
  BY InventoryAssumption, ConstantsAssumption DEF InventoryTypeOK
<1>5. ASSUME NEW n \in Nodes, NEW u \in Units PROVE mid[n][u] \in Nat
  <2>1. mid[n][u] = inv[n][u] - Worth(OwnedBy(G, n), u)
    BY DEF Debited
  <2>2. Countable(OwnedBy(G, n))
    BY <1>2, FS_Subset DEF Countable, OwnedBy
  <2>3. Worth(OwnedBy(G, n), u) \in Nat
    BY <2>2, WorthFacts
  <2>4. Worth(OwnedBy(G, n), u) <= inv[n][u]
    <3>1. CASE n = tx.partyA
      <4>1. OwnedBy(G, n) = tx.inputsA
        BY <1>1, <3>1 DEF ValidateTradeTx, OwnedBy, Gathered
      <4>. QED BY <1>1, <3>1, <4>1 DEF ValidateTradeTx, Covered
    <3>2. CASE n = tx.partyB
      <4>1. OwnedBy(G, n) = tx.inputsB
        BY <1>1, <3>2 DEF ValidateTradeTx, OwnedBy, Gathered
      <4>. QED BY <1>1, <3>2, <4>1 DEF ValidateTradeTx, Covered
    <3>3. CASE n # tx.partyA /\ n # tx.partyB
      <4>1. OwnedBy(G, n) = {}
        BY <1>1, <3>3 DEF ValidateTradeTx, OwnedBy, Gathered
      <4>2. Worth(OwnedBy(G, n), u) = 0
        BY <2>2, <4>1, WorthFacts
      <4>. QED BY <1>3, <4>2
    <3>. QED BY <3>1, <3>2, <3>3
  <2>. HIDE DEF mid
  <2>. QED BY <1>3, <1>4, <2>1, <2>3, <2>4
<1>6. InventoryTypeOK'
  <2>1. ASSUME NEW n \in Nodes, NEW u \in Units PROVE after[n][u] \in 0 .. MaxAmount
    <3>1. Countable(OwnedBy(O, n))
      BY FS_Subset DEF Countable, OwnedBy
    <3>2. Worth(OwnedBy(O, n), u) \in Nat
      BY <3>1, WorthFacts
    <3>3. after[n][u] = mid[n][u] + Worth(OwnedBy(O, n), u)
      BY DEF Credited
    <3>4. after[n][u] <= MaxAmount
      BY <1>1 DEF Fits
    <3>5. mid[n][u] \in Nat
      BY <1>5
    <3>. HIDE DEF mid, after
    <3>. QED BY <1>4, <3>2, <3>3, <3>4, <3>5
  <2>2. after \in [Nodes -> [Units -> 0 .. MaxAmount]]
    <3>1. \A n \in Nodes : after[n] \in [Units -> 0 .. MaxAmount]
      BY <2>1 DEF Credited
    <3>. QED BY <3>1 DEF Credited
  <2>3. applied' \in 0 .. MaxApplied
    BY <1>1, <1>4
  <2>. QED BY <1>1, <2>2, <2>3 DEF InventoryTypeOK
<1>7. ASSUME NEW u \in Units
      PROVE  SumFunctionOnSet([n \in Nodes |-> after[n][u]], Nodes) = minted[u]
  <2>1. SumFunctionOnSet([n \in Nodes |-> mid[n][u]], Nodes)
          = SumFunctionOnSet([n \in Nodes |-> inv[n][u]], Nodes) - Worth(G, u)
    <3>1. \A n \in Nodes, v \in Units : inv[n][v] \in Int
      BY <1>3
    <3>. HIDE DEF G
    <3>. QED BY <1>2, <3>1, CreditedTotal
  <2>2. SumFunctionOnSet([n \in Nodes |-> after[n][u]], Nodes)
          = SumFunctionOnSet([n \in Nodes |-> mid[n][u]], Nodes) + Worth(O, u)
    <3>1. \A n \in Nodes, v \in Units : mid[n][v] \in Int
      BY <1>5
    <3>. HIDE DEF mid
    <3>. QED BY <3>1, CreditedTotal
  <2>3. SumFunctionOnSet([n \in Nodes |-> inv[n][u]], Nodes) = minted[u]
    BY DEF InventoryIsMinted
  <2>4. Worth(G, u) = Worth(O, u)
    <3>1. TradeConserves(tx)
      BY <1>1 DEF ValidateTradeTx
    <3>2. CASE u \in {v.unit : v \in G}
      BY <3>1, <3>2 DEF TradeConserves
    <3>3. CASE u \notin {v.unit : v \in G}
      <4>1. u \notin {v.unit : v \in O}
        BY <3>1, <3>3 DEF TradeConserves
      <4>2. Worth(G, u) = 0 /\ Worth(O, u) = 0
        BY <1>2, <3>3, <4>1, WorthFacts
      <4>. QED BY <4>2
    <3>. QED BY <3>2, <3>3
  <2>5. Worth(G, u) \in Nat /\ minted[u] \in Nat
    BY <1>2, WorthFacts DEF InventoryTypeOK
  <2>. QED BY <2>1, <2>2, <2>3, <2>4, <2>5
<1>8. InventoryIsMinted'
  <2>. HIDE DEF after
  <2>. QED BY <1>1, <1>7 DEF InventoryIsMinted
<1>. QED BY <1>6, <1>8

\* Applying any transaction keeps both inventory invariants.
LEMMA InventoryStep ==
  ASSUME TypeOK, InventoryTypeOK, InventoryIsMinted,
         [InventoryNext]_<<vars, inventoryVars>>
  PROVE  InventoryTypeOK' /\ InventoryIsMinted'
<1>1. CASE UNCHANGED inventoryVars
  BY <1>1, Zenon DEF inventoryVars, InventoryTypeOK, InventoryIsMinted
<1>2. CASE applied < MaxApplied /\ Apply
  <2>1. ASSUME NEW u \in Units, NEW outputs \in Pairs(Presentable), ApplyIssue(u, outputs)
        PROVE  InventoryTypeOK' /\ InventoryIsMinted'
    BY <1>2, <2>1, IssueKeeps
  <2>2. ASSUME NEW nodeA \in Nodes, NEW nodeB \in Nodes,
               NEW inputsA \in Pairs(Held(nodeA)) \cup {{}},
               NEW inputsB \in Pairs(Held(nodeB)) \cup {{}},
               NEW outputs \in Pairs({d \in TradeOutputs : KnownKind(inputsA \cup inputsB, d)}),
               ApplyTrade([partyA |-> nodeA, partyB |-> nodeB,
                           inputsA |-> inputsA, inputsB |-> inputsB, outputs |-> outputs])
        PROVE  InventoryTypeOK' /\ InventoryIsMinted'
    <3>. DEFINE tx == [partyA |-> nodeA, partyB |-> nodeB,
                       inputsA |-> inputsA, inputsB |-> inputsB, outputs |-> outputs]
    <3>1. ASSUME NEW node, NEW S \in Pairs(Held(node)) \cup {{}} PROVE Countable(S)
      <4>1. S \subseteq Held(node) /\ IsFiniteSet(S)
        BY PairsFacts, FS_EmptySet
      <4>2. Held(node) \subseteq Value
        BY PresentableType DEF Held
      <4>. QED BY <4>1, <4>2, ValuesCount
    <3>2. Countable(outputs)
      <4>1. outputs \subseteq TradeOutputs /\ IsFiniteSet(outputs)
        BY PairsFacts
      <4>2. TradeOutputs \subseteq Value
        BY ConstantsAssumption DEF TradeOutputs, Draft, Value
      <4>. QED BY <4>1, <4>2, ValuesCount
    <3>3. Countable(inputsA) /\ Countable(inputsB)
      BY <3>1
    <3>4. /\ tx.partyA = nodeA /\ tx.partyB = nodeB /\ tx.inputsA = inputsA
          /\ tx.inputsB = inputsB /\ tx.outputs = outputs
      OBVIOUS
    <3>5. ApplyTrade(tx)
      BY <2>2
    <3>. HIDE DEF tx
    <3>. QED BY <1>2, <3>2, <3>3, <3>4, <3>5, TradeKeeps
  <2>. QED BY <1>2, <2>1, <2>2 DEF Apply
<1>. QED
  BY <1>1, <1>2 DEF InventoryNext, inventoryVars

\* Together with the types of the values they are inductive.
LEMMA InventoryInvariance == InventorySpec => [](InventoryTypeOK /\ InventoryIsMinted)
<1>1. InventoryInit => InventoryTypeOK /\ InventoryIsMinted
  <2>. SUFFICES ASSUME InventoryInit PROVE InventoryTypeOK /\ InventoryIsMinted
    OBVIOUS
  <2>1. InventoryTypeOK
    BY InventoryAssumption, ConstantsAssumption DEF InventoryInit, InventoryTypeOK
  <2>2. ASSUME NEW u \in Units
        PROVE  SumFunctionOnSet([n \in Nodes |-> inv[n][u]], Nodes) = minted[u]
    <3>. DEFINE f == [n \in Nodes |-> inv[n][u]]
    <3>1. minted[u] = 0 /\ \A n \in Nodes : f[n] = 0
      BY DEF InventoryInit
    <3>. HIDE DEF f
    <3>2. SumFunctionOnSet(f, Nodes) = 0
      BY <3>1, InventoryAssumption, SumZero
    <3>. QED BY <3>1, <3>2 DEF f
  <2>. QED BY <2>1, <2>2 DEF InventoryIsMinted
<1>2. TypeOK /\ InventoryTypeOK /\ InventoryIsMinted /\ [InventoryNext]_<<vars, inventoryVars>>
        => InventoryTypeOK' /\ InventoryIsMinted'
  BY InventoryStep
<1>. QED
  BY <1>1, <1>2, InventoriesExtendValues, TypeCorrect, PTL DEF InventorySpec

\* No holding goes below zero or beyond an int64: a trade is applied only when
\* each party holds all that it gives, its inputs taken together.
THEOREM InventoryTypeCorrect == InventorySpec => []InventoryTypeOK
BY InventoryInvariance, PTL

\* Issues are the only source of holdings: trades, with outputs to whomever,
\* neither create nor destroy any.
THEOREM OnlyIssuesMint == InventorySpec => []InventoryIsMinted
BY InventoryInvariance, PTL
=============================================================================
