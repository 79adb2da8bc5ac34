-------------------------- MODULE NegotiationProofs --------------------------
(***************************************************************************)
(* Theorems about Negotiation for any number of connections, requests,     *)
(* deals and prices, any message limit and any bound on the clock.         *)
(***************************************************************************)
EXTENDS Negotiation, TLAPS

(***************************************************************************)
(* The operators of a session keep its type.                               *)
(***************************************************************************)
LEMMA NewSessionType == NewSession \in Sessions
BY DEF NewSession, Sessions

LEMMA BargainType ==
  ASSUME NEW q \in Quotes
  PROVE  Bargain(q) \in Bargains
BY DEF Quotes, Bargains, Bargain

LEMMA StoreType ==
  ASSUME NEW S \in Sessions, NEW q \in Quotes
  PROVE  [S EXCEPT !.quotes = @ \cup {q}] \in Sessions
BY DEF Sessions

LEMMA AskType ==
  ASSUME NEW S \in Sessions, NEW r \in Requests, NEW asked \in Asked \cup {NoRequest}
  PROVE  /\ [S EXCEPT !.requests[r] = asked] \in Sessions
         /\ [S EXCEPT !.requests[r] = asked].requests[r] = asked
BY DEF Sessions

LEMMA ClearType ==
  ASSUME NEW S \in Sessions, NEW Q
  PROVE  Clear(S, Q) \in Sessions
BY DEF Sessions, Clear

LEMMA ClearRequestType ==
  ASSUME NEW S \in Sessions, NEW r \in Requests
  PROVE  ClearRequest(S, r) \in Sessions
<1> DEFINE Q == {q \in S.quotes : q.request = r}
<1>1. Clear(S, Q) \in Sessions
  BY ClearType
<1>2. [Clear(S, Q) EXCEPT !.requests[r] = NoRequest] \in Sessions
  BY <1>1, AskType
<1>3. QED
  BY <1>2 DEF ClearRequest

LEMMA AddIntentType ==
  ASSUME NEW S \in Sessions, NEW q \in Quotes, NEW party \in Parties
  PROVE  AddIntent(S, q, party) \in Sessions
BY DEF Sessions, AddIntent

LEMMA AddTradeType ==
  ASSUME NEW S \in Sessions, NEW b \in Bargains
  PROVE  [S EXCEPT !.trades = @ \cup {b}] \in Sessions
BY DEF Sessions

LEMMA AuthorizeType ==
  ASSUME NEW S \in Sessions, NEW q \in Quotes
  PROVE  Authorize(S, q) \in Sessions
BY BargainType, AddTradeType DEF Authorize

(***************************************************************************)
(* Type correctness.  TypeOK is not inductive: QuoteSell is asked for the  *)
(* terms of a request, so the request must still be pending.               *)
(***************************************************************************)
QuotesAnswerRequests ==
  \A s \in Slots : pc[s] = "quoting" => session[s].requests[work[s]] # NoRequest

TypeInv == TypeOK /\ QuotesAnswerRequests

\* The part of the invariant that is about connections, which every step of a
\* handler changes.
ConnectionsOK ==
  /\ pc \in [Slots -> Idle \cup Operations]
  /\ work \in [Slots -> Requests \cup Quotes \cup {Nothing}]
  /\ \A s \in Slots :
       /\ pc[s] \in Idle => work[s] = Nothing
       /\ pc[s] = "quoting" => work[s] \in Requests
       /\ pc[s] \in Operations \ {"quoting"} => work[s] \in Quotes
  /\ session \in [Slots -> Sessions]
  /\ QuotesAnswerRequests

LEMMA RespondType ==
  ASSUME TypeInv, NEW s \in Slots, pc[s] = "reading",
         NEW S \in Sessions, Respond(s, S)
  PROVE  ConnectionsOK'
BY DEF TypeInv, TypeOK, QuotesAnswerRequests, ConnectionsOK, Respond, Remember

LEMMA OperateType ==
  ASSUME TypeInv, NEW s \in Slots, NEW step \in Operations, NEW on,
         NEW S \in Sessions, Operate(s, step, on, S),
         IF step = "quoting" THEN on \in Requests /\ S.requests[on] # NoRequest
         ELSE on \in Quotes
  PROVE  ConnectionsOK'
BY DEF TypeInv, TypeOK, QuotesAnswerRequests, ConnectionsOK, Operate, Remember,
       Operations, Idle

LEMMA ReturnType ==
  ASSUME TypeInv, NEW s \in Slots, NEW S \in Sessions, Return(s, S)
  PROVE  ConnectionsOK'
BY DEF TypeInv, TypeOK, QuotesAnswerRequests, ConnectionsOK, Return, Remember,
       Operations, Idle

LEMMA CloseType ==
  ASSUME TypeInv, NEW s \in Slots, Close(s),
         UNCHANGED <<serving, node, clock, signatures>>
  PROVE  TypeInv'
<1>1. ConnectionsOK'
  BY NewSessionType DEF TypeInv, TypeOK, QuotesAnswerRequests, ConnectionsOK, Close,
     Operations, Idle
<1>2. handled' \in [Slots -> 0 .. MaxMessages] /\ given' \in [Slots -> SUBSET Bargains]
  BY ConstantsAssumption DEF TypeInv, TypeOK, Close
<1>3. QED
  BY <1>1, <1>2 DEF TypeInv, TypeOK, QuotesAnswerRequests, ConnectionsOK, node

LEMMA ReceiveType ==
  ASSUME TypeInv, NEW s \in Slots, Receive(s), ConnectionsOK'
  PROVE  TypeInv'
<1>1. handled' \in [Slots -> 0 .. MaxMessages]
  <2>1. handled[s] + 1 \in 0 .. MaxMessages
    BY ConstantsAssumption DEF TypeInv, TypeOK, Receive, WithinLimit
  <2>2. handled' = [handled EXCEPT ![s] = handled[s] + 1]
    BY DEF Receive, Count
  <2>3. QED
    BY <2>1, <2>2 DEF TypeInv, TypeOK
<1>2. QED
  BY <1>1 DEF TypeInv, TypeOK, QuotesAnswerRequests, ConnectionsOK, Receive, node

\* Each message handler keeps the invariant.
LEMMA HandleType ==
  ASSUME TypeInv, NEW s \in Slots, Handle(s)
  PROVE  TypeInv'
<1>0. session[s] \in Sessions
  BY DEF TypeInv, TypeOK
<1>1. CASE Acknowledge(s)
  BY <1>0, <1>1, RespondType, ReceiveType DEF Acknowledge, Receive
<1>2. ASSUME NEW r \in Requests, NEW asked \in Asked, QuoteRequest(s, r, asked)
      PROVE  TypeInv'
  <2>1. CASE Respond(s, ClearRequest(session[s], r))
    BY <1>0, <1>2, <2>1, ClearRequestType, RespondType, ReceiveType
    DEF QuoteRequest, Receive
  <2>2. CASE Operate(s, "quoting", r, [session[s] EXCEPT !.requests[r] = asked])
    <3> DEFINE S == [session[s] EXCEPT !.requests[r] = asked]
    <3>1. S \in Sessions /\ S.requests[r] = asked /\ asked # NoRequest
      BY <1>0, AskType, ConstantsAssumption
    <3>2. "quoting" \in Operations
      BY DEF Operations
    <3> HIDE DEF S
    <3>3. ConnectionsOK'
      BY <2>2, <3>1, <3>2, OperateType DEF S
    <3>4. QED
      BY <1>2, <3>3, ReceiveType DEF QuoteRequest
  <2>3. QED
    BY <1>2, <2>1, <2>2 DEF QuoteRequest
<1>3. ASSUME NEW q \in Quotes, QuoteResponse(s, q)
      PROVE  TypeInv'
  <2> DEFINE T == [session[s] EXCEPT !.quotes = @ \cup {q}]
  <2>1. q.request \in Requests
    BY DEF Quotes
  <2>2. T \in Sessions
    BY <1>0, StoreType
  <2> HIDE DEF T
  <2>3. \/ Respond(s, ClearRequest(session[s], q.request))
        \/ Operate(s, "answering", q, T)
        \/ Respond(s, T)
    BY <1>3 DEF QuoteResponse, T
  <2>4. ConnectionsOK'
    BY <1>0, <1>3, <2>1, <2>2, <2>3, ClearRequestType, RespondType, OperateType
    DEF QuoteResponse, Receive, Operations
  <2>5. QED
    BY <1>3, <2>4, ReceiveType DEF QuoteResponse
<1>4. ASSUME NEW q \in session[s].quotes, SignedIntent(s, q)
      PROVE  TypeInv'
  <2> DEFINE T == AddIntent(session[s], q, "peer")
  <2>1. q \in Quotes
    BY <1>0 DEF Sessions
  <2>2. T \in Sessions
    BY <1>0, <2>1, AddIntentType DEF Parties
  <2> HIDE DEF T
  <2>3. \/ Respond(s, ClearNegotiation(session[s], q))
        \/ Respond(s, Authorize(T, q))
        \/ Operate(s, "signing", q, T)
    BY <1>4 DEF SignedIntent, T
  <2>4. ClearNegotiation(session[s], q) \in Sessions
    BY <1>0, ClearType DEF ClearNegotiation
  <2>5. Authorize(T, q) \in Sessions
    BY <2>1, <2>2, AuthorizeType
  <2>6. ConnectionsOK'
    BY <1>4, <2>1, <2>2, <2>3, <2>4, <2>5, RespondType, OperateType
    DEF SignedIntent, Receive, Operations
  <2>7. QED
    BY <1>4, <2>6, ReceiveType DEF SignedIntent
<1>5. ASSUME NEW q \in session[s].quotes, AuthorizedTrade(s, q)
      PROVE  TypeInv'
  <2> DEFINE T == [session[s] EXCEPT !.trades = @ \cup {Bargain(q)}]
  <2>1. q \in Quotes
    BY <1>0 DEF Sessions
  <2>2. T \in Sessions
    BY <1>0, <2>1, BargainType, AddTradeType
  <2> HIDE DEF T
  <2>3. Operate(s, "executing", q, T)
    BY <1>5 DEF AuthorizedTrade, T
  <2>4. ConnectionsOK'
    BY <2>1, <2>2, <2>3, OperateType DEF Operations
  <2>5. QED
    BY <1>5, <2>4, ReceiveType DEF AuthorizedTrade
<1>6. ASSUME NEW b \in Bargains, RefuseTrade(s, b) \/ UnknownResult(s, b)
      PROVE  TypeInv'
  BY <1>6, CloseType DEF RefuseTrade, UnknownResult
<1>7. QED
  BY <1>1, <1>2, <1>3, <1>4, <1>5, <1>6 DEF Handle

\* So does what follows an operation of the node.
LEMMA WorkType ==
  ASSUME TypeInv, NEW s \in Slots, Work(s)
  PROVE  TypeInv'
<1>0. session[s] \in Sessions
  BY DEF TypeInv, TypeOK
<1>1. CASE LimitReached(s) \/ ExecuteFails(s)
  BY <1>1, CloseType DEF LimitReached, ExecuteFails
<1>2. ASSUME NEW p \in Prices \cup {0}, MakeQuote(s, p)
      PROVE  TypeInv'
  <2> DEFINE q == [request |-> work[s], deal |-> session[s].requests[work[s]].deal,
                   price |-> p, expiry |-> clock]
  <2>1. work[s] \in Requests /\ session[s].requests[work[s]] \in Asked
    BY <1>0, <1>2 DEF MakeQuote, At, TypeInv, TypeOK, QuotesAnswerRequests, Sessions
  <2>2. q \in Quotes
    BY <2>1 DEF Quotes, Asked, TypeInv, TypeOK
  <2>3. Return(s, [session[s] EXCEPT !.quotes = @ \cup {q}])
    BY <1>2 DEF MakeQuote
  <2> HIDE DEF q
  <2>4. ConnectionsOK'
    BY <1>0, <2>2, <2>3, StoreType, ReturnType
  <2>5. QED
    BY <1>2, <2>4
    DEF MakeQuote, TypeInv, TypeOK, QuotesAnswerRequests, ConnectionsOK, node
<1>3. CASE SignFails(s)
  <2>1. ConnectionsOK'
    BY <1>0, <1>3, ReturnType DEF SignFails
  <2>2. QED
    BY <1>3, <2>1
    DEF SignFails, TypeInv, TypeOK, QuotesAnswerRequests, ConnectionsOK, node
<1>4. CASE Answer(s) \/ Sign(s)
  <2> DEFINE T == AddIntent(session[s], work[s], "local")
  <2>1. work[s] \in Quotes
    BY <1>4 DEF Answer, Sign, At, TypeInv, TypeOK, Operations
  <2>2. T \in Sessions
    BY <1>0, <2>1, AddIntentType DEF Parties
  <2>3. Return(s, T) \/ Return(s, Authorize(T, work[s]))
    BY <1>4 DEF Answer, Sign
  <2> HIDE DEF T
  <2>4. ConnectionsOK'
    BY <2>1, <2>2, <2>3, AuthorizeType, ReturnType
  <2>5. SignLocally(s) /\ Bargain(work[s]) \in Bargains
    BY <1>4, <2>1, BargainType DEF Answer, Sign
  <2>6. QED
    BY <2>4, <2>5
    DEF SignLocally, TypeInv, TypeOK, QuotesAnswerRequests, ConnectionsOK, node
<1>5. CASE Execute(s)
  <2> DEFINE b == Bargain(work[s])
  <2>1. work[s] \in Quotes
    BY <1>5 DEF Execute, At, TypeInv, TypeOK, Operations
  <2>2. b \in Bargains
    BY <2>1, BargainType
  <2>3. ConnectionsOK'
    BY <1>0, <1>5, ClearType, ReturnType DEF Execute, ClearNegotiation
  <2>4. executed[b] + 1 \in Nat
    BY <2>2 DEF TypeInv, TypeOK
  <2>5. executed' \in [Bargains -> Nat]
    BY <1>5, <2>2, <2>4 DEF Execute, TypeInv, TypeOK
  <2>6. remembered' \subseteq Bargains /\ ledger' \subseteq Bargains
    BY <1>5, <2>2 DEF Execute, TypeInv, TypeOK
  <2>7. QED
    BY <1>5, <2>3, <2>5, <2>6
    DEF Execute, TypeInv, TypeOK, QuotesAnswerRequests, ConnectionsOK
<1>6. QED
  BY <1>1, <1>2, <1>3, <1>4, <1>5 DEF Work

LEMMA TypeInit == Init => TypeInv
<1>1. SUFFICES ASSUME Init PROVE TypeInv
  OBVIOUS
<1>2. 0 \in 0 .. MaxMessages /\ 1 \in Times
  BY ConstantsAssumption DEF Times
<1>3. QED
  BY <1>1, <1>2, NewSessionType
  DEF Init, TypeInv, TypeOK, QuotesAnswerRequests, Idle, Operations

LEMMA TypeStep == TypeInv /\ [Next]_vars => TypeInv'
<1> SUFFICES ASSUME TypeInv, [Next]_vars PROVE TypeInv'
  OBVIOUS
<1>1. ASSUME NEW s \in Slots, Accept(s) PROVE TypeInv'
  BY <1>1 DEF Accept, node, TypeInv, TypeOK, QuotesAnswerRequests, Idle, Operations
<1>2. ASSUME NEW s \in Slots, Read(s) PROVE TypeInv'
  BY <1>2, HandleType, CloseType DEF Read, Hangup
<1>3. ASSUME NEW s \in Slots, Work(s) PROVE TypeInv'
  BY <1>3, WorkType
<1>4. CASE Shutdown
  BY <1>4 DEF Shutdown, connections, node, TypeInv, TypeOK, QuotesAnswerRequests
<1>5. CASE CrashRestart
  <2>1. 0 \in 0 .. MaxMessages
    BY ConstantsAssumption
  <2>2. QED
    BY <1>5, <2>1, NewSessionType
    DEF CrashRestart, TypeInv, TypeOK, QuotesAnswerRequests, Idle, Operations
<1>6. CASE Tick
  <2>1. clock' \in Times
    BY <1>6, ConstantsAssumption DEF Tick, Times, TypeInv, TypeOK
  <2>2. QED
    BY <1>6, <2>1 DEF Tick, connections, node, TypeInv, TypeOK, QuotesAnswerRequests
<1>7. CASE UNCHANGED vars
  BY <1>7 DEF vars, TypeInv, TypeOK, QuotesAnswerRequests
<1>8. QED
  BY <1>1, <1>2, <1>3, <1>4, <1>5, <1>6, <1>7 DEF Next

\* Sessions, operations, message counts, replay sets and histories keep their
\* types, on every connection and across crashes.
THEOREM TypeCorrect == Spec => []TypeOK
<1>1. Spec => []TypeInv
  BY TypeInit, TypeStep, PTL DEF Spec
<1>2. TypeInv => TypeOK
  BY DEF TypeInv
<1>3. QED
  BY <1>1, <1>2, PTL

(***************************************************************************)
(* Replay: what was executed is in the ledger, which no step shortens.     *)
(***************************************************************************)
LedgerInv ==
  \A b \in Bargains : executed[b] <= 1 /\ (b \notin ledger => executed[b] = 0)

LEMMA LedgerStep == TypeInv /\ LedgerInv /\ [Next]_vars => LedgerInv'
<1> SUFFICES ASSUME TypeInv, LedgerInv, [Next]_vars PROVE LedgerInv'
  OBVIOUS
<1>1. CASE UNCHANGED <<ledger, executed>>
  BY <1>1 DEF LedgerInv
<1>2. ASSUME NEW s \in Slots, Execute(s) PROVE LedgerInv'
  <2> DEFINE b == Bargain(work[s])
  <2>1. b \in Bargains
    BY <1>2, BargainType DEF Execute, At, TypeInv, TypeOK, Operations
  <2>2. executed[b] = 0
    BY <1>2, <2>1 DEF Execute, Replayed, LedgerInv
  <2>3. executed' = [executed EXCEPT ![b] = 1] /\ ledger' = ledger \cup {b}
    BY <1>2, <2>2 DEF Execute
  <2>4. QED
    BY <2>1, <2>3 DEF LedgerInv, TypeInv, TypeOK
<1>3. ASSUME NEW s \in Slots, Read(s) PROVE UNCHANGED <<ledger, executed>>
  BY <1>3 DEF Read, Hangup, Handle, Acknowledge, QuoteRequest, QuoteResponse,
     SignedIntent, AuthorizedTrade, RefuseTrade, UnknownResult, Receive, node
<1>4. ASSUME NEW s \in Slots, Work(s), ~Execute(s)
      PROVE  UNCHANGED <<ledger, executed>>
  BY <1>4 DEF Work, LimitReached, MakeQuote, Answer, Sign, SignFails, ExecuteFails,
     SignLocally, node
<1>5. ASSUME NEW s \in Slots, Accept(s) PROVE UNCHANGED <<ledger, executed>>
  BY <1>5 DEF Accept, node
<1>6. CASE Shutdown \/ CrashRestart \/ Tick \/ UNCHANGED vars
  BY <1>1, <1>6 DEF Shutdown, CrashRestart, Tick, node, vars
<1>7. QED
  BY <1>1, <1>2, <1>3, <1>4, <1>5, <1>6 DEF Next

\* The two signatures of a bargain lead to one execution, whatever connections,
\* repeated negotiations, lost results and restarts come in between.
THEOREM ExecutesOnce == Spec => []ExecutedOnce
<1>1. Init => LedgerInv
  BY DEF Init, LedgerInv
<1>2. Spec => []LedgerInv
  BY <1>1, TypeInit, TypeStep, LedgerStep, PTL DEF Spec
<1>3. LedgerInv => ExecutedOnce
  BY DEF LedgerInv, ExecutedOnce
<1>4. QED
  BY <1>2, <1>3, PTL

(***************************************************************************)
(* Consent.  What a session has pending agrees with itself, and with the   *)
(* signatures g that the local node gave on its connection.                *)
(***************************************************************************)
Consistent(S, g) ==
  /\ \A i \in S.intents : i[1] \in S.quotes
  /\ \A b \in S.trades : \E q \in S.quotes : Bargain(q) = b /\ Agreed(S, q)
  /\ \A q \in S.quotes : Signed(S, q, "local") => Bargain(q) \in g

LEMMA NewSessionConsistent == Consistent(NewSession, {})
BY DEF NewSession, Consistent

LEMMA StoreConsistent ==
  ASSUME NEW S \in Sessions, NEW g, Consistent(S, g), NEW q \in Quotes
  PROVE  Consistent([S EXCEPT !.quotes = @ \cup {q}], g)
<1> DEFINE T == [S EXCEPT !.quotes = @ \cup {q}]
<1>1. T.intents = S.intents /\ T.trades = S.trades /\ T.quotes = S.quotes \cup {q}
  BY DEF Sessions
<1>2. \A p \in Quotes, party \in Parties : Signed(T, p, party) <=> Signed(S, p, party)
  BY <1>1 DEF Signed
<1>3. \A p \in Quotes : Signed(S, p, "local") => p \in S.quotes
  BY DEF Signed, Consistent
<1>4. S.quotes \subseteq Quotes
  BY DEF Sessions
<1> HIDE DEF T
<1>5. \A b \in T.trades : \E p \in T.quotes : Bargain(p) = b /\ Agreed(T, p)
  BY <1>1, <1>2, <1>4 DEF Consistent, Agreed, Parties
<1>6. \A p \in T.quotes : Signed(T, p, "local") => Bargain(p) \in g
  BY <1>1, <1>2, <1>3, <1>4 DEF Consistent, Parties
<1>7. QED
  BY <1>1, <1>5, <1>6 DEF Consistent, T

LEMMA AskConsistent ==
  ASSUME NEW S \in Sessions, NEW g, Consistent(S, g), NEW r, NEW asked
  PROVE  Consistent([S EXCEPT !.requests[r] = asked], g)
<1> DEFINE T == [S EXCEPT !.requests[r] = asked]
<1>1. T.intents = S.intents /\ T.trades = S.trades /\ T.quotes = S.quotes
  BY DEF Sessions
<1> HIDE DEF T
<1>2. Consistent(T, g)
  BY <1>1 DEF Consistent, Agreed, Signed
<1>3. QED
  BY <1>2 DEF T

\* Clearing quotes clears every intent and every trade that depends on them.
LEMMA ClearConsistent ==
  ASSUME NEW S \in Sessions, NEW g, Consistent(S, g), NEW Q
  PROVE  Consistent(Clear(S, Q), g)
<1> DEFINE T == Clear(S, Q)
<1>1. /\ T.quotes = S.quotes \ Q
      /\ T.intents = {i \in S.intents : i[1] \notin Q}
      /\ T.trades = S.trades \ {Bargain(q) : q \in Q}
  BY DEF Clear
<1> HIDE DEF T
<1>2. \A q, party : q \notin Q => (Signed(T, q, party) <=> Signed(S, q, party))
  BY <1>1 DEF Signed
<1>3. \A i \in T.intents : i[1] \in T.quotes
  BY <1>1 DEF Consistent
<1>4. ASSUME NEW b \in T.trades
      PROVE  \E q \in T.quotes : Bargain(q) = b /\ Agreed(T, q)
  <2>1. PICK q \in S.quotes : Bargain(q) = b /\ Agreed(S, q)
    BY <1>1 DEF Consistent
  <2>2. q \notin Q
    BY <1>1, <2>1
  <2>3. QED
    BY <1>1, <1>2, <2>1, <2>2 DEF Agreed
<1>5. \A q \in T.quotes : Signed(T, q, "local") => Bargain(q) \in g
  BY <1>1, <1>2 DEF Consistent
<1>6. QED
  BY <1>3, <1>4, <1>5 DEF Consistent, T

LEMMA ClearRequestConsistent ==
  ASSUME NEW S \in Sessions, NEW g, Consistent(S, g), NEW r \in Requests
  PROVE  Consistent(ClearRequest(S, r), g)
<1> DEFINE T == Clear(S, {q \in S.quotes : q.request = r})
<1>1. T \in Sessions /\ Consistent(T, g)
  BY ClearType, ClearConsistent
<1>2. ClearRequest(S, r) = [T EXCEPT !.requests[r] = NoRequest]
  BY DEF ClearRequest
<1> HIDE DEF T
<1>3. QED
  BY <1>1, <1>2, AskConsistent

LEMMA AddIntentConsistent ==
  ASSUME NEW S \in Sessions, NEW g, NEW h, Consistent(S, g), g \subseteq h,
         NEW q \in S.quotes, NEW party \in Parties, party = "local" => Bargain(q) \in h
  PROVE  Consistent(AddIntent(S, q, party), h)
<1> DEFINE T == AddIntent(S, q, party)
<1>1. /\ T.quotes = S.quotes /\ T.trades = S.trades
      /\ T.intents = S.intents \cup {<<q, party>>}
  BY DEF AddIntent, Sessions
<1> HIDE DEF T
<1>2. \A p, x : Signed(T, p, x) <=> Signed(S, p, x) \/ (p = q /\ x = party)
  BY <1>1 DEF Signed
<1>3. \A i \in T.intents : i[1] \in T.quotes
  BY <1>1 DEF Consistent
<1>4. \A b \in T.trades : \E p \in T.quotes : Bargain(p) = b /\ Agreed(T, p)
  BY <1>1, <1>2 DEF Consistent, Agreed
<1>5. \A p \in T.quotes : Signed(T, p, "local") => Bargain(p) \in h
  BY <1>1, <1>2 DEF Consistent
<1>6. QED
  BY <1>3, <1>4, <1>5 DEF Consistent, T

LEMMA AddTradeConsistent ==
  ASSUME NEW S \in Sessions, NEW g, Consistent(S, g), NEW q \in S.quotes, Agreed(S, q)
  PROVE  Consistent([S EXCEPT !.trades = @ \cup {Bargain(q)}], g)
<1> DEFINE T == [S EXCEPT !.trades = @ \cup {Bargain(q)}]
<1>1. /\ T.quotes = S.quotes /\ T.intents = S.intents
      /\ T.trades = S.trades \cup {Bargain(q)}
  BY DEF Sessions
<1> HIDE DEF T
<1>2. \A p, x : Signed(T, p, x) <=> Signed(S, p, x)
  BY <1>1 DEF Signed
<1>3. Consistent(T, g)
  BY <1>1, <1>2 DEF Consistent, Agreed
<1>4. QED
  BY <1>3 DEF T

LEMMA AuthorizeConsistent ==
  ASSUME NEW S \in Sessions, NEW g, Consistent(S, g), NEW q \in S.quotes
  PROVE  Consistent(Authorize(S, q), g)
BY AddTradeConsistent DEF Authorize

ConsentInv ==
  \A s \in Slots :
    /\ Consistent(session[s], given[s])
    /\ pc[s] \in Operations \ {"quoting"} => work[s] \in session[s].quotes
    /\ pc[s] = "executing" => Agreed(session[s], work[s])

LEMMA RespondConsent ==
  ASSUME TypeInv, ConsentInv, NEW s \in Slots, pc[s] = "reading", NEW S \in Sessions,
         Consistent(S, given[s]), Respond(s, S), given' = given
  PROVE  ConsentInv'
<1>1. session' = [session EXCEPT ![s] = S] /\ UNCHANGED <<pc, work>>
  BY DEF Respond, Remember
<1>2. \A z \in Slots : session'[z] = (IF z = s THEN S ELSE session[z])
  BY <1>1 DEF TypeInv, TypeOK
<1>3. QED
  BY <1>1, <1>2 DEF ConsentInv, Operations

LEMMA OperateConsent ==
  ASSUME TypeInv, ConsentInv, NEW s \in Slots, NEW step, NEW on, NEW S \in Sessions,
         Consistent(S, given[s]), Operate(s, step, on, S), given' = given,
         step # "quoting" => on \in S.quotes,
         step = "executing" => Agreed(S, on)
  PROVE  ConsentInv'
<1>1. \A z \in Slots :
        /\ session'[z] = (IF z = s THEN S ELSE session[z])
        /\ pc'[z] = (IF z = s THEN step ELSE pc[z])
        /\ work'[z] = (IF z = s THEN on ELSE work[z])
  BY DEF Operate, Remember, TypeInv, TypeOK
<1>2. QED
  BY <1>1 DEF ConsentInv

LEMMA ReturnConsent ==
  ASSUME TypeInv, ConsentInv, NEW s \in Slots, NEW S \in Sessions, NEW g,
         Consistent(S, g), Return(s, S), given' = [given EXCEPT ![s] = g]
  PROVE  ConsentInv'
<1>1. \A z \in Slots :
        /\ session'[z] = (IF z = s THEN S ELSE session[z])
        /\ given'[z] = (IF z = s THEN g ELSE given[z])
        /\ pc'[z] = (IF z = s THEN "reading" ELSE pc[z])
        /\ z # s => work'[z] = work[z]
  BY DEF Return, Remember, TypeInv, TypeOK
<1>2. QED
  BY <1>1 DEF ConsentInv, Operations

LEMMA CloseConsent ==
  ASSUME TypeInv, ConsentInv, NEW s \in Slots, Close(s)
  PROVE  ConsentInv'
<1>1. \A z \in Slots :
        /\ session'[z] = (IF z = s THEN NewSession ELSE session[z])
        /\ given'[z] = (IF z = s THEN {} ELSE given[z])
        /\ pc'[z] = (IF z = s THEN "free" ELSE pc[z])
        /\ z # s => work'[z] = work[z]
  BY DEF Close, TypeInv, TypeOK
<1>2. QED
  BY <1>1, NewSessionConsistent DEF ConsentInv, Operations

LEMMA HandleConsent ==
  ASSUME TypeInv, ConsentInv, NEW s \in Slots, Handle(s)
  PROVE  ConsentInv'
<1>0. session[s] \in Sessions /\ Consistent(session[s], given[s])
  BY DEF TypeInv, TypeOK, ConsentInv
<1>1. CASE Acknowledge(s)
  BY <1>0, <1>1, RespondConsent DEF Acknowledge, Receive
<1>2. ASSUME NEW r \in Requests, NEW asked \in Asked, QuoteRequest(s, r, asked)
      PROVE  ConsentInv'
  <2> DEFINE S == [session[s] EXCEPT !.requests[r] = asked]
  <2>1. CASE Respond(s, ClearRequest(session[s], r))
    BY <1>0, <1>2, <2>1, ClearRequestType, ClearRequestConsistent, RespondConsent
    DEF QuoteRequest, Receive
  <2>2. CASE Operate(s, "quoting", r, S)
    <3>1. S \in Sessions /\ Consistent(S, given[s])
      BY <1>0, AskType, AskConsistent
    <3> HIDE DEF S
    <3>2. QED
      BY <1>2, <2>2, <3>1, OperateConsent DEF QuoteRequest, Receive
  <2>3. QED
    BY <1>2, <2>1, <2>2 DEF QuoteRequest
<1>3. ASSUME NEW q \in Quotes, QuoteResponse(s, q)
      PROVE  ConsentInv'
  <2> DEFINE T == [session[s] EXCEPT !.quotes = @ \cup {q}]
  <2>1. q.request \in Requests
    BY DEF Quotes
  <2>2. T \in Sessions /\ Consistent(T, given[s]) /\ q \in T.quotes
    BY <1>0, StoreType, StoreConsistent DEF Sessions
  <2> HIDE DEF T
  <2>3. \/ Respond(s, ClearRequest(session[s], q.request))
        \/ Operate(s, "answering", q, T)
        \/ Respond(s, T)
    BY <1>3 DEF QuoteResponse, T
  <2>4. pc[s] = "reading" /\ given' = given
    BY <1>3 DEF QuoteResponse, Receive
  <2>5. ClearRequest(session[s], q.request) \in Sessions
        /\ Consistent(ClearRequest(session[s], q.request), given[s])
    BY <1>0, <2>1, ClearRequestType, ClearRequestConsistent
  <2>6. QED
    BY <2>2, <2>3, <2>4, <2>5, RespondConsent, OperateConsent
<1>4. ASSUME NEW q \in session[s].quotes, SignedIntent(s, q)
      PROVE  ConsentInv'
  <2> DEFINE T == AddIntent(session[s], q, "peer")
  <2>1. q \in Quotes
    BY <1>0 DEF Sessions
  <2>2. T \in Sessions /\ Consistent(T, given[s]) /\ q \in T.quotes
    BY <1>0, <2>1, AddIntentType, AddIntentConsistent DEF Parties, AddIntent, Sessions
  <2> HIDE DEF T
  <2>3. \/ Respond(s, ClearNegotiation(session[s], q))
        \/ Respond(s, Authorize(T, q))
        \/ Operate(s, "signing", q, T)
    BY <1>4 DEF SignedIntent, T
  <2>4. ClearNegotiation(session[s], q) \in Sessions
        /\ Consistent(ClearNegotiation(session[s], q), given[s])
    BY <1>0, ClearType, ClearConsistent DEF ClearNegotiation
  <2>5. Authorize(T, q) \in Sessions /\ Consistent(Authorize(T, q), given[s])
    BY <2>1, <2>2, AuthorizeType, AuthorizeConsistent
  <2>6. pc[s] = "reading" /\ given' = given
    BY <1>4 DEF SignedIntent, Receive
  <2>7. QED
    BY <2>2, <2>3, <2>4, <2>5, <2>6, RespondConsent, OperateConsent
<1>5. ASSUME NEW q \in session[s].quotes, AuthorizedTrade(s, q)
      PROVE  ConsentInv'
  <2> DEFINE T == [session[s] EXCEPT !.trades = @ \cup {Bargain(q)}]
  <2>1. q \in Quotes /\ Agreed(session[s], q)
    BY <1>0, <1>5 DEF AuthorizedTrade, Sessions
  <2>2. T \in Sessions /\ Consistent(T, given[s])
    BY <1>0, <2>1, BargainType, AddTradeType, AddTradeConsistent
  <2>3. q \in T.quotes /\ Agreed(T, q)
    BY <1>0, <2>1 DEF Sessions, Agreed, Signed
  <2> HIDE DEF T
  <2>4. Operate(s, "executing", q, T) /\ given' = given
    BY <1>5 DEF AuthorizedTrade, Receive, T
  <2>5. QED
    BY <2>2, <2>3, <2>4, OperateConsent
<1>6. ASSUME NEW b \in Bargains, RefuseTrade(s, b) \/ UnknownResult(s, b)
      PROVE  ConsentInv'
  BY <1>6, CloseConsent DEF RefuseTrade, UnknownResult
<1>7. QED
  BY <1>1, <1>2, <1>3, <1>4, <1>5, <1>6 DEF Handle

LEMMA WorkConsent ==
  ASSUME TypeInv, ConsentInv, NEW s \in Slots, Work(s)
  PROVE  ConsentInv'
<1>0. /\ session[s] \in Sessions /\ Consistent(session[s], given[s])
      /\ given \in [Slots -> SUBSET Bargains]
      /\ given = [given EXCEPT ![s] = given[s]]
  BY DEF TypeInv, TypeOK, ConsentInv
<1>1. CASE LimitReached(s) \/ ExecuteFails(s)
  BY <1>1, CloseConsent DEF LimitReached, ExecuteFails
<1>2. ASSUME NEW p \in Prices \cup {0}, MakeQuote(s, p)
      PROVE  ConsentInv'
  <2> DEFINE q == [request |-> work[s], deal |-> session[s].requests[work[s]].deal,
                   price |-> p, expiry |-> clock]
  <2>1. work[s] \in Requests /\ session[s].requests[work[s]] \in Asked
    BY <1>0, <1>2 DEF MakeQuote, At, TypeInv, TypeOK, QuotesAnswerRequests, Sessions
  <2>2. q \in Quotes
    BY <2>1 DEF Quotes, Asked, TypeInv, TypeOK
  <2>3. Return(s, [session[s] EXCEPT !.quotes = @ \cup {q}]) /\ given' = given
    BY <1>2 DEF MakeQuote
  <2> HIDE DEF q
  <2>4. QED
    BY <1>0, <2>2, <2>3, StoreType, StoreConsistent, ReturnConsent
<1>3. CASE SignFails(s)
  BY <1>0, <1>3, ReturnConsent DEF SignFails
<1>4. CASE Answer(s) \/ Sign(s)
  <2> DEFINE T == AddIntent(session[s], work[s], "local")
  <2> DEFINE g == given[s] \cup {Bargain(work[s])}
  <2>1. work[s] \in Quotes /\ work[s] \in session[s].quotes
    BY <1>4 DEF Answer, Sign, At, TypeInv, TypeOK, ConsentInv, Operations
  <2>2. T \in Sessions /\ work[s] \in T.quotes
    BY <1>0, <2>1, AddIntentType DEF Parties, AddIntent, Sessions
  <2>3. Consistent(T, g)
    BY <1>0, <2>1, AddIntentConsistent DEF Parties
  <2>4. Authorize(T, work[s]) \in Sessions /\ Consistent(Authorize(T, work[s]), g)
    BY <2>1, <2>2, <2>3, AuthorizeType, AuthorizeConsistent
  <2>5. Return(s, T) \/ Return(s, Authorize(T, work[s]))
    BY <1>4 DEF Answer, Sign
  <2>6. given' = [given EXCEPT ![s] = g]
    BY <1>4 DEF Answer, Sign, SignLocally
  <2> HIDE DEF T, g
  <2>7. QED
    BY <2>2, <2>3, <2>4, <2>5, <2>6, ReturnConsent
<1>5. CASE Execute(s)
  <2>1. /\ Return(s, Clear(session[s], {work[s]}))
        /\ given' = [given EXCEPT ![s] = given[s]]
    BY <1>0, <1>5 DEF Execute, ClearNegotiation
  <2>2. QED
    BY <1>0, <2>1, ClearType, ClearConsistent, ReturnConsent
<1>6. QED
  BY <1>1, <1>2, <1>3, <1>4, <1>5 DEF Work

LEMMA ConsentInit == Init => ConsentInv
BY NewSessionConsistent DEF Init, ConsentInv, Operations

LEMMA ConsentStep == TypeInv /\ ConsentInv /\ [Next]_vars => ConsentInv'
<1> SUFFICES ASSUME TypeInv, ConsentInv, [Next]_vars PROVE ConsentInv'
  OBVIOUS
<1>1. ASSUME NEW s \in Slots, Accept(s) PROVE ConsentInv'
  BY <1>1 DEF Accept, TypeInv, TypeOK, ConsentInv, Operations
<1>2. ASSUME NEW s \in Slots, Read(s) PROVE ConsentInv'
  BY <1>2, HandleConsent, CloseConsent DEF Read, Hangup
<1>3. ASSUME NEW s \in Slots, Work(s) PROVE ConsentInv'
  BY <1>3, WorkConsent
<1>4. CASE CrashRestart
  BY <1>4, NewSessionConsistent DEF CrashRestart, ConsentInv, Operations
<1>5. CASE Shutdown \/ Tick \/ UNCHANGED vars
  BY <1>5 DEF Shutdown, Tick, vars, connections, ConsentInv
<1>6. QED
  BY <1>1, <1>2, <1>3, <1>4, <1>5 DEF Next

LEMMA Consent == Spec => []ConsentInv
BY TypeInit, TypeStep, ConsentInit, ConsentStep, PTL DEF Spec

\* A trade is executed only with a local signature that was given on the same
\* connection, on a pending quote that the peer signed there: authorizations
\* from earlier connections are of no use (authorizedNegotiation).
THEOREM OwnNegotiation == Spec => []ExecutesOwnNegotiation
<1>1. ConsentInv => ExecutesOwnNegotiation
  BY DEF ConsentInv, ExecutesOwnNegotiation, Consistent, Agreed, Operations
<1>2. QED
  BY <1>1, Consent, PTL

\* However requests, quotes and trades are cleared, a session keeps no intent
\* without its quote and no trade without a quote that both signed.
THEOREM NoOrphans == Spec => []NothingOrphaned
<1>1. ConsentInv => NothingOrphaned
  BY DEF ConsentInv, NothingOrphaned, Consistent
<1>2. QED
  BY <1>1, Consent, PTL
=============================================================================
