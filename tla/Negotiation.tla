---------------------------- MODULE Negotiation -----------------------------
(***************************************************************************)
(* A serving node and the connections of its peer: the accept loop and     *)
(* PeerRuntime.Serve (core/net), and the handler with one session per      *)
(* connection (core/handler), over one node with a store.                  *)
(*                                                                         *)
(* The peer sends any well-formed message it can sign.  Whatever ends a    *)
(* connection without a further effect (an error of HandleMessage, a read  *)
(* deadline, a failed write) is one action, Hangup.  Signing and quoting   *)
(* take the mutex of the node and execution the execution mutex, so each   *)
(* is a step of its own after the checks of its handler: the clock may     *)
(* move, and other connections may trade, in between.                      *)
(*                                                                         *)
(* Only a peer can open a negotiation, as the buyer: no code registers a   *)
(* request of the local node.  Executing a trade is one step here:         *)
(* NodeTrade has its locks and JSONStore its files.                        *)
(***************************************************************************)
EXTENDS Integers, FiniteSets

CONSTANTS
  Slots,        \* the connection slots of the server (MaxConnections)
  MaxMessages,  \* messages handled on one connection
  Requests,     \* ids of quote requests
  Deals,        \* what is for sale: units and sell amount
  Prices,       \* buy amounts of executable quotes
  NoRequest, Nothing,
  MaxSignedIntentAge,
  MaxTime,      \* bound on the clock
  Expiries      \* the expiries that the peer asks for and proposes; 0 is "never"

Times == 0 .. MaxTime
Parties == {"local", "peer"}

\* What a request asks for.
Asked == [deal : Deals, expiry : Expiries]

\* A quote response.  Its price is 0 when it is not executable.
Quotes == [request : Requests, deal : Deals, price : Prices \cup {0}, expiry : Times]

\* What an intent signs, and what the id of an authorized trade depends on: the
\* terms and the timestamp of the quote, and not the request it answers.
Bargains == [deal : Deals, price : Prices \cup {0}, expiry : Times]
Bargain(q) == [deal |-> q.deal, price |-> q.price, expiry |-> q.expiry]

Executable(q) == q.price > 0

ASSUME ConstantsAssumption ==
  /\ MaxMessages \in Nat \ {0}
  /\ Prices \subseteq Nat \ {0}
  /\ NoRequest \notin Asked
  /\ Nothing \notin Requests /\ Nothing \notin Quotes
  /\ MaxSignedIntentAge \in Nat /\ MaxTime \in Nat \ {0}
  /\ Expiries \subseteq Times

VARIABLES
  serving,    \* the context of ListenAndServe is not cancelled
  pc,         \* pc[s]: "free", "reading", or the node operation in progress
  work,       \* work[s]: the request or quote that the operation is for
  handled,    \* handled[s]: the messages of the connection so far
  session,    \* session[s]: what the connection's Session has pending
  remembered, \* the node's ExecutedTrades
  ledger,     \* the trades for which the store's HasExecutedTrade holds
  clock,      \* NowUnix
  given,      \* history: given[s], the bargains that the local node signed here
  signatures, \* every bargain whose local signature the peer may present
  executed    \* history: how often each bargain was executed

connections == <<pc, work, handled, session, given>>
node == <<remembered, ledger, executed>>
vars == <<serving, pc, work, handled, session, remembered, ledger, clock,
          given, signatures, executed>>

Idle == {"free", "reading"}
Operations == {"quoting", "answering", "signing", "executing"}

NewSession ==
  [requests |-> [r \in Requests |-> NoRequest], quotes |-> {}, intents |-> {},
   trades |-> {}]

-----------------------------------------------------------------------------
(* The session's bookkeeping. *)

Expired(expiry) == expiry > 0 /\ clock > expiry

\* validateQuoteFreshness, with the request when it is still pending.
FreshFor(asked, q) ==
  /\ ~Expired(q.expiry)
  /\ asked # NoRequest =>
       /\ ~Expired(asked.expiry)
       /\ asked.expiry > 0 => q.expiry \in 1 .. asked.expiry

PendingFresh(S, q) == FreshFor(S.requests[q.request], q)

\* The quote goes, and the intents and the request with it; pending trades go
\* by their terms.
ClearQuoteOnly(S, Q) == [S EXCEPT !.quotes = @ \ Q]
Clear(S, Q) ==
  [requests |-> [r \in Requests |-> IF \E q \in Q : q.request = r THEN NoRequest
                                    ELSE S.requests[r]],
   quotes |-> S.quotes \ Q,
   intents |-> {i \in S.intents : i[1] \notin Q},
   trades |-> S.trades \ {Bargain(q) : q \in Q}]

ClearNegotiation(S, q) == Clear(S, {q})

ClearRequest(S, r) ==
  LET T == Clear(S, {q \in S.quotes : q.request = r})
  IN [T EXCEPT !.requests[r] = NoRequest]

Signed(S, q, party) == <<q, party>> \in S.intents
AddIntent(S, q, party) == [S EXCEPT !.intents = @ \cup {<<q, party>>}]

\* bindAuthorizedIntents
PeerSigned(S, q) == Signed(S, q, "peer")
Agreed(S, q) == Signed(S, q, "local") /\ Signed(S, q, "peer")

\* The end of handleSignedIntent: with both intents there is a pending trade.
Authorize(S, q) ==
  IF Agreed(S, q) THEN [S EXCEPT !.trades = @ \cup {Bargain(q)}] ELSE S

\* The pending quotes that an authorized trade may be matched with: the loop of
\* authorizedNegotiation takes the first of them, in map order.
Candidates(S, b) == {q \in S.quotes : Bargain(q) = b}

-----------------------------------------------------------------------------
Init ==
  /\ serving = TRUE
  /\ pc = [s \in Slots |-> "free"]
  /\ work = [s \in Slots |-> Nothing]
  /\ handled = [s \in Slots |-> 0]
  /\ session = [s \in Slots |-> NewSession]
  /\ remembered = {} /\ ledger = {}
  /\ clock = 1
  /\ given = [s \in Slots |-> {}]
  /\ signatures = {}
  /\ executed = [b \in Bargains |-> 0]

(* The accept loop.  A connection that finds every slot taken is closed. *)
Accept(s) ==
  /\ serving /\ pc[s] = "free"
  /\ pc' = [pc EXCEPT ![s] = "reading"]
  /\ UNCHANGED <<serving, work, handled, session, node, clock, given, signatures>>

\* Serve returns: the session is dropped and the slot is free.
Close(s) ==
  /\ pc' = [pc EXCEPT ![s] = "free"]
  /\ work' = [work EXCEPT ![s] = Nothing]
  /\ handled' = [handled EXCEPT ![s] = 0]
  /\ session' = [session EXCEPT ![s] = NewSession]
  /\ given' = [given EXCEPT ![s] = {}]

Hangup(s) ==
  /\ pc[s] = "reading"
  /\ Close(s)
  /\ UNCHANGED <<serving, node, clock, signatures>>

LimitReached(s) ==
  /\ pc[s] = "reading" /\ handled[s] >= MaxMessages
  /\ Close(s)
  /\ UNCHANGED <<serving, node, clock, signatures>>

-----------------------------------------------------------------------------
(* The handlers.  Each counts its message. *)

AnyNumber(n) == n <= MaxMessages
WithinLimit(n) == n < MaxMessages
CountOn(n) == n
Count(n) == n + 1

Receive(s) ==
  /\ serving /\ pc[s] = "reading" /\ WithinLimit(handled[s])
  /\ handled' = [handled EXCEPT ![s] = Count(@)]
  /\ UNCHANGED <<serving, node, clock, given, signatures>>

Remember(s, S) == session' = [session EXCEPT ![s] = S]

Respond(s, S) ==
  /\ Remember(s, S)
  /\ UNCHANGED <<pc, work>>

Operate(s, step, on, S) ==
  /\ pc' = [pc EXCEPT ![s] = step]
  /\ work' = [work EXCEPT ![s] = on]
  /\ Remember(s, S)

\* A hello, ping, pong or reject, the result of a pending trade, and every
\* message that is answered by a reject and changes nothing: wrong roles, an
\* unknown request or quote, other terms, other prices, a second intent.
Acknowledge(s) == Receive(s) /\ Respond(s, session[s])

QuoteRequest(s, r, asked) ==
  /\ Receive(s)
  /\ \/ Expired(asked.expiry) /\ Respond(s, ClearRequest(session[s], r))
     \/ /\ ~Expired(asked.expiry)
        /\ Operate(s, "quoting", r, [session[s] EXCEPT !.requests[r] = asked])

QuoteResponse(s, q) ==
  LET asked == session[s].requests[q.request]
      stored == [session[s] EXCEPT !.quotes = @ \cup {q}]
  IN /\ Receive(s)
     /\ asked # NoRequest
     /\ \/ /\ ~FreshFor(asked, q)
           /\ Respond(s, ClearRequest(session[s], q.request))
        \/ /\ FreshFor(asked, q) /\ q.deal = asked.deal
           /\ IF Executable(q) THEN Operate(s, "answering", q, stored)
              ELSE Respond(s, stored)

SignedIntent(s, q) ==
  LET S == session[s]
      T == AddIntent(S, q, "peer")
  IN /\ Receive(s)
     /\ q \in S.quotes
     /\ \/ ~PendingFresh(S, q) /\ Respond(s, ClearNegotiation(S, q))
        \/ /\ PendingFresh(S, q) /\ q.expiry > 0 /\ ~Signed(S, q, "peer")
           /\ IF Signed(S, q, "local") THEN Respond(s, Authorize(T, q))
              ELSE Operate(s, "signing", q, T)

\* The peer can present only a local signature that it was given.
AuthorizedTrade(s, q) ==
  LET S == session[s]
      b == Bargain(q)
  IN /\ b \in signatures
     /\ q \in Candidates(S, b)
     /\ PendingFresh(S, q) /\ Agreed(S, q)
     /\ Receive(s)
     /\ Operate(s, "executing", q, [S EXCEPT !.trades = @ \cup {b}])

\* The first candidate is stale or was not signed by both here, or there is
\* none: an error, which ends the connection.
RefuseTrade(s, b) ==
  LET S == session[s]
  IN /\ serving /\ pc[s] = "reading" /\ WithinLimit(handled[s])
     /\ b \in signatures
     /\ \/ Candidates(S, b) = {}
        \/ \E q \in Candidates(S, b) : ~(PendingFresh(S, q) /\ Agreed(S, q))
     /\ Close(s)
     /\ UNCHANGED <<serving, node, clock, signatures>>

UnknownResult(s, b) ==
  /\ serving /\ pc[s] = "reading" /\ WithinLimit(handled[s])
  /\ b \notin session[s].trades
  /\ Close(s)
  /\ UNCHANGED <<serving, node, clock, signatures>>

-----------------------------------------------------------------------------
(* The operations of the node that the handlers call, and what follows. *)

At(s, step) == pc[s] = step

Return(s, S) ==
  /\ pc' = [pc EXCEPT ![s] = "reading"]
  /\ work' = [work EXCEPT ![s] = Nothing]
  /\ Remember(s, S)

\* QuoteSell stamps the quote when it has the locks.
MakeQuote(s, price) ==
  LET q == [request |-> work[s], deal |-> session[s].requests[work[s]].deal,
            price |-> price, expiry |-> clock]
  IN /\ At(s, "quoting")
     /\ Return(s, [session[s] EXCEPT !.quotes = @ \cup {q}])
     /\ UNCHANGED <<serving, handled, node, clock, given, signatures>>

\* SignQuote fails: a reject, and what the handler stored stays.
SignFails(s) ==
  /\ \E step \in {"answering", "signing"} : At(s, step)
  /\ Return(s, session[s])
  /\ UNCHANGED <<serving, handled, node, clock, given, signatures>>

SignLocally(s) ==
  /\ Executable(work[s]) /\ work[s].expiry > 0
  /\ given' = [given EXCEPT ![s] = @ \cup {Bargain(work[s])}]
  /\ signatures' = signatures \cup {Bargain(work[s])}
  /\ UNCHANGED <<serving, handled, node, clock>>

\* handleQuoteResponse sends the intent; the trade waits for the peer's.
Answer(s) ==
  /\ At(s, "answering")
  /\ SignLocally(s)
  /\ Return(s, AddIntent(session[s], work[s], "local"))

Sign(s) ==
  /\ At(s, "signing")
  /\ SignLocally(s)
  /\ Return(s, Authorize(AddIntent(session[s], work[s], "local"), work[s]))

\* validateSignedIntentFreshness of the node.
InItsTime(b) == b.expiry <= clock /\ clock - b.expiry <= MaxSignedIntentAge

ReplayedInMemory(b) == b \in remembered
Replayed(b) == b \in remembered \/ b \in ledger

Execute(s) ==
  LET b == Bargain(work[s])
  IN /\ At(s, "executing")
     /\ InItsTime(b) /\ ~Replayed(b)
     /\ remembered' = remembered \cup {b}
     /\ ledger' = ledger \cup {b}
     /\ executed' = [executed EXCEPT ![b] = @ + 1]
     /\ Return(s, ClearNegotiation(session[s], work[s]))
     /\ UNCHANGED <<serving, handled, clock, given, signatures>>

\* A replay, a timestamp of another time, a price or a holding that does not
\* allow the trade any more, a failed write: FAILED is sent and Serve returns.
ExecuteFails(s) ==
  /\ At(s, "executing")
  /\ Close(s)
  /\ UNCHANGED <<serving, node, clock, signatures>>

-----------------------------------------------------------------------------
Shutdown ==
  /\ serving
  /\ serving' = FALSE
  /\ UNCHANGED <<connections, node, clock, signatures>>

\* The process ends and serves again: connections and memory are gone.
CrashRestart ==
  /\ serving' = TRUE
  /\ pc' = [s \in Slots |-> "free"]
  /\ work' = [s \in Slots |-> Nothing]
  /\ handled' = [s \in Slots |-> 0]
  /\ session' = [s \in Slots |-> NewSession]
  /\ given' = [s \in Slots |-> {}]
  /\ remembered' = {}
  /\ UNCHANGED <<ledger, clock, signatures, executed>>

Tick ==
  /\ clock < MaxTime
  /\ clock' = clock + 1
  /\ UNCHANGED <<serving, connections, node, signatures>>

Handle(s) ==
  \/ Acknowledge(s)
  \/ \E r \in Requests, asked \in Asked : QuoteRequest(s, r, asked)
  \/ \E q \in {x \in Quotes : x.expiry \in Expiries} : QuoteResponse(s, q)
  \/ \E q \in session[s].quotes : SignedIntent(s, q)
  \/ \E q \in session[s].quotes : AuthorizedTrade(s, q)
  \/ \E b \in Bargains : RefuseTrade(s, b)
  \/ \E b \in Bargains : UnknownResult(s, b)

\* The read deadline ends a connection on which nothing arrives.
Read(s) == Handle(s) \/ Hangup(s)

Work(s) ==
  \/ LimitReached(s)
  \/ \E p \in Prices \cup {0} : MakeQuote(s, p)
  \/ Answer(s) \/ Sign(s) \/ SignFails(s)
  \/ Execute(s) \/ ExecuteFails(s)

Next ==
  \/ \E s \in Slots : Accept(s) \/ Read(s) \/ Work(s)
  \/ Shutdown
  \/ CrashRestart
  \/ Tick

Spec == Init /\ [][Next]_vars

\* A goroutine goes on, and every read ends by its deadline.
FairSpec == Spec /\ \A s \in Slots : WF_vars(Work(s)) /\ WF_vars(Read(s))

-----------------------------------------------------------------------------
Sessions ==
  [requests : [Requests -> Asked \cup {NoRequest}], quotes : SUBSET Quotes,
   intents : SUBSET (Quotes \X Parties), trades : SUBSET Bargains]

\* No connection handles more than MaxMessages messages, and what an operation
\* works on is of its kind.
TypeOK ==
  /\ serving \in BOOLEAN
  /\ pc \in [Slots -> Idle \cup Operations]
  /\ work \in [Slots -> Requests \cup Quotes \cup {Nothing}]
  /\ \A s \in Slots :
       /\ pc[s] \in Idle => work[s] = Nothing
       /\ pc[s] = "quoting" => work[s] \in Requests
       /\ pc[s] \in Operations \ {"quoting"} => work[s] \in Quotes
  /\ handled \in [Slots -> 0 .. MaxMessages]
  /\ session \in [Slots -> Sessions]
  /\ remembered \subseteq Bargains /\ ledger \subseteq Bargains
  /\ clock \in Times
  /\ given \in [Slots -> SUBSET Bargains]
  /\ signatures \subseteq Bargains
  /\ executed \in [Bargains -> Nat]

\* A bargain is executed at most once, although two requests, two connections
\* or a new process may lead to the same two intents again
\* (handleAuthorizedTrade against the replay checks of the node).
ExecutedOnce == \A b \in Bargains : executed[b] <= 1

\* The node executes only what it signed on the same connection, with a pending
\* quote that the peer signed there too: an authorized trade from an earlier
\* connection is not executed, whatever signatures it carries
\* (authorizedNegotiation).
ExecutesOwnNegotiation ==
  \A s \in Slots : pc[s] = "executing" =>
    /\ Bargain(work[s]) \in given[s]
    /\ work[s] \in session[s].quotes /\ Signed(session[s], work[s], "peer")

\* Nothing outlives its negotiation in a session: intents belong to pending
\* quotes, and every pending trade to a pending quote whose terms both have
\* signed, in whatever order requests, quotes and trades were cleared
\* (ClearRequest, ClearNegotiation).
NothingOrphaned ==
  \A s \in Slots :
    /\ \A i \in session[s].intents : i[1] \in session[s].quotes
    /\ \A b \in session[s].trades :
         \E q \in session[s].quotes : Bargain(q) = b /\ Agreed(session[s], q)

\* Every connection gives its slot back: reads have deadlines and messages are
\* counted, so a talkative or silent peer cannot keep it (Serve).
SlotsComeFree == \A s \in Slots : pc[s] # "free" ~> pc[s] = "free"

\* An expired quote is not executed: a trade takes effect no later than the
\* expiry of its quote (the claim of the handler's test
\* TestExpiredPendingQuoteRejectsAuthorizedTradeExecutionAndClearsState).
NeverAfterExpiry ==
  [][\A b \in Bargains : executed'[b] > executed[b] => ~Expired(b.expiry)]_vars
=============================================================================
