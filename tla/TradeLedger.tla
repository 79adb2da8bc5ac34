----------------------------- MODULE TradeLedger -----------------------------
(***************************************************************************)
(* What the store interface (core/store/store.go) promises about a signed  *)
(* trade: it becomes executed in one step, at most once and for ever, and  *)
(* at most one PersistExecutedTrade call reports the execution, after it.  *)
(***************************************************************************)
EXTENDS Naturals

CONSTANT Trades

VARIABLES
  executed,   \* trades that can no longer be executed because they were
  accepts     \* calls that reported success, per trade

Init ==
  /\ executed = {}
  /\ accepts = [t \in Trades |-> 0]

Execute(t) ==
  /\ t \notin executed
  /\ executed' = executed \cup {t}
  /\ UNCHANGED accepts

Report(t) ==
  /\ t \in executed
  /\ accepts[t] = 0
  /\ accepts' = [accepts EXCEPT ![t] = 1]
  /\ UNCHANGED executed

Next == \E t \in Trades : Execute(t) \/ Report(t)

Spec == Init /\ [][Next]_<<executed, accepts>>
=============================================================================
