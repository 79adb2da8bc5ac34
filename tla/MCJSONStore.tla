----------------------------- MODULE MCJSONStore -----------------------------
(* The instances of JSONStore that TLC checks. *)
EXTENDS JSONStore

CONSTANTS inv, price

\* Two documents per call stand for the six of a two-party trade.
MCDocOrder == <<inv, price>>

\* Errors from which PersistExecutedTrade recovers completely.
RecoverableFaults == {"reserve", "manifest", "install", "remove", "recover"}

\* Every error except one inside rollback itself.
ReportedFaults == RecoverableFaults \cup {"record", "mark"}
=============================================================================
