---------------------------- MODULE MCNegotiation ----------------------------
(* The instances of Negotiation that TLC checks. *)
EXTENDS Negotiation, TLC

Interchangeable == Permutations(Slots) \cup Permutations(Requests)
=============================================================================
