----------------------------- MODULE Positions -----------------------------
(* Sets of positions in order: the commas of a line, the products that have *)
(* a word.                                                                  *)
EXTENDS Integers, FiniteSets

(* The k-th of a set of positions. *)
Nth(S, k) == CHOOSE i \in S : Cardinality({j \in S : j <= i}) = k

(* All of them, each once. *)
Ascending(S) == [k \in 1 .. Cardinality(S) |-> Nth(S, k)]
=============================================================================
