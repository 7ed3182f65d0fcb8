---------------------------- MODULE StockElement ----------------------------
(* One product of the stock table: struct stockElement of stockTable.h.     *)
(* Its counts are kept as the code keeps them, a vector of (location,       *)
(* count) pairs searched from the front, so that a duplicated or a dangling *)
(* location is a state this model can be in.  An index n of the model is    *)
(* the C++ index n - 1.                                                     *)
EXTENDS Integers, Sequences, SequencesExt

(* The pairs a vector of counts may hold. *)
Count == [location : Nat \ {0}, count : Int]

(* The position of the first pair for a location, 0 when there is none. *)
CountIndex(counts, location) ==
  SelectInSeq(counts, LAMBDA pair : pair.location = location)

\* Mutant: the search of the loop is forgotten, every call appends a pair.
AlterElementAppends(elem, location, delta) ==
  [elem EXCEPT !.counts = Append(@, [location |-> location, count |-> delta])]

(* stockElement::alter: add to the first pair of the location, else append. *)
AlterElement(elem, location, delta) ==
  LET k == CountIndex(elem.counts, location)
  IN  IF k # 0
      THEN [elem EXCEPT !.counts[k].count = @ + delta]
      ELSE [elem EXCEPT !.counts =
              Append(@, [location |-> location, count |-> delta])]

(* stockElement::sum: every pair is added, whatever its location. *)
SumCounts(elem) ==
  SumFunction([k \in DOMAIN elem.counts |-> elem.counts[k].count])

(* stockElement::getCount: the first pair of the location, 0 without one. *)
GetCount(elem, location) ==
  LET k == CountIndex(elem.counts, location)
  IN  IF k # 0 THEN elem.counts[k].count ELSE 0
=============================================================================
