------------------------------- MODULE Ledger -------------------------------
(* What the stock table promises whoever holds it: a list of products, the  *)
(* places they are counted at, a number for every product at every place,   *)
(* and the place the user stands at.  Counting changes one number, moving   *)
(* changes none, and only a load replaces the list.                         *)
EXTENDS Integers, Sequences

CONSTANTS
  Product,     \* what identifies a product to the user
  Place,       \* the names of places
  Nowhere,     \* there is no place yet
  Global,      \* the place that is made when counting starts without one
  Amount       \* what a count can be altered by

VARIABLES
  event,       \* the last thing that happened
  products,    \* the list of products
  places,      \* the places known by now
  here,        \* the place counts are recorded at
  stock        \* stock[i][p]: how much of product i there is at place p

vars == <<event, products, places, here, stock>>

Event == {"start", "load", "failed_load", "refused", "aborted", "move",
          "record"}

NothingCounted == [p \in Place |-> 0]

Empty ==
  /\ products = <<>>
  /\ places = {}
  /\ here = Nowhere
  /\ stock = <<>>

Init == event = "start" /\ Empty

(* A load, good or bad, starts a new list; whatever it held before is gone, *)
(* and nothing is counted at a place that is not in the file.               *)
Load ==
  /\ event' \in {"load", "failed_load"}
  /\ products' \in Seq(Product)
  /\ places' \in SUBSET Place
  /\ here' \in IF places' = {} THEN {Nowhere} ELSE places'
  /\ stock' \in [DOMAIN products' -> [Place -> Int]]
  /\ \A i \in DOMAIN products', p \in Place \ places' : stock'[i][p] = 0

(* A file that cannot be opened costs nothing. *)
Refuse == event' = "refused" /\ UNCHANGED <<products, places, here, stock>>

(* The process is gone, and the list with it. *)
Abort == event' = "aborted" /\ Empty'

Move ==
  /\ event' = "move"
  /\ here' \in Place
  /\ places' = places \cup {here'}
  /\ UNCHANGED <<products, stock>>

(* Counting happens where the user stands, or at the default place. *)
Record ==
  /\ event' = "record"
  /\ here' = IF here = Nowhere THEN Global ELSE here
  /\ places' = places \cup {here'}
  /\ \E i \in DOMAIN products, a \in Amount :
       stock' = [stock EXCEPT ![i][here'] = @ + a]
  /\ UNCHANGED products

Next == Load \/ Refuse \/ Abort \/ Move \/ Record

Spec == Init /\ [][Next]_vars
=============================================================================
