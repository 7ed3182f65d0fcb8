------------------------------ MODULE Mailbox -------------------------------
(* What awaitResponse of UDPSender.h promises its caller, without the       *)
(* service under it: a call returns a datagram or nothing.  It never goes   *)
(* back to an earlier datagram, may skip some, may return the same one      *)
(* twice more, and returns nothing only after it has returned the last one  *)
(* that came.  With an empty datagram it returns the request of the last    *)
(* one before it that held any.  Datagrams are numbered as they arrive.     *)
EXTENDS Integers

CONSTANT MaxDatagrams   \* bound: the number of datagrams that arrive

VARIABLES
  received,   \* number of datagrams that have reached the socket
  empty,      \* those of them that hold no byte
  waiting,    \* awaitResponse has been called
  latest,     \* the datagram whose sender it has returned last, 0 for none
  said,       \* the datagram whose request it has returned with it, or 0
  times       \* how many times it has returned that sender

vars == <<received, empty, waiting, latest, said, times>>

Init ==
  /\ received = 0 /\ empty = {}
  /\ waiting = FALSE
  /\ latest = 0 /\ said = 0
  /\ times = 0

Arrive ==
  /\ received < MaxDatagrams
  /\ received' = received + 1
  /\ empty' \in {empty, empty \cup {received'}}
  /\ UNCHANGED <<waiting, latest, said, times>>

Await ==
  /\ ~waiting
  /\ waiting' = TRUE
  /\ UNCHANGED <<received, empty, latest, said, times>>

Answer ==
  /\ waiting
  /\ waiting' = FALSE
  /\ latest' \in latest .. received /\ latest' # 0
  /\ said' \in (0 .. latest') \ empty
  /\ (said' + 1) .. latest' \subseteq empty
  /\ times' = IF latest' = latest THEN times + 1 ELSE 1
  /\ times' <= 3
  /\ UNCHANGED <<received, empty>>

Nothing ==
  /\ waiting /\ latest = received
  /\ waiting' = FALSE
  /\ UNCHANGED <<received, empty, latest, said, times>>

Next == Arrive \/ Await \/ Answer \/ Nothing

Spec == Init /\ [][Next]_vars
=============================================================================
