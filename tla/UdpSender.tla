----------------------------- MODULE UdpSender ------------------------------
(* UDPSender of UDPSender.h on the io_service it owns.  One receive is kept *)
(* outstanding all the time, every receive writes the same two members,     *)
(* data and responder, and awaitResponse runs the service for one event and *)
(* returns a copy of them.  The service is the vendored asio: a scheduler   *)
(* whose queue holds the reactor's task, the descriptor the reactor has     *)
(* found ready, and completed receives; and an edge-triggered epoll.        *)
(* Datagrams are numbered in the order in which the socket receives them;   *)
(* one that holds no byte leaves the request of an earlier one in data.     *)
EXTENDS Integers, Sequences, SequencesExt, Functions

CONSTANT MaxDatagrams   \* bound: the number of datagrams that arrive

ASSUME MaxDatagramsAssumption == MaxDatagrams \in Nat

VARIABLES
  bound,      \* the socket has a port: the kernel gives it one when it sends
  received,   \* number of datagrams that have reached the socket
  empty,      \* those of them that hold no byte
  edge,       \* something arrived since epoll_wait has last looked
  ops,        \* scheduler::op_queue_
  armed,      \* the receive waits in the descriptor's queue of operations
  responder,  \* the datagram it is the sender of, 0 for none; those after it
              \* wait in the socket
  data,       \* the datagram its request is from, 0 for none
  pc,         \* where the thread is in awaitResponse
  latest,     \* the datagram whose sender awaitResponse has returned last, or 0
  said,       \* the one whose request it has returned with it, or 0
  times       \* how many times it has returned that sender

network == <<received, empty>>
buffer == <<responder, data>>
returned == <<latest, said, times>>

vars == <<bound, network, edge, ops, armed, buffer, pc, returned>>

Op == {"task", "descriptor", "receive"}

TypeOK ==
  /\ bound \in BOOLEAN /\ edge \in BOOLEAN /\ armed \in BOOLEAN
  /\ received \in 0 .. MaxDatagrams
  /\ ops \in Seq(Op) /\ IsInjective(ops)
  /\ empty \subseteq 1 .. received
  /\ responder \in 0 .. received /\ data \in 0 .. responder
  /\ pc \in {"idle", "service", "handler", "return"}
  /\ latest \in 0 .. received /\ said \in 0 .. latest /\ times \in 0 .. 3
-----------------------------------------------------------------------------
(* The constructor: the socket has no port yet, so the first wait_recieve   *)
(* finds nothing and leaves its receive with the descriptor.                *)
Init ==
  /\ bound = FALSE
  /\ received = 0 /\ empty = {}
  /\ edge = FALSE
  /\ ops = <<"task">>
  /\ armed = TRUE
  /\ responder = 0 /\ data = 0
  /\ pc = "idle"
  /\ latest = 0 /\ said = 0 /\ times = 0

(* requestAddress and requestLink: the answers are for other devices to     *)
(* send, none or any number of them, at any time.                           *)
Request ==
  /\ pc = "idle"
  /\ bound' = TRUE
  /\ UNCHANGED <<network, edge, ops, armed, buffer, pc, returned>>

Arrive ==
  /\ bound /\ received < MaxDatagrams
  /\ received' = received + 1
  /\ empty' \in {empty, empty \cup {received'}}
  /\ edge' = TRUE
  /\ UNCHANGED <<bound, ops, armed, buffer, pc, returned>>

Unread == responder < received

(* awaitResponse calls run_one_for. *)
Await ==
  /\ pc = "idle"
  /\ pc' = "service"
  /\ UNCHANGED <<bound, network, edge, ops, armed, buffer, returned>>

(* epoll_wait reports the descriptor once after something arrived, if it is *)
(* still there.                                                             *)
Ready == edge /\ Unread

(* scheduler::do_wait_one with the task in front: the reactor looks once,   *)
(* and the task goes behind the operations it found.                        *)
RunTask ==
  /\ pc = "service" /\ Head(ops) = "task"
  /\ Tail(ops) # <<>> \/ Ready
  /\ ops' = Tail(ops) \o IF Ready THEN <<"descriptor", "task">> ELSE <<"task">>
  /\ edge' = FALSE
  /\ UNCHANGED <<bound, network, armed, buffer, pc, returned>>

(* awaitResponse copies data and responder; an unspecified responder is no  *)
(* answer.                                                                  *)
ReturnData ==
  /\ pc' = "idle"
  /\ latest' = responder /\ said' = data
  /\ times' = IF responder = 0 THEN 0
              ELSE IF responder = latest THEN times + 1 ELSE 1

\* Mutant: run_one in the place of run_one_for, the wait has no limit.
ReturnNever == UNCHANGED <<pc, returned>>

\* Mutant: the result of run_one_for is not looked at.
ReturnAnyway == ReturnData

ReturnNothing == pc' = "idle" /\ UNCHANGED returned

(* Nothing to do until the time is up: awaitResponse returns nothing. *)
TimeOut ==
  /\ pc = "service" /\ ops = <<"task">> /\ ~Ready
  /\ edge' = FALSE
  /\ ReturnNothing
  /\ UNCHANGED <<bound, network, ops, armed, buffer>>

(* The kernel writes the sender and the bytes it has.  handle_recieve looks *)
(* neither at their number nor at the error code.                           *)
Receive ==
  /\ responder' = responder + 1
  /\ data' = IF responder' \in empty THEN data ELSE responder'

(* descriptor_state::do_complete: the receive that waits here, if there is  *)
(* one, is performed and its handler called; it counts as an event anyway.  *)
RunDescriptor ==
  /\ pc = "service" /\ Head(ops) = "descriptor"
  /\ ops' = Tail(ops)
  /\ IF armed /\ Unread
     THEN Receive /\ armed' = FALSE /\ pc' = "handler"
     ELSE pc' = "return" /\ UNCHANGED <<armed, buffer>>
  /\ UNCHANGED <<bound, network, edge, returned>>

(* A receive that was performed when it was started: its handler is called. *)
RunReceive ==
  /\ pc = "service" /\ Head(ops) = "receive"
  /\ ops' = Tail(ops)
  /\ pc' = "handler"
  /\ UNCHANGED <<bound, network, edge, armed, buffer, returned>>

\* Mutant: no other receive is enqueued.
WaitRecieveNever == UNCHANGED <<ops, armed, buffer>>

\* Mutant: the receive always waits for epoll, as with null buffers.
WaitRecieveLater == armed' = TRUE /\ UNCHANGED <<ops, buffer>>

\* Mutant: a receive that was performed is left with the descriptor as well.
WaitRecieveTwice ==
  /\ armed' = TRUE
  /\ IF Unread THEN Receive /\ ops' = Append(ops, "receive")
     ELSE UNCHANGED <<ops, buffer>>

(* wait_recieve: epoll_reactor::start_op tries to receive right away, and   *)
(* leaves the receive with the descriptor if it cannot.                     *)
WaitRecieve ==
  IF Unread
  THEN Receive /\ ops' = Append(ops, "receive") /\ UNCHANGED armed
  ELSE armed' = TRUE /\ UNCHANGED <<ops, buffer>>

HandleRecieve ==
  /\ pc = "handler"
  /\ WaitRecieve
  /\ pc' = "return"
  /\ UNCHANGED <<bound, network, edge, returned>>

Return ==
  /\ pc = "return"
  /\ ReturnData
  /\ UNCHANGED <<bound, network, edge, ops, armed, buffer>>

AwaitStep ==
  RunTask \/ TimeOut \/ RunDescriptor \/ RunReceive \/ HandleRecieve \/ Return

Next == Request \/ Arrive \/ Await \/ AwaitStep

(* A call of awaitResponse runs on: its thread does not stop in it, and the *)
(* time it waits for passes.                                                *)
Spec == Init /\ [][Next]_vars /\ WF_vars(AwaitStep)
-----------------------------------------------------------------------------
(* One receive is outstanding whenever the service can run: with none the   *)
(* sender would be deaf, with two the second would overwrite the first.     *)
OneReceive ==
  IF pc = "handler" THEN ~armed /\ "receive" \notin ToSet(ops)
  ELSE armed <=> "receive" \notin ToSet(ops)

(* A receive does not wait for a datagram that is already there unless      *)
(* epoll still has to report it or has just done so.                        *)
NoLostWakeup ==
  armed /\ Unread => edge \/ "descriptor" \in ToSet(ops)

(* For its caller the sender is a mailbox: its one buffer is overwritten    *)
(* and returned again while receives run ahead of the calls, yet no         *)
(* datagram is returned after a later one or a fourth time, a time-out      *)
(* means that the last one that came was returned, and a request that came  *)
(* before the sender it is returned with was followed by empty datagrams.   *)
Box == INSTANCE Mailbox WITH waiting <- pc # "idle"

KeepsMailbox == Box!Spec

(* awaitResponse always returns, also while datagrams keep arriving. *)
AwaitReturns == pc # "idle" ~> pc = "idle"

(* Whoever keeps awaiting is told of a datagram unless another one comes    *)
(* after it.                                                                *)
LatestIsAnswered ==
  []<>(pc # "idle") =>
    \A d \in 1 .. MaxDatagrams :
      received = d ~> received > d \/ latest = d

(* awaitResponse returns its buffer after any event because, its comment    *)
(* says, the only event that can run is a receive.                          *)
OnlyReceivesRun ==
  pc = "service" /\ Head(ops) = "descriptor" => armed /\ Unread
=============================================================================
