----------------------------- MODULE TcpSender ------------------------------
(* TCPSender of TCPSender.h on its own io_service, with one socket for all  *)
(* its connects.  A connect whose time is up leaves its attempt and its     *)
(* handler behind, and the next one meets them on the same socket, in the   *)
(* reactor and in the scheduler's queue.                                    *)
EXTENDS Integers, Sequences, SequencesExt

VARIABLES
  socket,       \* the kernel's socket, see Socket
  error,        \* SO_ERROR is set
  edge,         \* the socket changed since epoll_wait has last looked
  ops,          \* scheduler::op_queue_; "ok" and "error" are connects that
                \* are complete and whose handler has not been called
  pending,      \* number of connects that wait with the descriptor
  isConnected,
  running,      \* the thread is in run_one_for
  reached       \* the other device has answered an attempt of this socket

vars == <<socket, error, edge, ops, pending, isConnected, running, reached>>

(* A socket is told that it connects until it is asked again: established   *)
(* and failed are a connecting one that has been answered since.            *)
Socket == {"none", "unconnected", "connecting", "established", "failed",
           "connected", "reset", "shut"}

Result == {"ok", "error"}

TypeOK ==
  /\ socket \in Socket
  /\ ops \in Seq(Result \cup {"task", "descriptor"})
  /\ pending \in Nat
  /\ \A b \in {error, edge, isConnected, running, reached} : b \in BOOLEAN

Init ==
  /\ socket = "none" /\ error = FALSE /\ edge = FALSE
  /\ ops = <<"task">> /\ pending = 0
  /\ isConnected = FALSE /\ running = FALSE /\ reached = FALSE
-----------------------------------------------------------------------------
(* connect(2) on a non-blocking socket: the socket it leaves and what it    *)
(* returns.  A fresh socket may find no way to the other device at once.    *)
Connecting(next, result) ==
  CASE socket \in {"none", "unconnected"} ->
         <<next, result>> \in {<<"connecting", "in_progress">>,
                               <<"unconnected", "error">>}
    [] socket = "connecting"  -> next = socket /\ result = "error"
    [] socket = "established" -> next = "connected" /\ result = "ok"
    [] socket = "failed"      -> next = "unconnected" /\ result = "error"
    [] OTHER                  -> next = socket /\ result = "error"

\* Mutant: an attempt that is under way is waited for like a new one.
StartConnectWaits(result) ==
  LET waits == result = "in_progress" \/ socket = "connecting"
  IN  /\ pending' = IF waits THEN pending + 1 ELSE pending
      /\ ops' = IF waits THEN ops ELSE Append(ops, result)

(* start_connect_op: wait with the descriptor, or complete at once. *)
StartConnect(result) ==
  /\ pending' = IF result = "in_progress" THEN pending + 1 ELSE pending
  /\ ops' = IF result = "in_progress" THEN ops ELSE Append(ops, result)

(* connect, up to run_one_for.  The callers never connect a sender that is  *)
(* connected, so the disconnect in front has nothing to do.                 *)
Connect ==
  /\ ~running /\ ~isConnected
  /\ \E next \in Socket, result \in Result \cup {"in_progress"} :
       /\ Connecting(next, result)
       /\ socket' = next
       /\ StartConnect(result)
  /\ error' = (error /\ socket # "failed")
  /\ edge' = (edge \/ socket \in {"none", "failed"})
  /\ running' = TRUE
  /\ UNCHANGED <<isConnected, reached>>
-----------------------------------------------------------------------------
(* The other device, or the kernel on its behalf. *)
Establish ==
  /\ socket = "connecting"
  /\ socket' = "established"
  /\ edge' = TRUE /\ reached' = TRUE
  /\ UNCHANGED <<error, ops, pending, isConnected, running>>

Refuse ==
  /\ socket = "connecting"
  /\ socket' = "failed"
  /\ error' = TRUE /\ edge' = TRUE
  /\ UNCHANGED <<ops, pending, isConnected, running, reached>>

Reset ==
  /\ socket \in {"established", "connected"}
  /\ socket' = IF socket = "established" THEN "failed" ELSE "reset"
  /\ error' = TRUE /\ edge' = TRUE
  /\ UNCHANGED <<ops, pending, isConnected, running, reached>>
-----------------------------------------------------------------------------
(* poll and epoll report every socket but one that is still connecting. *)
Ready == edge /\ socket # "connecting"

RunTask ==
  /\ running /\ Head(ops) = "task"
  /\ Tail(ops) # <<>> \/ Ready
  /\ ops' = Tail(ops)
              \o (IF Ready /\ "descriptor" \notin ToSet(ops)
                  THEN <<"descriptor", "task">> ELSE <<"task">>)
  /\ edge' = FALSE
  /\ UNCHANGED <<socket, error, pending, isConnected, running, reached>>

\* Mutant: the attempt is cancelled when its time is up.
TimeOutCancels ==
  /\ running /\ ops = <<"task">> /\ ~Ready
  /\ edge' = FALSE /\ running' = FALSE
  /\ pending' = 0 /\ ops' = ops \o [i \in 1 .. pending |-> "error"]
  /\ UNCHANGED <<socket, error, isConnected, reached>>

(* Nothing to do until the time is up; what is pending stays pending. *)
TimeOut ==
  /\ running /\ ops = <<"task">> /\ ~Ready
  /\ edge' = FALSE /\ running' = FALSE
  /\ UNCHANGED <<socket, error, ops, pending, isConnected, reached>>

\* Mutant: the error of the attempt is not looked at.
HandleConnectAny(ec) == isConnected' = TRUE /\ running' = FALSE

(* handle_connect; one event has run and connect returns. *)
HandleConnect(ec) ==
  /\ isConnected' = (isConnected \/ ec = "ok")
  /\ running' = FALSE

(* perform_io: every connect that waits asks for the socket's error, which  *)
(* the first of them clears.  One handler is called now, the others queue.  *)
RunDescriptor ==
  LET results == IF socket = "connecting" THEN <<>>
                 ELSE [i \in 1 .. pending |->
                         IF i = 1 /\ error THEN "error" ELSE "ok"]
  IN  /\ running /\ Head(ops) = "descriptor"
      /\ IF results = <<>>
         THEN /\ ops' = Tail(ops)
              /\ running' = FALSE
              /\ UNCHANGED <<error, pending, isConnected>>
         ELSE /\ ops' = Tail(ops) \o Tail(results)
              /\ error' = FALSE /\ pending' = 0
              /\ HandleConnect(Head(results))
      /\ UNCHANGED <<socket, edge, reached>>

(* A connect that completed when it was started. *)
RunCompleted ==
  /\ running /\ Head(ops) \in Result
  /\ ops' = Tail(ops)
  /\ HandleConnect(Head(ops))
  /\ UNCHANGED <<socket, error, edge, pending, reached>>

ConnectStep == RunTask \/ TimeOut \/ RunDescriptor \/ RunCompleted
-----------------------------------------------------------------------------
(* asio::write waits while the socket is connecting and throws when it is   *)
(* not connected.                                                           *)
CanSend == socket \in {"established", "connected"}
SendThrows == socket \in {"none", "unconnected", "failed", "reset", "shut"}

(* disconnect: shutdown throws when there is nothing to shut down, also     *)
(* after the other device has reset the connection.                         *)
DisconnectThrows ==
  isConnected /\ socket \in {"none", "unconnected", "failed", "reset"}
=============================================================================
