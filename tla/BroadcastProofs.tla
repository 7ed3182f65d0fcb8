--------------------------- MODULE BroadcastProofs ---------------------------
(* What broadcastCount promises for any number of devices, datagrams and    *)
(* time-outs.  The invariant counts the answers a mailbox can have given    *)
(* once it has returned its times-th copy of datagram latest.               *)
EXTENDS Broadcast, SequenceTheorems, TLAPS

Mail == [from : Device, request : Request]

Asking == {"ask", "answer"}

(* The types of the call and of the mailbox.                                *)
CallTypes ==
  /\ pc \in {"start", "first"} \cup Asking \cup Accepted \cup Ended
  /\ mail \in Seq(Mail)
  /\ Len(mail) <= MaxDatagrams
  /\ peer \in 0 .. Len(mail)
  /\ latest \in 0 .. Len(mail) /\ said \in 0 .. latest /\ times \in 0 .. 3
  /\ timeouts \in 0 .. MaxTimeouts /\ requests \in Nat

(* How often a mailbox can have answered with its t-th copy of datagram l.  *)
Copies(l, t) == 3 * (l - 1) + t

(* Every request but the one under way was met by a time-out or by one of   *)
(* the answers after the first.                                             *)
Met ==
  /\ pc \in {"start", "first"} =>
       requests = 0 /\ latest = 0 /\ times = 0 /\ timeouts = 0
  /\ pc \in Asking =>
       /\ timeouts < MaxTimeouts /\ latest > 0 /\ peer > 0
       /\ requests + 1 <= timeouts + Copies(latest, times)
                            + IF pc = "answer" THEN 1 ELSE 0
  /\ requests <= MaxTimeouts + 3 * Len(mail)

(* The two datagrams that say where the count goes have arrived.            *)
AcceptedForPeer == pc \in Accepted => latest > 0 /\ peer > 0

IInv == CallTypes /\ Met /\ AcceptedForPeer /\ SentOnAcceptance
-----------------------------------------------------------------------------
LEMMA InitInvariant == Init => IInv
<1> SUFFICES ASSUME Init PROVE IInv
  OBVIOUS
<1>1. mail = <<>> /\ mail \in Seq(Mail) /\ Len(mail) = 0
  BY EmptySeq DEF Init
<1> QED
  BY <1>1, BroadcastAssumption
  DEF Init, IInv, CallTypes, Met, AcceptedForPeer, SentOnAcceptance, Empty,
      Asking, Accepted

(* A step of the connection leaves the call and the mailbox as they are.    *)
LEMMA Elsewhere == IInv /\ UNCHANGED <<call, udp>> => IInv'
BY DEF IInv, CallTypes, Met, AcceptedForPeer, SentOnAcceptance, Empty, call, udp

(* Every answer but the first is one more copy.                             *)
LEMMA CopiesBound ==
  ASSUME NEW l \in Nat \ {0}, NEW t \in 0 .. 3
  PROVE  /\ Copies(l, t) \in Nat
         /\ Copies(l, t) >= t
         /\ Copies(l, t) <= 3 * l
         /\ \A k \in Nat : l < k => Copies(l, t) + 1 <= Copies(k, 1)
BY DEF Copies

LEMMA Answered ==
  ASSUME NEW l \in Nat \ {0}, NEW t \in 0 .. 3, NEW k \in Nat \ {0}, l <= k
  PROVE  Copies(l, t) + 1 <= Copies(k, IF k = l THEN t + 1 ELSE 1)
<1>1. CASE k = l
  <2>1. Copies(l, t) + 1 = Copies(l, t + 1)
    <3>1. 3 * (l - 1) \in Int /\ t \in Int
      OBVIOUS
    <3> QED
      BY <3>1 DEF Copies
  <2>2. Copies(l, t) \in Nat
    BY CopiesBound
  <2>3. Copies(l, t) + 1 <= Copies(l, t + 1)
    BY <2>1, <2>2
  <2> QED
    BY <1>1, <2>3
<1>2. CASE k # l
  <2>1. l < k
    BY <1>2
  <2>2. Copies(l, t) + 1 <= Copies(k, 1)
    BY <2>1, CopiesBound
  <2> QED
    BY <1>2, <2>2
<1> QED
  BY <1>1, <1>2

LEMMA NextInvariant == IInv /\ [Next]_vars => IInv'
<1> SUFFICES ASSUME IInv, [Next]_vars PROVE IInv'
  OBVIOUS
<1>0. Len(mail) \in Nat
  BY LenProperties DEF IInv, CallTypes
<1> USE BroadcastAssumption, <1>0
    DEF Asking, Accepted, Ended, Toast, Return, tcp
<1>1. CASE Start
  BY <1>1
  DEF Start, Box!Await, IInv, CallTypes, Met, AcceptedForPeer,
      SentOnAcceptance, Empty
<1>2. ASSUME NEW device \in Device, NEW request \in Request,
             Arrive(device, request)
      PROVE  IInv'
  <2> DEFINE m == [from |-> device, request |-> request]
  <2>1. /\ pc \in {"first", "ask", "answer"} /\ Len(mail) < MaxDatagrams
        /\ mail' = Append(mail, m)
        /\ UNCHANGED <<pc, peer, timeouts, requests>>
        /\ UNCHANGED <<waiting, latest, said, times>>
    BY <1>2 DEF Arrive, call
  <2>2. m \in Mail
    BY DEF Mail
  <2>3. mail' \in Seq(Mail) /\ Len(mail') = Len(mail) + 1
    BY <2>1, <2>2, AppendProperties DEF IInv, CallTypes
  <2> HIDE DEF m
  <2>4. CallTypes'
    BY <2>1, <2>3 DEF IInv, CallTypes
  <2>5. Met'
    BY <2>1, <2>3 DEF IInv, CallTypes, Met
  <2>6. AcceptedForPeer' /\ SentOnAcceptance'
    BY <2>1 DEF AcceptedForPeer, SentOnAcceptance, Empty
  <2> QED
    BY <2>4, <2>5, <2>6 DEF IInv
<1>3. CASE FirstAnswer
  <2>1. /\ pc = "first" /\ pc' = "ask" /\ mail' = mail /\ peer' = latest'
        /\ latest' \in latest .. Len(mail) /\ latest' # 0
        /\ said' \in 0 .. latest' /\ (said' + 1) .. latest' \subseteq Empty
        /\ times' = IF latest' = latest THEN times + 1 ELSE 1
        /\ UNCHANGED <<timeouts, requests>>
    BY <1>3 DEF FirstAnswer, Box!Answer
  <2>2. latest = 0 /\ timeouts = 0 /\ requests = 0
    BY <2>1 DEF IInv, Met
  <2>3. latest' \in 1 .. Len(mail) /\ times' = 1
    BY <2>1, <2>2
  <2>4. CallTypes'
    BY <2>1, <2>2, <2>3 DEF IInv, CallTypes
  <2>5. 1 <= Copies(latest', times') /\ Copies(latest', times') \in Nat
    <3>1. latest' \in Nat \ {0} /\ times' \in 0 .. 3
      BY <2>3
    <3> QED
      BY <2>3, <3>1, CopiesBound
  <2>6. Met'
    BY <2>1, <2>2, <2>3, <2>5 DEF Met
  <2> QED
    BY <2>1, <2>4, <2>6 DEF IInv, AcceptedForPeer, SentOnAcceptance, Empty
<1>4. CASE NoAnswer
  <2>1. pc' = "returned"
        /\ UNCHANGED <<mail, peer, timeouts, requests, latest, said, times>>
    BY <1>4 DEF NoAnswer, Box!Nothing
  <2> QED
    BY <2>1 DEF IInv, CallTypes, Met, AcceptedForPeer, SentOnAcceptance, Empty
<1>5. CASE Ask
  <2>1. /\ pc = "ask" /\ pc' = "answer" /\ requests' = requests + 1
        /\ UNCHANGED <<mail, peer, timeouts, latest, said, times>>
    BY <1>5 DEF Ask, Box!Await
  <2>2. latest \in Nat \ {0} /\ times \in 0 .. 3 /\ latest <= Len(mail)
    BY <2>1 DEF IInv, CallTypes, Met
  <2>3. Copies(latest, times) \in Nat /\ Copies(latest, times) <= 3 * latest
    BY <2>2, CopiesBound
  <2>4. CallTypes'
    BY <2>1 DEF IInv, CallTypes
  <2>5. Met'
    BY <2>1, <2>2, <2>3 DEF IInv, CallTypes, Met
  <2> QED
    BY <2>1, <2>4, <2>5 DEF IInv, AcceptedForPeer, SentOnAcceptance, Empty
<1>6. CASE LinkAnswer
  <2>1. /\ pc = "answer" /\ mail' = mail
        /\ latest' \in latest .. Len(mail) /\ latest' # 0
        /\ said' \in 0 .. latest' /\ (said' + 1) .. latest' \subseteq Empty
        /\ times' = IF latest' = latest THEN times + 1 ELSE 1
        /\ times' <= 3
        /\ UNCHANGED <<peer, requests>>
    BY <1>6 DEF LinkAnswer, Box!Answer
  <2>2. \/ /\ pc' = "dial" /\ timeouts' = 0
           /\ said' # 0 /\ mail[said'].request = "acceptLink"
           /\ FromPeer(latest')
        \/ pc' = "returned" /\ UNCHANGED timeouts
        \/ pc' = "ask" /\ UNCHANGED timeouts
    BY <1>6 DEF LinkAnswer
  <2>3. latest \in Nat \ {0} /\ times \in 0 .. 3
    BY <2>1 DEF IInv, CallTypes, Met
  <2>4. latest' \in Nat \ {0} /\ latest <= latest' /\ latest' <= Len(mail)
        /\ times' \in 0 .. 3
    BY <2>1, <2>3
  <2>5. /\ Copies(latest, times) + 1 <= Copies(latest', times')
        /\ Copies(latest, times) \in Nat /\ Copies(latest', times') \in Nat
    BY <2>1, <2>3, <2>4, Answered, CopiesBound
  <2>6. CallTypes'
    BY <2>1, <2>2, <2>4 DEF IInv, CallTypes
  <2>7. Met'
    BY <2>1, <2>2, <2>4, <2>5 DEF IInv, CallTypes, Met
  <2>8. AcceptedForPeer'
    BY <2>1, <2>2, <2>4 DEF IInv, Met, AcceptedForPeer
  <2>9. SentOnAcceptance'
    <3> SUFFICES ASSUME pc' \in Accepted PROVE SentOnAcceptance'
      BY DEF SentOnAcceptance
    <3>1. /\ said' # 0 /\ mail[said'].request = "acceptLink"
          /\ mail[latest'].from = mail[peer].from
      BY <2>2 DEF FromPeer
    <3>2. Empty' = Empty
      BY <2>1 DEF Empty
    <3> QED
      BY <2>1, <3>1, <3>2 DEF SentOnAcceptance
  <2> QED
    BY <2>6, <2>7, <2>8, <2>9 DEF IInv
<1>7. CASE LinkTimeOut
  <2>1. /\ pc = "answer" /\ timeouts' = timeouts + 1
        /\ pc' = IF timeouts' < MaxTimeouts THEN "ask" ELSE "returned"
        /\ UNCHANGED <<mail, peer, requests, latest, said, times>>
    BY <1>7 DEF LinkTimeOut, CountTimeOut, TimeLeft, Box!Nothing
  <2>2. latest \in Nat \ {0} /\ times \in 0 .. 3
    BY <2>1 DEF IInv, CallTypes, Met
  <2>3. Copies(latest, times) \in Nat
    BY <2>2, CopiesBound
  <2>4. CallTypes'
    BY <2>1 DEF IInv, CallTypes, Met
  <2>5. Met'
    BY <2>1, <2>2, <2>3 DEF IInv, CallTypes, Met
  <2> QED
    BY <2>1, <2>4, <2>5 DEF IInv, AcceptedForPeer, SentOnAcceptance, Empty
<1>8. CASE Dial
  BY <1>8
  DEF Dial, udp, IInv, CallTypes, Met, AcceptedForPeer, SentOnAcceptance,
      Empty
<1>9. CASE Dialled
  <2>1. /\ pc = "dialling" /\ pc' \in {"send", "returned", "dial"}
        /\ \/ timeouts' = timeouts
           \/ timeouts < MaxTimeouts /\ timeouts' = timeouts + 1
        /\ UNCHANGED <<mail, peer, requests, latest, said, times>>
    BY <1>9 DEF Dialled, CountTimeOut, TimeLeft, udp
  <2>2. CallTypes'
    BY <2>1 DEF IInv, CallTypes
  <2>3. Met' /\ AcceptedForPeer' /\ SentOnAcceptance'
    BY <2>1 DEF IInv, Met, AcceptedForPeer, SentOnAcceptance, Empty
  <2> QED
    BY <2>2, <2>3 DEF IInv
<1>10. CASE Send
  BY <1>10
  DEF Send, udp, IInv, CallTypes, Met, AcceptedForPeer, SentOnAcceptance,
      Empty
<1>11. CASE Close
  BY <1>11
  DEF Close, udp, IInv, CallTypes, Met, AcceptedForPeer, SentOnAcceptance,
      Empty
<1>12. CASE Abort
  BY <1>12
  DEF Abort, udp, IInv, CallTypes, Met, AcceptedForPeer, SentOnAcceptance,
      Empty
<1>13. CASE UNCHANGED <<call, udp>>
  BY <1>13, Elsewhere
<1> QED
  BY <1>1, <1>2, <1>3, <1>4, <1>5, <1>6, <1>7, <1>8, <1>9, <1>10, <1>11,
     <1>12, <1>13
  DEF Next, CallStep, TcpStep, vars

(* The types of the call, the requests its answers account for, and the     *)
(* device that accepted hold in every behaviour.                            *)
THEOREM Invariance == Spec => []IInv
BY InitInvariant, NextInvariant, PTL DEF Spec

(* However often the others answer, also with what was not asked, a call    *)
(* sends at most maxTimeouts requests and three for every datagram.         *)
THEOREM BoundedRequests == Spec => []RequestsBounded
<1>1. IInv => RequestsBounded
  BY DEF IInv, Met, RequestsBounded
<1> QED
  BY <1>1, Invariance, PTL

(* A connection is only made for, and a count only sent to, the device that *)
(* answered first, on an acceptance that only empty datagrams have followed *)
(* when one of that device is read: for any number of them.                 *)
THEOREM GoesOnAcceptance == Spec => []SentOnAcceptance
<1>1. IInv => SentOnAcceptance
  BY DEF IInv
<1> QED
  BY <1>1, Invariance, PTL
-----------------------------------------------------------------------------
(* The connection.  A retry never finds the scheduler's queue with nothing  *)
(* but the task in it, because a socket that is told to start over always   *)
(* leaves something behind: the failure itself, or the descriptor.          *)
TcpOp == Tcp!Result \cup {"task", "descriptor"}

HasTask(s) == \E i \in 1 .. Len(s) : s[i] = "task"

(* The failure is in the queue and the descriptor will be.                  *)
Fresh ==
  /\ Len(ops) = 2 /\ Head(ops) = "task"
  /\ edge /\ "descriptor" \notin ToSet(ops)

Leftovers ==
  /\ running /\ timeouts > 0 => Len(ops) >= 2
  /\ socket = "unconnected" =>
       IF running THEN Len(ops) >= 3 \/ Fresh ELSE Len(ops) >= 2

Phases ==
  /\ running => pc = "dialling"
  /\ pc \in {"start", "first"} \cup Asking => socket = "none"
  /\ pc = "dialling" => socket # "none"
  /\ pc = "dial" /\ socket = "none" => timeouts = 0

Waits ==
  IF pc \in {"first", "answer"} THEN waiting = TRUE ELSE waiting = FALSE

TcpInv == Tcp!TypeOK /\ HasTask(ops) /\ Leftovers /\ Phases /\ Waits

(* What the operations of the scheduler do to its queue.                    *)
LEMMA QueueTail ==
  ASSUME NEW s \in Seq(TcpOp), HasTask(s), Head(s) # "task"
  PROVE  Tail(s) \in Seq(TcpOp) /\ HasTask(Tail(s)) /\ Len(Tail(s)) = Len(s) - 1
<1>1. PICK i \in 1 .. Len(s) : s[i] = "task"
  BY DEF HasTask
<1>2. s # <<>> /\ Len(s) \in Nat
  BY <1>1, LenProperties
<1>3. /\ Tail(s) \in Seq(TcpOp) /\ Len(Tail(s)) = Len(s) - 1
      /\ \A j \in 1 .. Len(Tail(s)) : Tail(s)[j] = s[j + 1]
  BY <1>2, HeadTailProperties
<1>4. i # 1
  BY <1>1, <1>2
<1>5. i - 1 \in 1 .. Len(Tail(s)) /\ Tail(s)[i - 1] = "task"
  BY <1>1, <1>2, <1>3, <1>4
<1> QED
  BY <1>3, <1>5 DEF HasTask

LEMMA QueueAppend ==
  ASSUME NEW s \in Seq(TcpOp), HasTask(s), NEW op \in TcpOp
  PROVE  /\ Append(s, op) \in Seq(TcpOp) /\ HasTask(Append(s, op))
         /\ Len(Append(s, op)) = Len(s) + 1 /\ Len(s) >= 1
         /\ Append(s, op)[1] = s[1] /\ Append(s, op)[Len(s) + 1] = op
<1>1. PICK i \in 1 .. Len(s) : s[i] = "task"
  BY DEF HasTask
<1>2. Len(s) \in Nat
  BY LenProperties
<1>3. /\ Append(s, op) \in Seq(TcpOp) /\ Len(Append(s, op)) = Len(s) + 1
      /\ Append(s, op)[i] = "task"
  BY <1>1, AppendProperties
<1>4. i \in 1 .. Len(Append(s, op)) /\ 1 \in 1 .. Len(s)
  BY <1>1, <1>2, <1>3
<1>5. Append(s, op)[1] = s[1] /\ Append(s, op)[Len(s) + 1] = op
  BY <1>4, AppendProperties
<1> QED
  BY <1>1, <1>2, <1>3, <1>4, <1>5 DEF HasTask

LEMMA QueueConcat ==
  ASSUME NEW s \in Seq(TcpOp), NEW t \in Seq(TcpOp), HasTask(s) \/ HasTask(t)
  PROVE  s \o t \in Seq(TcpOp) /\ HasTask(s \o t) /\ Len(s \o t) = Len(s) + Len(t)
<1> DEFINE c == s \o t
<1>1. /\ c \in Seq(TcpOp) /\ Len(c) = Len(s) + Len(t)
      /\ \A i \in 1 .. Len(s) + Len(t) :
           c[i] = IF i <= Len(s) THEN s[i] ELSE t[i - Len(s)]
  BY ConcatProperties
<1>2. Len(s) \in Nat /\ Len(t) \in Nat
  BY LenProperties
<1> HIDE DEF c
<1>3. CASE HasTask(s)
  <2>1. PICK i \in 1 .. Len(s) : s[i] = "task"
    BY <1>3 DEF HasTask
  <2>2. i \in 1 .. Len(c) /\ c[i] = "task"
    BY <1>1, <1>2, <2>1
  <2> QED
    BY <1>1, <2>2 DEF HasTask, c
<1>4. CASE HasTask(t)
  <2>1. PICK i \in 1 .. Len(t) : t[i] = "task"
    BY <1>4 DEF HasTask
  <2> DEFINE k == Len(s) + i
  <2>2. /\ k \in 1 .. Len(s) + Len(t) /\ ~(k <= Len(s)) /\ k - Len(s) = i
    BY <1>2, <2>1
  <2> HIDE DEF k
  <2>3. c[k] = "task"
    BY <1>1, <2>1, <2>2
  <2> QED
    BY <1>1, <2>2, <2>3 DEF HasTask, c
<1> QED
  BY <1>3, <1>4

LEMMA QueueEnds ==
  /\ <<"task">> \in Seq(TcpOp) /\ HasTask(<<"task">>) /\ Len(<<"task">>) = 1
  /\ <<"descriptor", "task">> \in Seq(TcpOp)
  /\ HasTask(<<"descriptor", "task">>) /\ Len(<<"descriptor", "task">>) = 2
<1>1. <<"task">>[1] = "task" /\ <<"descriptor", "task">>[2] = "task"
  OBVIOUS
<1>2. Len(<<"task">>) = 1 /\ Len(<<"descriptor", "task">>) = 2
  OBVIOUS
<1>3. <<"task">> \in Seq(TcpOp) /\ <<"descriptor", "task">> \in Seq(TcpOp)
  BY DEF TcpOp
<1>4. 1 \in 1 .. 1 /\ 2 \in 1 .. 2
  OBVIOUS
<1> QED
  BY <1>1, <1>2, <1>3, <1>4 DEF HasTask

(* What connect(2) can answer, by what becomes of the socket.               *)
LEMMA ConnectingCases ==
  ASSUME NEW next \in Tcp!Socket, NEW result \in Tcp!Result \cup {"in_progress"},
         Tcp!Connecting(next, result)
  PROVE  \/ /\ result = "in_progress" /\ next = "connecting"
            /\ socket \in {"none", "unconnected"}
         \/ /\ result \in Tcp!Result /\ next # "none"
            /\ next = "unconnected" => socket \in {"none", "unconnected", "failed"}
BY DEF Tcp!Connecting, Tcp!Socket, Tcp!Result

LEMMA ConnectKeeps ==
  ASSUME IInv, TcpInv, Dial
  PROVE  TcpInv'
<1>1. PICK next \in Tcp!Socket, result \in Tcp!Result \cup {"in_progress"} :
        /\ Tcp!Connecting(next, result)
        /\ socket' = next
        /\ Tcp!StartConnect(result)
  BY DEF Dial, Tcp!Connect
<1>2. /\ pc = "dial" /\ pc' = "dialling" /\ ~running /\ running' = TRUE
      /\ edge' = (edge \/ socket \in {"none", "failed"})
      /\ error' = (error /\ socket # "failed")
      /\ UNCHANGED <<isConnected, reached, waiting, timeouts>>
  BY DEF Dial, Tcp!Connect, udp
<1>3. ops \in Seq(TcpOp) /\ HasTask(ops) /\ pending \in Nat /\ Len(ops) \in Nat
  BY LenProperties DEF TcpInv, Tcp!TypeOK, TcpOp
<1>4. socket' # "none" /\ timeouts \in Nat
  BY <1>1, ConnectingCases, BroadcastAssumption
  DEF Tcp!Result, IInv, CallTypes
<1>5. Phases' /\ Waits'
  BY <1>2, <1>4 DEF Phases, TcpInv, Waits, Asking
<1>6. /\ error' \in BOOLEAN /\ edge' \in BOOLEAN /\ isConnected' \in BOOLEAN
      /\ running' \in BOOLEAN /\ reached' \in BOOLEAN
  <2>1. isConnected \in BOOLEAN /\ reached \in BOOLEAN
    BY Zenon DEF TcpInv, Tcp!TypeOK
  <2> QED
    BY <1>2, <2>1, Zenon
<1>7. CASE result = "in_progress"
  <2>1. /\ pending' = pending + 1 /\ ops' = ops /\ socket' = "connecting"
        /\ socket \in {"none", "unconnected"}
    BY <1>1, <1>7, ConnectingCases DEF Tcp!StartConnect, Tcp!Result
  <2>2. Tcp!TypeOK' /\ HasTask(ops)'
    BY <1>3, <1>6, <2>1 DEF Tcp!TypeOK, Tcp!Socket, TcpOp
  <2>3. Leftovers'
    BY <1>2, <2>1 DEF TcpInv, Leftovers, Phases
  <2> QED
    BY <1>5, <2>2, <2>3 DEF TcpInv
<1>8. CASE result # "in_progress"
  <2>1. /\ result \in Tcp!Result /\ result \in TcpOp
        /\ pending' = pending /\ ops' = Append(ops, result)
        /\ socket' = "unconnected" => socket \in {"none", "unconnected", "failed"}
    BY <1>1, <1>8, ConnectingCases DEF Tcp!StartConnect, TcpOp
  <2>2. ops' \in Seq(TcpOp) /\ HasTask(ops') /\ Len(ops') = Len(ops) + 1
        /\ Len(ops) >= 1
    BY <1>3, <2>1, QueueAppend
  <2>3. Tcp!TypeOK' /\ HasTask(ops)'
    BY <1>1, <1>3, <1>6, <2>1, <2>2 DEF Tcp!TypeOK, TcpOp
  <2>4. CASE socket' = "unconnected" /\ Len(ops) = 1
    <3>1. socket \in {"none", "failed"}
      BY <1>2, <2>1, <2>4 DEF TcpInv, Leftovers
    <3>2. ops[1] = "task"
      BY <1>3, <2>4 DEF HasTask
    <3>3. ops'[1] = "task" /\ ops'[2] = result
      <4>1. /\ Append(ops, result)[1] = ops[1]
            /\ Append(ops, result)[Len(ops) + 1] = result
        BY <1>3, <2>1, QueueAppend
      <4> QED
        BY <2>1, <2>4, <3>2, <4>1
    <3>4. Head(ops') = "task" /\ "descriptor" \notin ToSet(ops')
      <4>1. result # "descriptor"
        BY <2>1 DEF Tcp!Result
      <4>2. DOMAIN ops' = 1 .. 2
        BY <2>2, <2>4, LenProperties
      <4>3. \A i \in DOMAIN ops' : ops'[i] # "descriptor"
        BY <3>3, <4>1, <4>2
      <4> QED
        BY <2>2, <3>3, <4>3 DEF ToSet
    <3>5. edge' = TRUE
      BY <1>2, <3>1
    <3>6. Fresh'
      BY <2>2, <2>4, <3>4, <3>5 DEF Fresh
    <3> QED
      BY <1>2, <1>3, <1>5, <2>2, <2>3, <3>6 DEF TcpInv, Leftovers
  <2>5. CASE ~(socket' = "unconnected" /\ Len(ops) = 1)
    <3>1. Leftovers'
      <4>1. Len(ops') >= 2
        BY <1>3, <2>2
      <4>2. ASSUME socket' = "unconnected" PROVE Len(ops') >= 3
        <5>1. Len(ops) # 1
          BY <2>5, <4>2, Zenon
        <5>2. Len(ops) \in Nat /\ Len(ops) >= 1 /\ Len(ops') = Len(ops) + 1
          BY <1>3, <2>2
        <5>3. \A n \in Nat : n >= 1 /\ n # 1 => n + 1 >= 3
          OBVIOUS
        <5> QED
          BY <5>1, <5>2, <5>3
      <4> QED
        BY <1>2, <4>1, <4>2 DEF Leftovers
    <3> QED
      BY <1>5, <2>3, <3>1 DEF TcpInv
  <2> QED
    BY <2>4, <2>5
<1> QED
  BY <1>7, <1>8

(* The reactor's task goes behind what it found.                            *)
LEMMA RunTaskKeeps ==
  ASSUME IInv, TcpInv, TcpStep(Tcp!RunTask)
  PROVE  TcpInv'
<1>1. /\ running /\ Head(ops) = "task"
      /\ ops' = Tail(ops)
                  \o (IF Tcp!Ready /\ "descriptor" \notin ToSet(ops)
                      THEN <<"descriptor", "task">> ELSE <<"task">>)
      /\ edge' = FALSE
      /\ UNCHANGED <<pc, timeouts, waiting>>
      /\ UNCHANGED <<socket, error, pending, isConnected, running, reached>>
  <2>1. Tcp!RunTask /\ UNCHANGED <<call, udp>>
    BY DEF TcpStep
  <2>2. UNCHANGED <<pc, timeouts, waiting>>
    BY <2>1 DEF call, udp
  <2> QED
    BY <2>1, <2>2, Zenon DEF Tcp!RunTask, Tcp!ToSet, ToSet
<1>2. ops \in Seq(TcpOp) /\ HasTask(ops) /\ pending \in Nat /\ Len(ops) \in Nat
      /\ ops # <<>> /\ socket \in Tcp!Socket
  <2>1. ops \in Seq(TcpOp) /\ HasTask(ops) /\ pending \in Nat
        /\ socket \in Tcp!Socket
    BY DEF TcpInv, Tcp!TypeOK, TcpOp
  <2>2. Len(ops) \in Nat
    BY <2>1, LenProperties
  <2>3. ops # <<>>
    BY <2>1, <2>2 DEF HasTask
  <2> QED
    BY <2>1, <2>2, <2>3
<1>3. Tail(ops) \in Seq(TcpOp) /\ Len(Tail(ops)) = Len(ops) - 1
  BY <1>2, HeadTailProperties
<1>4. ops' \in Seq(TcpOp) /\ HasTask(ops')
      /\ Len(ops') = IF Tcp!Ready /\ "descriptor" \notin ToSet(ops)
                     THEN Len(ops) + 1 ELSE Len(ops)
  <2>1. CASE Tcp!Ready /\ "descriptor" \notin ToSet(ops)
    <3>1. ops' = Tail(ops) \o <<"descriptor", "task">>
      BY <1>1, <2>1
    <3>2. ops' \in Seq(TcpOp) /\ HasTask(ops')
          /\ Len(ops') = Len(Tail(ops)) + 2
      BY <1>3, <3>1, QueueConcat, QueueEnds
    <3> QED
      BY <1>2, <1>3, <2>1, <3>2
  <2>2. CASE ~(Tcp!Ready /\ "descriptor" \notin ToSet(ops))
    <3>1. ops' = Tail(ops) \o <<"task">>
      BY <1>1, <2>2
    <3>2. ops' \in Seq(TcpOp) /\ HasTask(ops')
          /\ Len(ops') = Len(Tail(ops)) + 1
      BY <1>3, <3>1, QueueConcat, QueueEnds
    <3>3. Len(ops') = Len(ops)
      BY <1>2, <1>3, <3>2
    <3> QED
      BY <2>2, <3>2, <3>3
  <2> QED
    BY <2>1, <2>2
<1>5. Len(ops') \in Nat /\ Len(ops') >= Len(ops)
  BY <1>2, <1>4
<1>6. Tcp!TypeOK'
  <2>1. /\ error' \in BOOLEAN /\ edge' \in BOOLEAN /\ isConnected' \in BOOLEAN
        /\ running' \in BOOLEAN /\ reached' \in BOOLEAN
    BY <1>1, Zenon DEF TcpInv, Tcp!TypeOK
  <2> QED
    BY <1>1, <1>2, <1>4, <2>1 DEF Tcp!TypeOK, TcpOp
<1>7. Leftovers'
  <2>1. ASSUME socket = "unconnected" PROVE Len(ops') >= 3
    <3>1. CASE Fresh
      <4>1. Len(ops) = 2 /\ Tcp!Ready /\ "descriptor" \notin ToSet(ops)
        BY <2>1, <3>1 DEF Fresh, Tcp!Ready
      <4> QED
        BY <1>4, <4>1
    <3>2. CASE ~Fresh
      <4>1. Len(ops) >= 3
        BY <1>1, <2>1, <3>2 DEF TcpInv, Leftovers
      <4> QED
        BY <1>2, <1>5, <4>1
    <3> QED
      BY <3>1, <3>2
  <2>2. ASSUME timeouts > 0 PROVE Len(ops') >= 2
    <3>1. Len(ops) >= 2
      BY <1>1, <2>2 DEF TcpInv, Leftovers
    <3> QED
      BY <1>2, <1>5, <3>1
  <2> QED
    BY <1>1, <2>1, <2>2 DEF Leftovers
<1> QED
  BY <1>1, <1>4, <1>6, <1>7 DEF TcpInv, Phases, Waits, HasTask

(* An event takes at most the front of the queue, and it is the last of     *)
(* its call.                                                                *)
LEMMA EventKeeps ==
  ASSUME IInv, TcpInv, running, running' = FALSE,
         Head(ops) # "task", ops' \in Seq(TcpOp), HasTask(ops'),
         Len(ops') \in Nat, Len(ops') >= Len(ops) - 1,
         UNCHANGED <<socket, edge, reached, pc, timeouts, waiting>>,
         error' \in BOOLEAN, isConnected' \in BOOLEAN, pending' \in Nat
  PROVE  TcpInv'
<1>1. Len(ops) \in Nat
  BY LenProperties DEF TcpInv, Tcp!TypeOK
<1>2. Tcp!TypeOK'
  <2>1. edge' \in BOOLEAN /\ running' \in BOOLEAN /\ reached' \in BOOLEAN
    BY Zenon DEF TcpInv, Tcp!TypeOK
  <2>2. socket' \in Tcp!Socket
    BY DEF TcpInv, Tcp!TypeOK
  <2> QED
    BY <2>1, <2>2 DEF Tcp!TypeOK, TcpOp
<1>3. Leftovers'
  <2>1. ASSUME socket = "unconnected" PROVE Len(ops') >= 2
    <3>1. Len(ops) >= 3
      BY <2>1 DEF TcpInv, Leftovers, Fresh
    <3> QED
      BY <1>1, <3>1
  <2> QED
    BY <2>1 DEF Leftovers
<1> QED
  BY <1>2, <1>3 DEF TcpInv, Phases, Waits

(* What the connects that wait are told is a sequence of results.           *)
LEMMA ResultsTail ==
  ASSUME pending \in Nat, NEW results,
         results = [i \in 1 .. pending |-> IF i = 1 /\ error THEN "error" ELSE "ok"],
         results # <<>>
  PROVE  /\ Head(results) \in Tcp!Result
         /\ Tail(results) \in Seq(TcpOp)
<1>1. results \in Seq(Tcp!Result)
  <2>1. results \in [1 .. pending -> Tcp!Result]
    BY DEF Tcp!Result
  <2> QED
    BY <2>1, SeqDef
<1>2. Head(results) \in Tcp!Result /\ Tail(results) \in Seq(Tcp!Result)
  BY <1>1, HeadTailProperties
<1> QED
  BY <1>2, SeqMonotonic DEF TcpOp

LEMMA RunDescriptorKeeps ==
  ASSUME IInv, TcpInv, TcpStep(Tcp!RunDescriptor)
  PROVE  TcpInv'
<1> DEFINE results == IF socket = "connecting" THEN <<>>
                      ELSE [i \in 1 .. pending |->
                              IF i = 1 /\ error THEN "error" ELSE "ok"]
<1>1. /\ running /\ Head(ops) = "descriptor"
      /\ UNCHANGED <<socket, edge, reached, pc, timeouts, waiting>>
      /\ IF results = <<>>
         THEN /\ ops' = Tail(ops) /\ running' = FALSE
              /\ UNCHANGED <<error, pending, isConnected>>
         ELSE /\ ops' = Tail(ops) \o Tail(results)
              /\ error' = FALSE /\ pending' = 0
              /\ Tcp!HandleConnect(Head(results))
  BY DEF TcpStep, Tcp!RunDescriptor, call, udp
<1>2. ops \in Seq(TcpOp) /\ HasTask(ops) /\ pending \in Nat
  BY DEF TcpInv, Tcp!TypeOK, TcpOp
<1>3. /\ Tail(ops) \in Seq(TcpOp) /\ HasTask(Tail(ops))
      /\ Len(Tail(ops)) = Len(ops) - 1
      /\ Len(Tail(ops)) \in Nat
  <2>1. Head(ops) # "task"
    BY <1>1
  <2>2. Tail(ops) \in Seq(TcpOp) /\ HasTask(Tail(ops))
        /\ Len(Tail(ops)) = Len(ops) - 1
    BY <1>2, <2>1, QueueTail
  <2> QED
    BY <2>2, LenProperties
<1>4. CASE results = <<>>
  <2>1. ops' = Tail(ops) /\ running' = FALSE
        /\ UNCHANGED <<error, pending, isConnected>>
    BY <1>1, <1>4
  <2>2. error' \in BOOLEAN /\ isConnected' \in BOOLEAN
    BY <2>1, Zenon DEF TcpInv, Tcp!TypeOK
  <2>3. Len(ops') \in Nat /\ Len(ops') >= Len(ops) - 1
    BY <1>3, <2>1
  <2>4. Head(ops) # "task" /\ running
    BY <1>1
  <2> QED
    BY <1>1, <1>2, <1>3, <2>1, <2>2, <2>3, <2>4, EventKeeps
<1>5. CASE results # <<>>
  <2>1. /\ ops' = Tail(ops) \o Tail(results)
        /\ error' = FALSE /\ pending' = 0 /\ running' = FALSE
        /\ isConnected' = (isConnected \/ Head(results) = "ok")
    BY <1>1, <1>5 DEF Tcp!HandleConnect
  <2>2. Tail(results) \in Seq(TcpOp)
    BY <1>2, <1>5, ResultsTail
  <2> HIDE DEF results
  <2>3. ops' \in Seq(TcpOp) /\ HasTask(ops')
        /\ Len(ops') = Len(Tail(ops)) + Len(Tail(results))
    BY <1>3, <2>1, <2>2, QueueConcat
  <2>4. Len(Tail(results)) \in Nat
    BY <2>2, LenProperties
  <2>5. Len(ops') \in Nat /\ Len(ops') >= Len(ops) - 1
    <3>1. Len(ops) \in Nat
      BY <1>2, LenProperties
    <3> QED
      BY <1>3, <2>3, <2>4, <3>1
  <2>6. error' \in BOOLEAN /\ isConnected' \in BOOLEAN
    BY <2>1, Zenon DEF TcpInv, Tcp!TypeOK
  <2>7. Head(ops) # "task" /\ running /\ pending' \in Nat
    BY <1>1, <2>1
  <2> QED
    BY <1>1, <2>1, <2>3, <2>5, <2>6, <2>7, EventKeeps
<1> QED
  BY <1>4, <1>5

LEMMA RunCompletedKeeps ==
  ASSUME IInv, TcpInv, TcpStep(Tcp!RunCompleted)
  PROVE  TcpInv'
<1>1. /\ running /\ Head(ops) \in Tcp!Result /\ ops' = Tail(ops)
      /\ isConnected' = (isConnected \/ Head(ops) = "ok")
      /\ running' = FALSE
      /\ UNCHANGED <<socket, error, edge, pending, reached>>
      /\ UNCHANGED <<pc, timeouts, waiting>>
  BY DEF TcpStep, Tcp!RunCompleted, Tcp!HandleConnect, call, udp
<1>2. ops \in Seq(TcpOp) /\ HasTask(ops) /\ pending \in Nat
  BY DEF TcpInv, Tcp!TypeOK, TcpOp
<1>3. Head(ops) # "task"
  BY <1>1 DEF Tcp!Result
<1>4. /\ ops' \in Seq(TcpOp) /\ HasTask(ops') /\ Len(ops') = Len(ops) - 1
  BY <1>1, <1>2, <1>3, QueueTail
<1>5. Len(ops') \in Nat /\ Len(ops') >= Len(ops) - 1
  BY <1>4, LenProperties
<1>6. error' \in BOOLEAN /\ isConnected' \in BOOLEAN
  <2>1. error \in BOOLEAN /\ isConnected \in BOOLEAN
    BY Zenon DEF TcpInv, Tcp!TypeOK
  <2> QED
    BY <1>1, <2>1, Zenon
<1> QED
  BY <1>1, <1>2, <1>3, <1>4, <1>5, <1>6, EventKeeps

(* What the connection itself does not see.                                 *)
LEMMA CallKeeps ==
  ASSUME IInv, TcpInv, ~running, running' = FALSE,
         UNCHANGED <<error, edge, ops, pending, reached>>,
         isConnected' \in BOOLEAN,
         socket' \in Tcp!Socket, socket' = "unconnected" => socket = "unconnected",
         Phases', Waits'
  PROVE  TcpInv'
<1>1. Tcp!TypeOK'
  <2>1. /\ error' \in BOOLEAN /\ edge' \in BOOLEAN
        /\ running' \in BOOLEAN /\ reached' \in BOOLEAN
    BY Zenon DEF TcpInv, Tcp!TypeOK
  <2> QED
    BY <2>1 DEF TcpInv, Tcp!TypeOK
<1>2. Leftovers'
  BY DEF TcpInv, Leftovers
<1> QED
  BY <1>1, <1>2 DEF TcpInv, HasTask

(* The other device and the kernel only touch a socket that has started.    *)
LEMMA PeerKeeps ==
  ASSUME IInv, TcpInv,
         TcpStep(Tcp!Establish) \/ TcpStep(Tcp!Refuse) \/ TcpStep(Tcp!Reset)
  PROVE  TcpInv'
<1>1. /\ UNCHANGED <<ops, pending, isConnected, running, pc, timeouts, waiting>>
      /\ socket' \in {"established", "failed", "reset"}
      /\ socket \in {"connecting", "established", "connected"}
      /\ error' \in {error, TRUE} /\ edge' = TRUE /\ reached' \in {reached, TRUE}
  BY DEF TcpStep, Tcp!Establish, Tcp!Refuse, Tcp!Reset, call, udp
<1>2. Tcp!TypeOK'
  <2>1. /\ error' \in BOOLEAN /\ edge' \in BOOLEAN /\ isConnected' \in BOOLEAN
        /\ running' \in BOOLEAN /\ reached' \in BOOLEAN
    <3>1. /\ error \in BOOLEAN /\ isConnected \in BOOLEAN
          /\ running \in BOOLEAN /\ reached \in BOOLEAN
      BY Zenon DEF TcpInv, Tcp!TypeOK
    <3> QED
      BY <1>1, <3>1
  <2> QED
    BY <1>1, <2>1 DEF TcpInv, Tcp!TypeOK, Tcp!Socket
<1>3. Leftovers' /\ Phases' /\ Waits'
  BY <1>1 DEF TcpInv, Leftovers, Phases, Waits
<1> QED
  BY <1>1, <1>2, <1>3 DEF TcpInv, HasTask

LEMMA TcpInitInvariant == Init => TcpInv
<1> SUFFICES ASSUME Init PROVE TcpInv
  OBVIOUS
<1>1. Tcp!Init /\ pc = "start" /\ waiting = FALSE /\ timeouts = 0
  BY DEF Init
<1>2. Tcp!TypeOK
  <2>1. \A b \in {error, edge, isConnected, running, reached} : b \in BOOLEAN
    BY <1>1, Zenon DEF Tcp!Init
  <2> QED
    BY <1>1, <2>1, QueueEnds DEF Tcp!Init, Tcp!TypeOK, Tcp!Socket, TcpOp
<1> QED
  BY <1>1, <1>2, QueueEnds
  DEF TcpInv, Tcp!Init, Leftovers, Phases, Waits, Asking

LEMMA TimeOutKeeps ==
  ASSUME IInv, TcpInv, TcpStep(Tcp!TimeOut)
  PROVE  TcpInv'
<1>1. /\ running /\ ops = <<"task">> /\ running' = FALSE /\ edge' = FALSE
      /\ UNCHANGED <<socket, error, ops, pending, isConnected, reached>>
      /\ UNCHANGED <<pc, timeouts, waiting>>
  BY DEF TcpStep, Tcp!TimeOut, call, udp
<1>2. socket # "unconnected"
  BY <1>1, QueueEnds DEF TcpInv, Leftovers, Fresh
<1>3. Tcp!TypeOK'
  <2>1. /\ error' \in BOOLEAN /\ edge' \in BOOLEAN /\ isConnected' \in BOOLEAN
        /\ running' \in BOOLEAN /\ reached' \in BOOLEAN
    BY <1>1, Zenon DEF TcpInv, Tcp!TypeOK
  <2> QED
    BY <1>1, <2>1 DEF TcpInv, Tcp!TypeOK
<1>4. Leftovers' /\ Phases' /\ Waits'
  BY <1>1, <1>2 DEF TcpInv, Leftovers, Phases, Waits
<1> QED
  BY <1>1, <1>3, <1>4 DEF TcpInv, HasTask

LEMMA TcpNextInvariant == IInv /\ TcpInv /\ [Next]_vars => TcpInv'
<1> SUFFICES ASSUME IInv, TcpInv, [Next]_vars PROVE TcpInv'
  OBVIOUS
<1>1. ASSUME pc # "dialling" \/ ~running, UNCHANGED tcp, Phases', Waits'
      PROVE  TcpInv'
  <2>1. /\ ~running /\ running' = FALSE /\ isConnected \in BOOLEAN
        /\ socket \in Tcp!Socket
    <3>1. running \in BOOLEAN /\ isConnected \in BOOLEAN
      BY Zenon DEF TcpInv, Tcp!TypeOK
    <3> QED
      BY <1>1, <3>1 DEF TcpInv, Tcp!TypeOK, Phases, tcp
  <2>2. UNCHANGED <<socket, error, edge, ops, pending, isConnected, reached>>
    BY <1>1 DEF tcp
  <2> QED
    BY <1>1, <2>1, <2>2, CallKeeps
<1>2. CASE Start \/ FirstAnswer \/ NoAnswer \/ Ask \/ LinkAnswer \/ LinkTimeOut
  <2>1. pc \in {"start", "first"} \cup Asking /\ UNCHANGED tcp
    BY <1>2
    DEF Start, FirstAnswer, NoAnswer, Ask, LinkAnswer, LinkTimeOut, Asking
  <2>2. ~running
    BY <2>1 DEF TcpInv, Phases, Asking
  <2>3. socket = "none"
    BY <2>1 DEF TcpInv, Phases
  <2>4. /\ pc' \in {"start", "first", "dial", "returned"} \cup Asking
        /\ pc' = "dial" => timeouts' = 0
    BY <1>2
    DEF Start, FirstAnswer, NoAnswer, Ask, LinkAnswer, LinkTimeOut, Return,
        Asking
  <2>5. Phases'
    BY <2>1, <2>2, <2>3, <2>4 DEF Phases, Asking, tcp
  <2>6. Waits'
    BY <1>2
    DEF Start, FirstAnswer, NoAnswer, Ask, LinkAnswer, LinkTimeOut, Return,
        Box!Await, Box!Answer, Box!Nothing, Waits, TcpInv
  <2> QED
    BY <1>1, <2>1, <2>2, <2>5, <2>6
<1>3. ASSUME NEW device \in Device, NEW request \in Request,
             Arrive(device, request)
      PROVE  TcpInv'
  <2>1. /\ pc \in {"first", "ask", "answer"}
        /\ UNCHANGED <<tcp, pc, timeouts, waiting>>
    BY <1>3 DEF Arrive, call
  <2>2. Phases' /\ Waits'
    BY <2>1 DEF TcpInv, Phases, Waits, tcp
  <2> QED
    BY <1>1, <2>1, <2>2
<1>4. CASE Dial
  BY <1>4, ConnectKeeps
<1>5. CASE Dialled
  <2>1. /\ pc = "dialling" /\ ~running /\ pc' \in {"send", "returned", "dial"}
        /\ UNCHANGED <<tcp, waiting>>
    BY <1>5 DEF Dialled, Return, udp
  <2>2. Phases' /\ Waits'
    BY <2>1 DEF TcpInv, Phases, Waits, Asking, tcp
  <2> QED
    BY <1>1, <2>1, <2>2
<1>6. CASE Send \/ Abort
  <2>1. /\ pc \in {"start", "ask", "dial", "send", "close"}
        /\ pc' \in {"close", "aborted"} /\ UNCHANGED <<tcp, waiting>>
    BY <1>6 DEF Send, Abort, udp
  <2>2. Phases' /\ Waits'
    BY <2>1 DEF TcpInv, Phases, Waits, Asking, tcp
  <2> QED
    BY <1>1, <2>1, <2>2
<1>7. CASE Close
  <2>1. /\ pc = "close" /\ pc' = "returned"
        /\ isConnected' = FALSE /\ socket' = "shut"
        /\ UNCHANGED <<error, edge, ops, pending, running, reached, waiting>>
    BY <1>7 DEF Close, Return, udp
  <2>2. ~running
    BY <2>1 DEF TcpInv, Phases
  <2>3. running' = FALSE /\ isConnected' \in BOOLEAN
    <3>1. running \in BOOLEAN
      BY Zenon DEF TcpInv, Tcp!TypeOK
    <3> QED
      BY <2>1, <2>2, <3>1
  <2>4. Phases' /\ Waits'
    BY <2>1, <2>2 DEF TcpInv, Phases, Waits, Asking
  <2>5. socket' \in Tcp!Socket /\ socket' # "unconnected"
    BY <2>1 DEF Tcp!Socket
  <2> QED
    BY <2>1, <2>2, <2>3, <2>4, <2>5, CallKeeps
<1>8. CASE TcpStep(Tcp!ConnectStep)
  <2>1. \/ TcpStep(Tcp!RunTask) \/ TcpStep(Tcp!TimeOut)
        \/ TcpStep(Tcp!RunDescriptor) \/ TcpStep(Tcp!RunCompleted)
    BY <1>8 DEF TcpStep, Tcp!ConnectStep
  <2> QED
    BY <2>1, RunTaskKeeps, TimeOutKeeps, RunDescriptorKeeps, RunCompletedKeeps
<1>9. CASE TcpStep(Tcp!Establish) \/ TcpStep(Tcp!Refuse) \/ TcpStep(Tcp!Reset)
  BY <1>9, PeerKeeps
<1>10. CASE UNCHANGED vars
  <2>1. Tcp!TypeOK' /\ HasTask(ops')
    BY <1>10 DEF TcpInv, Tcp!TypeOK, vars, tcp
  <2>2. Leftovers' /\ Phases' /\ Waits'
    BY <1>10 DEF TcpInv, Leftovers, Fresh, Phases, Waits, vars, tcp, call, udp
  <2> QED
    BY <2>1, <2>2 DEF TcpInv
<1> QED
  BY <1>2, <1>3, <1>4, <1>5, <1>6, <1>7, <1>8, <1>9, <1>10
  DEF Next, CallStep

(* In every behaviour of the call, the connection keeps its types and every *)
(* retry starts over a queue with something left in it.                     *)
THEOREM ConnectionInvariance == Spec => [](IInv /\ TcpInv)
<1>1. Init => IInv /\ TcpInv
  BY InitInvariant, TcpInitInvariant
<1>2. (IInv /\ TcpInv) /\ [Next]_vars => (IInv /\ TcpInv)'
  BY NextInvariant, TcpNextInvariant
<1> QED
  BY <1>1, <1>2, PTL DEF Spec

(* All variables keep their types, those of the connection included.        *)
THEOREM TypeCorrect == Spec => []TypeOK
<1>1. IInv /\ TcpInv => TypeOK
  <2> SUFFICES ASSUME IInv, TcpInv PROVE TypeOK
    OBVIOUS
  <2>1. waiting \in BOOLEAN /\ (waiting <=> pc \in {"first", "answer"})
    <3>1. CASE pc \in {"first", "answer"}
      BY <3>1, Zenon DEF TcpInv, Waits
    <3>2. CASE pc \notin {"first", "answer"}
      BY <3>2, Zenon DEF TcpInv, Waits
    <3> QED
      BY <3>1, <3>2
  <2> QED
    BY <2>1 DEF IInv, CallTypes, TcpInv, TypeOK, Mail, Asking, Accepted
<1> QED
  BY <1>1, ConnectionInvariance, PTL

(* However large maxTimeouts is, no retry of connect waits for its time.    *)
THEOREM RetriesDoNotWait == Spec => OnlyFirstConnectWaits
<1>1. IInv /\ TcpInv => (Tcp!TimeOut => timeouts = 0)
  <2> SUFFICES ASSUME IInv, TcpInv, Tcp!TimeOut PROVE timeouts = 0
    OBVIOUS
  <2>1. running /\ ops = <<"task">>
    BY DEF Tcp!TimeOut
  <2>2. ~(timeouts > 0)
    BY <2>1, QueueEnds DEF TcpInv, Leftovers
  <2> QED
    BY <2>2, BroadcastAssumption DEF IInv, CallTypes
<1> QED
  BY <1>1, ConnectionInvariance, PTL DEF OnlyFirstConnectWaits
-----------------------------------------------------------------------------
(* What broadcastCount may believe of its connection.  The invariant lists  *)
(* what is left in the scheduler's queue between two connects and while one *)
(* runs, and with what the connects that wait will be answered.             *)

(* A socket that is being connected, also when that has been answered.      *)
Attempted == {"connecting", "established", "failed"}

(* The first event that will run reports a connection.                      *)
OkNext ==
  \/ Head(ops) = "ok"
  \/ Head(ops) = "task" /\ Len(ops) >= 2 /\ ops[2] = "ok"

(* Between two connects: nothing is left, or a descriptor that will answer  *)
(* the connects that wait, or a failure that was queued behind one, or the  *)
(* answers to connects that waited while another one failed.                *)
IdleQueue ==
  \/ /\ ops = <<"task">>
     /\ socket \in Attempted \cup {"none"}
     /\ pending = 0 => socket \in {"none", "failed"}
     /\ socket = "none" => pending = 0 /\ ~edge
  \/ /\ ops = <<"descriptor", "task">>
     /\ socket \in {"established", "failed", "unconnected"}
     /\ pending = 0 => socket = "unconnected"
     /\ socket = "unconnected" => ~edge
  \/ /\ ops \in {<<"task", "error">>, <<"error", "task">>}
     /\ socket = "unconnected" /\ pending = 0 /\ ~edge
  \/ OkNext /\ socket \in {"failed", "reset"}

(* While a connect runs: the same with what that connect has added.         *)
BusyQueue ==
  \/ /\ ops \in {<<"task">>, <<"error", "task">>, <<"descriptor", "task">>}
     /\ socket \in Attempted /\ pending > 0
  \/ /\ ops = <<"task", "error">>
     /\ socket \in Attempted \cup {"unconnected"}
     /\ pending = 0 => socket = "unconnected"
     /\ socket = "unconnected" => edge
  \/ /\ ops = <<"error", "descriptor", "task">>
     /\ socket \in {"established", "failed", "unconnected"}
     /\ pending = 0 => socket = "unconnected"
     /\ socket = "unconnected" => ~edge
  \/ /\ ops = <<"descriptor", "task", "error">>
     /\ socket = "unconnected"
     /\ pending = 0 => ~edge
  \/ /\ ops = <<"descriptor", "task", "ok">>
     /\ socket \in {"connected", "reset"} /\ pending > 0
  \/ /\ ops \in {<<"task", "error", "error">>, <<"error", "error", "task">>,
                 <<"error", "task", "error">>}
     /\ socket = "unconnected" /\ pending = 0 /\ ~edge
  \/ OkNext

Queue ==
  pc # "returned" /\ ~isConnected =>
    IF running THEN BusyQueue ELSE IdleQueue

(* What SO_ERROR, the connects that wait and the other device's answer have *)
(* to do with the socket.                                                   *)
Answers ==
  /\ error => socket \in {"failed", "reset", "shut"}
  /\ socket = "failed" /\ pending > 0 => error
  /\ socket \in {"established", "connected"} => reached
  /\ running => ~isConnected
  /\ pc \in {"send", "close"} => isConnected
  /\ socket = "none" => ~isConnected

(* Without an answer of the other device, the first two connects leave one  *)
(* connect waiting at most, and no descriptor for it to meet without error. *)
Early ==
  ~reached /\ timeouts < 2 =>
    /\ ~isConnected
    /\ pc = "dial" /\ timeouts = 0 => socket = "none"
    /\ pc \in {"dial", "dialling"} =>
         /\ pending <= 1
         /\ IF running
            THEN \/ ops \in {<<"task">>, <<"descriptor", "task">>}
                 \/ /\ ops \in {<<"task", "error">>,
                                <<"error", "descriptor", "task">>}
                    /\ timeouts = 0 => pending = 0
                 \/ ops = <<"error", "task">> /\ timeouts = 1
                 \/ /\ ops = <<"descriptor", "task", "error">>
                    /\ timeouts = 1 /\ pending = 0
            ELSE pc = "dial" \/ timeouts = 0 =>
                   \/ ops = <<"task">>
                   \/ ops = <<"descriptor", "task">> /\ pending = 0

(* The last toast is the only one, and comes when the call returns.         *)
Told ==
  /\ pc \notin Ended \cup {"close"} => toasts = <<>>
  /\ pc \in {"close", "aborted"} => toasts \in {<<>>, <<"Content sent">>}
  /\ LateAnswerCounts

ConnInv == Queue /\ Answers /\ Early /\ Told
-----------------------------------------------------------------------------
(* Short queues.                                                            *)
LEMMA ShortQueues ==
  ASSUME NEW a, NEW b, NEW c
  PROVE  /\ Head(<<a>>) = a /\ Tail(<<a>>) = <<>>
         /\ Head(<<a, b>>) = a /\ Tail(<<a, b>>) = <<b>>
         /\ Head(<<a, b, c>>) = a /\ Tail(<<a, b, c>>) = <<b, c>>
<1>1. Head(<<a>>) = a /\ Tail(<<a>>) = <<>>
  OBVIOUS
<1>2. Head(<<a, b>>) = a /\ Tail(<<a, b>>) = <<b>>
  OBVIOUS
<1>3. Head(<<a, b, c>>) = a /\ Tail(<<a, b, c>>) = <<b, c>>
  OBVIOUS
<1> QED
  BY <1>1, <1>2, <1>3

(* An event queued behind one other.                                       *)
LEMMA AppendToOne ==
  ASSUME NEW a, NEW b
  PROVE  Append(<<a>>, b) = <<a, b>>
<1> DEFINE S == {a, b}
           s == <<a>>
           t == <<a, b>>
<1>1. s \in Seq(S) /\ t \in Seq(S) /\ b \in S
  OBVIOUS
<1>2. Len(s) = 1 /\ Len(t) = 2 /\ s[1] = a /\ t[1] = a /\ t[2] = b
  OBVIOUS
<1> HIDE DEF S, s, t
<1>3. /\ Append(s, b) \in Seq(S) /\ Len(Append(s, b)) = 2
      /\ Append(s, b)[1] = a /\ Append(s, b)[2] = b
  <2>1. /\ Append(s, b) \in Seq(S) /\ Len(Append(s, b)) = Len(s) + 1
        /\ \A i \in 1 .. Len(s) : Append(s, b)[i] = s[i]
        /\ Append(s, b)[Len(s) + 1] = b
    BY <1>1, AppendProperties
  <2> QED
    BY <1>2, <2>1
<1>4. \A i \in 1 .. Len(Append(s, b)) : Append(s, b)[i] = t[i]
  BY <1>2, <1>3
<1>5. Len(Append(s, b)) = Len(t)
  BY <1>2, <1>3
<1>6. Append(s, b) = t
  BY <1>1, <1>3, <1>4, <1>5, SeqEqual
<1> QED
  BY <1>6 DEF s, t

(* An event queued behind two others.                                      *)
LEMMA AppendToTwo ==
  ASSUME NEW a, NEW b, NEW c
  PROVE  Append(<<a, b>>, c) = <<a, b, c>>
<1> DEFINE S == {a, b, c}
           s == <<a, b>>
           t == <<a, b, c>>
<1>1. s \in Seq(S) /\ t \in Seq(S) /\ c \in S
  OBVIOUS
<1>2. Len(s) = 2 /\ s[1] = a /\ s[2] = b
  OBVIOUS
<1>3. Len(t) = 3 /\ t[1] = a /\ t[2] = b /\ t[3] = c
  OBVIOUS
<1> HIDE DEF S, s, t
<1>4. /\ Append(s, c) \in Seq(S) /\ Len(Append(s, c)) = 3
      /\ Append(s, c)[1] = a /\ Append(s, c)[2] = b /\ Append(s, c)[3] = c
  <2>1. /\ Append(s, c) \in Seq(S) /\ Len(Append(s, c)) = Len(s) + 1
        /\ \A i \in 1 .. Len(s) : Append(s, c)[i] = s[i]
        /\ Append(s, c)[Len(s) + 1] = c
    BY <1>1, AppendProperties
  <2> QED
    BY <1>2, <2>1
<1>5. \A i \in 1 .. Len(Append(s, c)) : Append(s, c)[i] = t[i]
  BY <1>3, <1>4
<1>6. Len(Append(s, c)) = Len(t)
  BY <1>3, <1>4
<1>7. Append(s, c) = t
  BY <1>1, <1>4, <1>5, <1>6, SeqEqual
<1> QED
  BY <1>7 DEF s, t

(* What connect(2) leaves, by the socket it finds.                          *)
LEMMA ConnectOutcome ==
  ASSUME IInv, TcpInv, Dial
  PROVE  /\ pc = "dial" /\ pc' = "dialling"
         /\ ~running /\ running' /\ ~isConnected /\ ~isConnected'
         /\ UNCHANGED <<reached, timeouts, toasts>>
         /\ socket \in {"none", "failed"} => edge'
         /\ socket \notin {"none", "failed"} => (edge' <=> edge)
         /\ error' <=> error /\ socket # "failed"
         /\ \/ /\ socket \in {"none", "unconnected"} /\ socket' = "connecting"
               /\ pending' = pending + 1 /\ ops' = ops
            \/ /\ socket \in {"none", "unconnected", "failed"}
               /\ socket' = "unconnected"
               /\ pending' = pending /\ ops' = Append(ops, "error")
            \/ /\ socket = "established" /\ socket' = "connected"
               /\ pending' = pending /\ ops' = Append(ops, "ok")
            \/ /\ socket \in {"connecting", "connected", "reset", "shut"}
               /\ UNCHANGED <<socket, pending>> /\ ops' = Append(ops, "error")
<1>1. PICK next \in Tcp!Socket, result \in Tcp!Result \cup {"in_progress"} :
        /\ Tcp!Connecting(next, result)
        /\ socket' = next
        /\ Tcp!StartConnect(result)
  BY DEF Dial, Tcp!Connect
<1>2. /\ pc = "dial" /\ pc' = "dialling" /\ ~running /\ running' = TRUE
      /\ ~isConnected
      /\ edge' = (edge \/ socket \in {"none", "failed"})
      /\ error' = (error /\ socket # "failed")
      /\ UNCHANGED <<isConnected, reached, timeouts, toasts>>
  BY DEF Dial, Tcp!Connect, udp
<1>3. /\ socket \in {"none", "failed"} => edge'
      /\ socket \notin {"none", "failed"} => (edge' <=> edge)
      /\ error' <=> error /\ socket # "failed"
  <2>1. edge \in BOOLEAN /\ error \in BOOLEAN
    BY Zenon DEF TcpInv, Tcp!TypeOK
  <2> QED
    BY <1>2, <2>1
<1>4. \/ /\ socket \in {"none", "unconnected"} /\ socket' = "connecting"
         /\ result = "in_progress"
      \/ /\ socket \in {"none", "unconnected", "failed"}
         /\ socket' = "unconnected" /\ result = "error"
      \/ /\ socket = "established" /\ socket' = "connected" /\ result = "ok"
      \/ /\ socket \in {"connecting", "connected", "reset", "shut"}
         /\ UNCHANGED socket /\ result = "error"
  <2>1. socket \in Tcp!Socket
    BY DEF TcpInv, Tcp!TypeOK
  <2> QED
    BY <1>1, <2>1 DEF Tcp!Connecting, Tcp!Socket
<1>5. /\ pending' = IF result = "in_progress" THEN pending + 1 ELSE pending
      /\ ops' = IF result = "in_progress" THEN ops ELSE Append(ops, result)
  BY <1>1 DEF Tcp!StartConnect
<1>6. ~isConnected' /\ running'
  BY <1>2, Zenon
<1> QED
  BY <1>2, <1>3, <1>4, <1>5, <1>6

(* A result behind a queue whose first event reports a connection.          *)
LEMMA OkStaysNext ==
  ASSUME ops \in Seq(TcpOp), HasTask(ops), OkNext, NEW op \in TcpOp,
         ops' = Append(ops, op)
  PROVE  OkNext'
<1>1. /\ ops' \in Seq(TcpOp) /\ Len(ops') = Len(ops) + 1 /\ Len(ops) >= 1
      /\ ops'[1] = ops[1]
  BY QueueAppend
<1>2. \A i \in 1 .. Len(ops) : ops'[i] = ops[i]
  BY AppendProperties
<1>3. ops # <<>> /\ ops' # <<>> /\ Len(ops) \in Nat /\ Len(ops') \in Nat
  BY <1>1, LenProperties
<1>4. Head(ops) = ops[1] /\ Head(ops') = ops'[1]
  BY <1>3
<1> QED
  BY <1>1, <1>2, <1>3, <1>4 DEF OkNext

(* A connect that starts finds one of the idle queues and makes it busy.    *)
LEMMA DialQueue ==
  ASSUME IInv, TcpInv, ConnInv, Dial
  PROVE  Queue'
<1>1. IdleQueue
  BY ConnectOutcome DEF ConnInv, Queue
<1>2. ops \in Seq(TcpOp) /\ HasTask(ops) /\ pending \in Nat
  BY DEF TcpInv, Tcp!TypeOK, TcpOp
<1>3. "ok" \in TcpOp /\ "error" \in TcpOp
  BY DEF TcpOp, Tcp!Result
<1> SUFFICES BusyQueue'
  BY ConnectOutcome DEF Queue
<1>4. CASE ops = <<"task">>
  <2>1. Append(ops, "error") = <<"task", "error">>
        /\ Append(ops, "ok") = <<"task", "ok">>
    BY <1>4, AppendToOne
  <2>2. /\ socket \in Attempted \cup {"none"}
        /\ pending = 0 => socket \in {"none", "failed"}
        /\ socket = "none" => pending = 0 /\ ~edge
    BY <1>1, <1>4, ShortQueues DEF IdleQueue, OkNext
  <2>3. CASE socket' = "connecting" /\ ops' = ops
    BY <1>2, <1>4, <2>2, <2>3, ConnectOutcome DEF BusyQueue, Attempted
  <2>4. CASE ops' = <<"task", "error">>
    BY <1>2, <2>2, <2>4, ConnectOutcome DEF BusyQueue, Attempted
  <2>5. CASE ops' = <<"task", "ok">>
    <3>1. Head(ops') = "task" /\ Len(ops') = 2 /\ ops'[2] = "ok"
      BY <2>5
    <3> QED
      BY <3>1 DEF BusyQueue, OkNext
  <2> QED
    BY <2>1, <2>2, <2>3, <2>4, <2>5, ConnectOutcome DEF Attempted
<1>5. CASE ops = <<"descriptor", "task">>
  <2>1. Append(ops, "error") = <<"descriptor", "task", "error">>
        /\ Append(ops, "ok") = <<"descriptor", "task", "ok">>
    BY <1>5, AppendToTwo
  <2>2. /\ socket \in {"established", "failed", "unconnected"}
        /\ pending = 0 => socket = "unconnected"
        /\ socket = "unconnected" => ~edge
    BY <1>1, <1>5, ShortQueues DEF IdleQueue, OkNext
  <2>3. CASE socket' = "connecting" /\ ops' = ops
    BY <1>2, <1>5, <2>2, <2>3, ConnectOutcome DEF BusyQueue, Attempted
  <2>4. CASE /\ ops' = <<"descriptor", "task", "error">>
             /\ socket' = "unconnected"
    BY <1>2, <2>2, <2>4, ConnectOutcome DEF BusyQueue
  <2>5. CASE ops' = <<"descriptor", "task", "ok">> /\ socket' = "connected"
    BY <1>2, <2>2, <2>5, ConnectOutcome DEF BusyQueue
  <2> QED
    BY <2>1, <2>2, <2>3, <2>4, <2>5, ConnectOutcome
<1>6. CASE /\ ops \in {<<"task", "error">>, <<"error", "task">>}
           /\ socket = "unconnected" /\ pending = 0 /\ ~edge
  <2>1. Append(ops, "error") \in {<<"task", "error", "error">>,
                                  <<"error", "task", "error">>}
    BY <1>6, AppendToTwo
  <2>2. CASE socket' = "connecting" /\ ops' = ops /\ pending' = pending + 1
    BY <1>6, <2>2 DEF BusyQueue, Attempted
  <2>3. CASE socket' = "unconnected" /\ ops' = Append(ops, "error")
    BY <1>6, <2>1, <2>3, ConnectOutcome DEF BusyQueue
  <2> QED
    BY <1>6, <2>2, <2>3, ConnectOutcome
<1>7. CASE OkNext /\ socket \in {"failed", "reset"}
  <2>1. ops' = Append(ops, "error")
    BY <1>7, ConnectOutcome
  <2> QED
    BY <1>2, <1>3, <1>7, <2>1, OkStaysNext DEF BusyQueue
<1> QED
  BY <1>1, <1>4, <1>5, <1>6, <1>7 DEF IdleQueue

(* Dial, the first connect and every retry, from what the last one left.    *)
LEMMA DialKeeps ==
  ASSUME IInv, TcpInv, ConnInv, Dial
  PROVE  Answers' /\ Early'
<1>1. IdleQueue
  BY ConnectOutcome DEF ConnInv, Queue
<1>2. Answers'
  BY ConnectOutcome DEF ConnInv, Answers
<1>3. ASSUME ~reached', timeouts' < 2
      PROVE  /\ pending' <= 1
             /\ \/ ops' \in {<<"task">>, <<"descriptor", "task">>}
                \/ /\ ops' = <<"task", "error">>
                   /\ timeouts' = 0 => pending' = 0
                \/ /\ ops' = <<"descriptor", "task", "error">>
                   /\ timeouts' = 1 /\ pending' = 0
  <2>1. /\ ~reached /\ timeouts < 2 /\ timeouts \in Nat /\ pending \in Nat
        /\ pending <= 1
        /\ timeouts = 0 => socket = "none"
        /\ ops = <<"task">> \/ (ops = <<"descriptor", "task">> /\ pending = 0)
    BY <1>3, ConnectOutcome, BroadcastAssumption
    DEF ConnInv, Early, IInv, CallTypes, TcpInv, Tcp!TypeOK
  <2>2. CASE ops = <<"task">>
    <3>1. Append(ops, "error") = <<"task", "error">>
      BY <2>2, AppendToOne
    <3>2. /\ socket \in Attempted \cup {"none"}
          /\ socket = "none" => pending = 0
      BY <1>1, <2>2, ShortQueues DEF IdleQueue, OkNext
    <3>3. socket # "established"
      BY <2>1 DEF ConnInv, Answers
    <3>4. CASE ops' = <<"task", "error">> /\ pending' = pending
      BY <2>1, <3>2, <3>4, ConnectOutcome
    <3>5. CASE ops' = ops /\ pending' = pending + 1 /\ socket = "none"
      BY <2>1, <2>2, <3>2, <3>5
    <3> QED
      BY <3>1, <3>2, <3>3, <3>4, <3>5, ConnectOutcome DEF Attempted
  <2>3. CASE ops = <<"descriptor", "task">> /\ pending = 0
    <3>1. Append(ops, "error") = <<"descriptor", "task", "error">>
      BY <2>3, AppendToTwo
    <3>2. socket = "unconnected"
      BY <1>1, <2>3, ShortQueues DEF IdleQueue, OkNext
    <3>3. timeouts = 1
      BY <2>1, <3>2
    <3> QED
      BY <2>3, <3>1, <3>2, <3>3, ConnectOutcome
  <2> QED
    BY <2>1, <2>2, <2>3
<1>4. Early'
  BY <1>3, ConnectOutcome DEF Early
<1> QED
  BY <1>2, <1>4
-----------------------------------------------------------------------------
(* Short queues behind one another.                                         *)
LEMMA ShortConcat ==
  ASSUME NEW a, NEW b, NEW c
  PROVE  /\ <<a>> \o <<b>> = <<a, b>> /\ <<a, b>> \o <<c>> = <<a, b, c>>
         /\ <<a>> \o <<b, c>> = <<a, b, c>>
<1> DEFINE S == {a, b, c}
<1>1. /\ <<a>> \in Seq(S) /\ <<b>> \in Seq(S) /\ <<c>> \in Seq(S)
      /\ <<a, b>> \in Seq(S) /\ b \in S /\ c \in S
  OBVIOUS
<1> HIDE DEF S
<1>2. <<a>> \o <<b>> = <<a, b>>
  BY <1>1, AppendIsConcat, AppendToOne
<1>3. <<b>> \o <<c>> = <<b, c>>
  <2>1. Append(<<b>>, c) = <<b>> \o <<c>>
    BY <1>1, AppendIsConcat
  <2> QED
    BY <2>1, AppendToOne
<1>4. <<a, b>> \o <<c>> = <<a, b, c>>
  <2>1. Append(<<a, b>>, c) = <<a, b>> \o <<c>>
    BY <1>1, AppendIsConcat
  <2> QED
    BY <2>1, AppendToTwo
<1>5. (<<a>> \o <<b>>) \o <<c>> = <<a>> \o (<<b>> \o <<c>>)
  BY <1>1, ConcatAssociative
<1> QED
  BY <1>2, <1>3, <1>4, <1>5

(* What an event of the connection leaves alone.                            *)
LEMMA StepOutcome ==
  ASSUME IInv, TcpInv, ConnInv, running, UNCHANGED <<call, udp>>
  PROVE  /\ pc = "dialling" /\ BusyQueue /\ ~isConnected
         /\ UNCHANGED <<pc, timeouts, toasts>>
         /\ pending \in Nat /\ timeouts \in Nat /\ socket # "none"
BY BroadcastAssumption
DEF ConnInv, Queue, Answers, TcpInv, Tcp!TypeOK, Phases, IInv, CallTypes, call

(* The scheduler runs its task: the reactor polls the descriptor.           *)
LEMMA RunTaskQueue ==
  ASSUME IInv, TcpInv, ConnInv, TcpStep(Tcp!RunTask)
  PROVE  Queue' /\ Answers' /\ Early'
<1>1. /\ running /\ Head(ops) = "task"
      /\ Tail(ops) # <<>> \/ Tcp!Ready
      /\ ops' = Tail(ops)
                  \o (IF Tcp!Ready /\ "descriptor" \notin ToSet(ops)
                      THEN <<"descriptor", "task">> ELSE <<"task">>)
      /\ edge' = FALSE
      /\ UNCHANGED <<socket, error, pending, isConnected, running, reached>>
      /\ UNCHANGED <<call, udp>>
  BY Zenon DEF TcpStep, Tcp!RunTask, Tcp!ToSet, ToSet
<1>2. /\ pc = "dialling" /\ BusyQueue /\ ~isConnected
      /\ UNCHANGED <<pc, timeouts, toasts>>
      /\ pending \in Nat /\ timeouts \in Nat /\ socket # "none"
  BY <1>1, StepOutcome
<1>3. Tcp!Ready <=> edge /\ socket # "connecting"
  BY DEF Tcp!Ready
<1>4. Answers'
  BY <1>1, <1>2 DEF ConnInv, Answers
<1>5. CASE ops = <<"task">>
  <2>1. Tcp!Ready /\ "descriptor" \notin ToSet(ops) /\ Tail(ops) = <<>>
    BY <1>1, <1>5, ShortQueues DEF ToSet
  <2>2. ops' = <<"descriptor", "task">>
    BY <1>1, <2>1, ConcatEmptySeq, QueueEnds
  <2>3. socket \in Attempted /\ pending > 0
    BY <1>2, <1>5, ShortQueues DEF BusyQueue, OkNext
  <2>4. BusyQueue'
    BY <1>1, <2>2, <2>3 DEF BusyQueue, Attempted
  <2>5. Early'
    BY <1>1, <1>2, <2>2 DEF ConnInv, Early
  <2> QED
    BY <1>1, <1>2, <1>4, <2>4, <2>5 DEF Queue
<1>6. CASE ops = <<"task", "error">>
  <2>1. /\ Tail(ops) = <<"error">> /\ "descriptor" \notin ToSet(ops)
        /\ Len(ops) = 2 /\ ops[2] = "error"
    BY <1>6, ShortQueues DEF ToSet
  <2>2. /\ socket \in Attempted \cup {"unconnected"}
        /\ pending = 0 => socket = "unconnected"
        /\ socket = "unconnected" => edge
    BY <1>1, <1>2, <1>6, <2>1 DEF BusyQueue, OkNext
  <2>3. CASE Tcp!Ready
    <3>1. ops' = <<"error", "descriptor", "task">>
      BY <1>1, <2>1, <2>3, ShortConcat
    <3>2. BusyQueue'
      BY <1>1, <1>3, <2>2, <2>3, <3>1 DEF BusyQueue, Attempted
    <3>3. Early'
      BY <1>1, <1>2, <1>6, <3>1 DEF ConnInv, Early
    <3> QED
      BY <1>1, <1>2, <1>4, <3>2, <3>3 DEF Queue
  <2>4. CASE ~Tcp!Ready
    <3>1. ops' = <<"error", "task">>
      BY <1>1, <2>1, <2>4, ShortConcat
    <3>2. socket \in Attempted /\ pending > 0
      BY <1>2, <1>3, <2>2, <2>4
    <3>3. BusyQueue'
      BY <1>1, <3>1, <3>2 DEF BusyQueue, Attempted
    <3>4. Early'
      <4>1. ASSUME ~reached, timeouts < 2
            PROVE  pending <= 1 /\ timeouts = 1
        <5>1. /\ pending <= 1
              /\ timeouts = 0 => pending = 0
          BY <1>1, <1>2, <1>6, <2>1, <4>1 DEF ConnInv, Early
        <5> QED
          BY <1>2, <3>2, <4>1, <5>1
      <4> QED
        BY <1>1, <1>2, <3>1, <4>1 DEF Early
    <3> QED
      BY <1>1, <1>2, <1>4, <3>3, <3>4 DEF Queue
  <2> QED
    BY <2>3, <2>4
<1>7. CASE ops = <<"task", "error", "error">>
  <2>1. /\ Tail(ops) = <<"error", "error">>
        /\ Len(ops) = 3 /\ ops[2] = "error"
    BY <1>7, ShortQueues
  <2>2. socket = "unconnected" /\ pending = 0 /\ ~edge
    BY <1>1, <1>2, <1>7, <2>1 DEF BusyQueue, OkNext
  <2>3. ops' = <<"error", "error", "task">>
    BY <1>1, <1>3, <2>1, <2>2, ShortConcat
  <2>4. BusyQueue'
    BY <1>1, <2>2, <2>3 DEF BusyQueue
  <2>5. Early'
    BY <1>1, <1>2, <1>7 DEF ConnInv, Early
  <2> QED
    BY <1>1, <1>2, <1>4, <2>4, <2>5 DEF Queue
<1>8. CASE OkNext
  <2>1. /\ ops \in Seq(TcpOp) /\ Len(ops) \in Nat /\ Len(ops) >= 2
        /\ ops[2] = "ok" /\ ops # <<>>
    BY <1>1, <1>8, LenProperties DEF OkNext, TcpInv, Tcp!TypeOK, TcpOp
  <2>2. Head(ops') = "ok"
    <3>1. /\ Tail(ops) \in Seq(TcpOp) /\ Len(Tail(ops)) = Len(ops) - 1
          /\ Tail(ops)[1] = "ok"
      BY <2>1, HeadTailProperties
    <3>2. \/ ops' = Tail(ops) \o <<"descriptor", "task">>
          \/ ops' = Tail(ops) \o <<"task">>
      BY <1>1
    <3> DEFINE u == Tail(ops)
    <3>4. u \in Seq(TcpOp) /\ Len(u) \in Nat /\ Len(u) >= 1 /\ u[1] = "ok"
      BY <2>1, <3>1
    <3> HIDE DEF u
    <3>3. ASSUME NEW t \in Seq(TcpOp), Len(t) \in Nat
          PROVE  Head(u \o t) = "ok"
      <4>1. /\ u \o t \in Seq(TcpOp) /\ Len(u \o t) = Len(u) + Len(t)
            /\ \A i \in 1 .. Len(u) + Len(t) :
                 (u \o t)[i] = IF i <= Len(u) THEN u[i] ELSE t[i - Len(u)]
        BY <3>3, <3>4, ConcatProperties
      <4>2. (u \o t)[1] = "ok" /\ Len(u \o t) >= 1
        BY <3>3, <3>4, <4>1
      <4> QED
        BY <4>1, <4>2
    <3>5. /\ Head(u \o <<"descriptor", "task">>) = "ok"
          /\ Head(u \o <<"task">>) = "ok"
      BY <3>3, QueueEnds
    <3> QED
      BY <3>2, <3>5 DEF u
  <2>3. BusyQueue'
    BY <2>2 DEF BusyQueue, OkNext
  <2>4. Early'
    <3>1. ops # <<"task">> /\ ops # <<"task", "error">>
      BY <2>1
    <3> QED
      BY <1>1, <1>2, <3>1, ShortQueues DEF ConnInv, Early
  <2> QED
    BY <1>1, <1>2, <1>4, <2>3, <2>4 DEF Queue
<1> QED
  BY <1>1, <1>2, <1>5, <1>6, <1>7, <1>8, ShortQueues DEF BusyQueue

(* A connect that completed when it was started, or an older one.           *)
LEMMA RunCompletedQueue ==
  ASSUME IInv, TcpInv, ConnInv, TcpStep(Tcp!RunCompleted)
  PROVE  Queue' /\ Answers' /\ Early'
<1>1. /\ running /\ Head(ops) \in Tcp!Result /\ ops' = Tail(ops)
      /\ isConnected' = (isConnected \/ Head(ops) = "ok")
      /\ running' = FALSE
      /\ UNCHANGED <<socket, error, edge, pending, reached>>
      /\ UNCHANGED <<call, udp>>
  BY DEF TcpStep, Tcp!RunCompleted, Tcp!HandleConnect
<1>2. /\ pc = "dialling" /\ BusyQueue /\ ~isConnected
      /\ UNCHANGED <<pc, timeouts, toasts>>
      /\ pending \in Nat /\ timeouts \in Nat /\ socket # "none"
  BY <1>1, StepOutcome
<1>3. ~running' /\ (isConnected' <=> Head(ops) = "ok")
  BY <1>1, <1>2, Zenon
<1>4. Answers'
  BY <1>1, <1>2, <1>3 DEF ConnInv, Answers
<1>5. CASE Head(ops) = "ok"
  <2>1. reached \/ ~(timeouts < 2)
    BY <1>1, <1>2, <1>5, ShortQueues DEF ConnInv, Early
  <2> QED
    BY <1>1, <1>2, <1>3, <1>4, <1>5, <2>1 DEF Queue, Early
<1>6. CASE Head(ops) = "error"
  <2>1. ~isConnected'
    BY <1>3, <1>6
  <2>2. CASE ops = <<"error", "task">>
    <3>1. ops' = <<"task">> /\ Len(ops) = 2
      BY <1>1, <2>2, ShortQueues
    <3>2. socket \in Attempted /\ pending > 0
      BY <1>2, <1>6, <2>2, <3>1 DEF BusyQueue, OkNext
    <3>3. /\ socket' \in Attempted \cup {"none"} /\ socket' # "none"
          /\ ~(pending' = 0)
      BY <1>1, <1>2, <3>2
    <3>4. IdleQueue'
      BY <3>1, <3>3 DEF IdleQueue, Attempted
    <3>5. Early'
      BY <1>1, <1>2, <1>3, <2>1, <3>1 DEF ConnInv, Early
    <3> QED
      BY <1>3, <1>4, <3>4, <3>5 DEF Queue
  <2>3. CASE ops = <<"error", "descriptor", "task">>
    <3>1. ops' = <<"descriptor", "task">> /\ Len(ops) = 3
      BY <1>1, <2>3, ShortQueues
    <3>2. /\ socket \in {"established", "failed", "unconnected"}
          /\ pending = 0 => socket = "unconnected"
          /\ socket = "unconnected" => ~edge
      BY <1>2, <1>6, <2>3, <3>1 DEF BusyQueue, OkNext
    <3>3. IdleQueue'
      BY <1>1, <1>2, <3>1, <3>2 DEF IdleQueue
    <3>4. Early'
      <4>1. ASSUME ~reached, timeouts < 2
            PROVE  pending <= 1 /\ (timeouts = 0 => pending = 0)
        BY <1>1, <1>2, <2>3, <3>1, <4>1 DEF ConnInv, Early
      <4> QED
        BY <1>1, <1>2, <1>3, <2>1, <3>1, <4>1 DEF Early
    <3> QED
      BY <1>3, <1>4, <3>3, <3>4 DEF Queue
  <2>4. CASE ops \in {<<"error", "error", "task">>, <<"error", "task", "error">>}
    <3>1. /\ ops' \in {<<"error", "task">>, <<"task", "error">>}
          /\ Len(ops) = 3 /\ ops[2] # "descriptor"
      <4>1. CASE ops = <<"error", "error", "task">>
        BY <1>1, <4>1, ShortQueues
      <4>2. CASE ops = <<"error", "task", "error">>
        BY <1>1, <4>2, ShortQueues
      <4> QED
        BY <2>4, <4>1, <4>2
    <3>2. socket = "unconnected" /\ pending = 0 /\ ~edge
      BY <1>2, <1>6, <2>4, <3>1 DEF BusyQueue, OkNext
    <3>3. IdleQueue'
      BY <1>1, <1>2, <3>1, <3>2 DEF IdleQueue
    <3>4. Early'
      BY <1>1, <1>2, <1>6, <3>1 DEF ConnInv, Early
    <3> QED
      BY <1>3, <1>4, <3>3, <3>4 DEF Queue
  <2> QED
    BY <1>2, <1>6, <2>2, <2>3, <2>4, ShortQueues DEF BusyQueue, OkNext
<1> QED
  BY <1>1, <1>5, <1>6 DEF Tcp!Result

(* What the connects that wait are told, the first of them now.             *)
LEMMA ResultsOk ==
  ASSUME pending \in Nat, pending > 0, NEW results,
         results = [i \in 1 .. pending |-> IF i = 1 /\ error THEN "error" ELSE "ok"]
  PROVE  /\ results # <<>>
         /\ Head(results) = IF error THEN "error" ELSE "ok"
         /\ Tail(results) \in Seq(TcpOp) /\ Len(Tail(results)) = pending - 1
         /\ pending = 1 => Tail(results) = <<>>
         /\ pending > 1 => Tail(results)[1] = "ok"
<1>1. results \in [1 .. pending -> Tcp!Result]
  BY DEF Tcp!Result
<1>2. results \in Seq(Tcp!Result)
  BY <1>1, SeqDef
<1>3. Len(results) = pending
  BY <1>1, <1>2, LenProperties
<1>4. results # <<>>
  BY <1>3
<1>5. /\ Head(results) = results[1]
      /\ Tail(results) \in Seq(Tcp!Result) /\ Len(Tail(results)) = pending - 1
      /\ \A i \in 1 .. Len(Tail(results)) : Tail(results)[i] = results[i + 1]
  <2>1. ASSUME NEW s \in Seq(Tcp!Result), s # <<>>
        PROVE  /\ Head(s) = s[1]
               /\ Tail(s) \in Seq(Tcp!Result) /\ Len(Tail(s)) = Len(s) - 1
               /\ \A i \in 1 .. Len(Tail(s)) : Tail(s)[i] = s[i + 1]
    BY <2>1, HeadTailProperties
  <2> QED
    BY <1>2, <1>3, <1>4, <2>1
<1>6. Tail(results) \in Seq(TcpOp)
  BY <1>5, SeqMonotonic DEF TcpOp
<1>7. pending = 1 => Tail(results) = <<>>
  BY <1>5, EmptySeq
<1>8. results[1] = IF error THEN "error" ELSE "ok"
  OBVIOUS
<1>9. ASSUME pending > 1 PROVE Tail(results)[1] = "ok"
  <2>1. Tail(results)[1] = results[2]
    BY <1>5, <1>9
  <2>2. results[2] = "ok"
    BY <1>9
  <2> QED
    BY <2>1, <2>2
<1> QED
  BY <1>4, <1>5, <1>6, <1>7, <1>8, <1>9

(* Two queues, the second with its first event at the front of what waits.  *)
LEMMA OkBehind ==
  ASSUME NEW r \in Seq(TcpOp), Len(r) \in Nat, Len(r) >= 1, r[1] = "ok"
  PROVE  /\ Head(<<"task">> \o r) = "task" /\ Len(<<"task">> \o r) >= 2
         /\ (<<"task">> \o r)[2] = "ok"
<1> DEFINE s == <<"task">>
<1>1. s \in Seq(TcpOp) /\ Len(s) = 1 /\ s[1] = "task"
  BY QueueEnds
<1> HIDE DEF s
<1>2. /\ s \o r \in Seq(TcpOp) /\ Len(s \o r) = Len(s) + Len(r)
      /\ \A i \in 1 .. Len(s) + Len(r) :
           (s \o r)[i] = IF i <= Len(s) THEN s[i] ELSE r[i - Len(s)]
  BY <1>1, ConcatProperties
<1>3. /\ Len(s \o r) >= 2 /\ (s \o r)[1] = "task" /\ (s \o r)[2] = "ok"
  BY <1>1, <1>2
<1>4. Head(s \o r) = "task"
  BY <1>2, <1>3
<1> QED
  BY <1>3, <1>4 DEF s

(* The task in front of the queue, an event that reports a connection next. *)
LEMMA OkInFront ==
  ASSUME NEW r \in Seq(TcpOp)
  PROVE  LET q == <<"task", "ok">> \o r
         IN  Head(q) = "task" /\ Len(q) >= 2 /\ q[2] = "ok"
<1> DEFINE s == <<"task", "ok">>
<1>1. s \in Seq(TcpOp) /\ Len(s) = 2 /\ s[1] = "task" /\ s[2] = "ok"
  BY DEF TcpOp, Tcp!Result
<1> HIDE DEF s
<1>2. Len(r) \in Nat
  BY LenProperties
<1>3. /\ s \o r \in Seq(TcpOp) /\ Len(s \o r) = Len(s) + Len(r)
      /\ \A i \in 1 .. Len(s) + Len(r) :
           (s \o r)[i] = IF i <= Len(s) THEN s[i] ELSE r[i - Len(s)]
  BY <1>1, ConcatProperties
<1>4. /\ Len(s \o r) >= 2 /\ (s \o r)[1] = "task" /\ (s \o r)[2] = "ok"
  BY <1>1, <1>2, <1>3
<1>5. Head(s \o r) = "task"
  BY <1>3, <1>4
<1> QED
  BY <1>4, <1>5 DEF s

(* The descriptor answers every connect that waits, if it can.              *)
LEMMA RunDescriptorQueue ==
  ASSUME IInv, TcpInv, ConnInv, TcpStep(Tcp!RunDescriptor)
  PROVE  Queue' /\ Answers' /\ Early'
<1> DEFINE all == [i \in 1 .. pending |->
                     IF i = 1 /\ error THEN "error" ELSE "ok"]
<1>1. /\ running /\ Head(ops) = "descriptor"
      /\ UNCHANGED <<socket, edge, reached>>
      /\ UNCHANGED <<call, udp>>
      /\ IF (IF socket = "connecting" THEN <<>> ELSE all) = <<>>
         THEN /\ ops' = Tail(ops) /\ running' = FALSE
              /\ UNCHANGED <<error, pending, isConnected>>
         ELSE /\ ops' = Tail(ops) \o Tail(all)
              /\ error' = FALSE /\ pending' = 0 /\ running' = FALSE
              /\ isConnected' = (isConnected \/ Head(all) = "ok")
  BY DEF TcpStep, Tcp!RunDescriptor, Tcp!HandleConnect
<1>2. /\ pc = "dialling" /\ BusyQueue /\ ~isConnected
      /\ UNCHANGED <<pc, timeouts, toasts>>
      /\ pending \in Nat /\ timeouts \in Nat /\ socket # "none"
  BY <1>1, StepOutcome
<1>3. pending = 0 => all = <<>>
  BY SMT
<1>4. pending > 0 =>
        /\ all # <<>>
        /\ Head(all) = IF error THEN "error" ELSE "ok"
        /\ Tail(all) \in Seq(TcpOp) /\ Len(Tail(all)) = pending - 1
        /\ pending = 1 => Tail(all) = <<>>
        /\ pending > 1 => Tail(all)[1] = "ok"
  BY <1>2, ResultsOk
<1> HIDE DEF all
<1>5. ~running'
  BY <1>1, Zenon
<1>6. CASE socket = "connecting" \/ pending = 0
  <2>1. ops' = Tail(ops) /\ UNCHANGED <<error, pending, isConnected>>
    BY <1>1, <1>3, <1>6
  <2>2. Answers'
    BY <1>1, <1>2, <1>5, <2>1 DEF ConnInv, Answers
  <2>3. CASE ops = <<"descriptor", "task">>
    <3>1. ops' = <<"task">> /\ Len(ops) = 2
      BY <2>1, <2>3, ShortQueues
    <3>2. socket \in Attempted /\ pending > 0
      BY <1>1, <1>2, <2>3, <3>1 DEF BusyQueue, OkNext
    <3>3. /\ socket' \in Attempted \cup {"none"} /\ socket' # "none"
          /\ ~(pending' = 0)
      BY <1>1, <1>2, <2>1, <3>2
    <3>4. IdleQueue'
      BY <3>1, <3>3 DEF IdleQueue, Attempted
    <3>5. Early'
      BY <1>1, <1>2, <1>5, <2>1, <3>1 DEF ConnInv, Early
    <3> QED
      BY <1>5, <2>2, <3>4, <3>5 DEF Queue
  <2>4. CASE ops = <<"descriptor", "task", "error">>
    <3>1. ops' = <<"task", "error">> /\ Len(ops) = 3 /\ ops[3] = "error"
      BY <2>1, <2>4, ShortQueues
    <3>2. socket = "unconnected" /\ (pending = 0 => ~edge)
      BY <1>1, <1>2, <2>4, <3>1 DEF BusyQueue, OkNext
    <3>3. IdleQueue'
      BY <1>1, <1>2, <1>6, <2>1, <3>1, <3>2 DEF IdleQueue
    <3>4. Early'
      <4>1. ASSUME ~reached, timeouts < 2
            PROVE  pending <= 1 /\ timeouts = 1
        BY <1>1, <1>2, <2>4, <3>1, <4>1 DEF ConnInv, Early
      <4> QED
        BY <1>1, <1>2, <1>5, <2>1, <4>1 DEF Early
    <3> QED
      BY <1>5, <2>2, <3>3, <3>4 DEF Queue
  <2>5. CASE ops = <<"descriptor", "task", "ok">>
    <3>1. socket # "connecting" /\ pending > 0
      BY <1>1, <1>2, <2>5 DEF BusyQueue, OkNext
    <3> QED
      BY <1>2, <1>6, <3>1
  <2> QED
    BY <1>1, <1>2, <2>3, <2>4, <2>5, ShortQueues DEF BusyQueue, OkNext
<1>7. CASE socket # "connecting" /\ pending > 0
  <2>1. /\ ops' = Tail(ops) \o Tail(all)
        /\ error' = FALSE /\ pending' = 0
        /\ isConnected' = (isConnected \/ ~error)
    <3>1. /\ ops' = Tail(ops) \o Tail(all)
          /\ error' = FALSE /\ pending' = 0
          /\ isConnected' = (isConnected \/ Head(all) = "ok")
      BY <1>1, <1>4, <1>7
    <3>2. Head(all) = "ok" <=> ~error
      BY <1>4, <1>7
    <3> QED
      BY <3>1, <3>2, Zenon
  <2>2. Answers'
    BY <1>1, <1>2, <1>5, <2>1 DEF ConnInv, Answers
  <2>3. CASE ~error
    <3>1. isConnected'
      BY <2>1, <2>3, Zenon
    <3>2. reached \/ ~(timeouts < 2)
      <4>1. CASE ops = <<"descriptor", "task">>
        <5>1. Len(ops) = 2
          BY <4>1
        <5>2. socket \in {"established", "failed"}
          BY <1>1, <1>2, <1>7, <4>1, <5>1 DEF BusyQueue, OkNext, Attempted
        <5> QED
          BY <1>7, <2>3, <5>2 DEF ConnInv, Answers
      <4>2. CASE ops # <<"descriptor", "task">>
        <5>1. ASSUME ~reached, timeouts < 2 PROVE pending = 0
          BY <1>1, <1>2, <4>2, <5>1, ShortQueues DEF ConnInv, Early
        <5> QED
          BY <1>7, <5>1
      <4> QED
        BY <4>1, <4>2
    <3>3. Early' /\ Queue'
      BY <1>1, <1>2, <3>1, <3>2 DEF Early, Queue
    <3> QED
      BY <2>2, <3>3
  <2>4. CASE error
    <3>1. ~isConnected'
      BY <1>2, <2>1, <2>4, Zenon
    <3>2. socket \in {"failed", "reset", "shut"}
      BY <2>4 DEF ConnInv, Answers
    <3>3. CASE ops = <<"descriptor", "task">>
      <4>1. Tail(ops) = <<"task">> /\ Len(ops) = 2
        BY <3>3, ShortQueues
      <4>2. socket = "failed"
        BY <1>1, <1>2, <3>2, <3>3, <4>1 DEF BusyQueue, OkNext, Attempted
      <4>3. CASE pending = 1
        <5>1. ops' = <<"task">>
          <6>1. Tail(all) = <<>> /\ ops' = <<"task">> \o Tail(all)
            <7>1. Tail(all) = <<>>
              BY <1>4, <1>7, <4>3
            <7> QED
              BY <2>1, <4>1, <7>1
          <6> QED
            BY <6>1, ConcatEmptySeq, QueueEnds
        <5>2. IdleQueue'
          BY <1>1, <2>1, <4>2, <5>1 DEF IdleQueue, Attempted
        <5>3. Early'
          <6>1. pending' <= 1 /\ pc' = "dialling"
            BY <1>2, <2>1
          <6> QED
            BY <1>5, <3>1, <5>1, <6>1 DEF Early
        <5> QED
          BY <1>5, <2>2, <5>2, <5>3 DEF Queue
      <4>4. CASE pending > 1
        <5>1. /\ Tail(all) \in Seq(TcpOp) /\ Len(Tail(all)) \in Nat
              /\ Len(Tail(all)) >= 1 /\ Tail(all)[1] = "ok"
          BY <1>2, <1>4, <4>4
        <5>2. OkNext'
          BY <2>1, <4>1, <5>1, OkBehind DEF OkNext
        <5>3. IdleQueue'
          BY <1>1, <4>2, <5>2 DEF IdleQueue
        <5>4. reached \/ ~(timeouts < 2)
          BY <1>1, <1>2, <4>4 DEF ConnInv, Early
        <5>5. Early'
          BY <1>1, <1>2, <5>4 DEF Early
        <5> QED
          BY <1>5, <2>2, <5>3, <5>5 DEF Queue
      <4> QED
        BY <1>2, <1>7, <4>3, <4>4
    <3>4. CASE ops = <<"descriptor", "task", "error">>
      <4>1. Len(ops) = 3 /\ ops[3] = "error"
        BY <3>4
      <4>2. socket = "unconnected"
        BY <1>1, <1>2, <3>4, <4>1 DEF BusyQueue, OkNext
      <4> QED
        BY <3>2, <4>2
    <3>5. CASE ops = <<"descriptor", "task", "ok">>
      <4>1. Tail(ops) = <<"task", "ok">> /\ Len(ops) = 3 /\ ops[3] = "ok"
        BY <3>5, ShortQueues
      <4>2. socket \in {"connected", "reset"}
        BY <1>1, <1>2, <3>5, <4>1 DEF BusyQueue, OkNext
      <4>3. Tail(all) \in Seq(TcpOp)
        BY <1>4, <1>7
      <4>4. OkNext'
        BY <2>1, <4>1, <4>3, OkInFront DEF OkNext
      <4>5. IdleQueue'
        BY <1>1, <3>2, <4>2, <4>4 DEF IdleQueue
      <4>6. reached \/ ~(timeouts < 2)
        BY <1>1, <1>2, <3>5, <4>1 DEF ConnInv, Early
      <4>7. Early'
        BY <1>1, <1>2, <4>6 DEF Early
      <4> QED
        BY <1>5, <2>2, <4>5, <4>7 DEF Queue
    <3> QED
      BY <1>1, <1>2, <3>3, <3>4, <3>5, ShortQueues DEF BusyQueue, OkNext
  <2> QED
    BY <2>3, <2>4
<1> QED
  BY <1>2, <1>6, <1>7

(* Nothing to do until the time is up: the attempt stays with the socket.   *)
LEMMA TimeOutQueue ==
  ASSUME IInv, TcpInv, ConnInv, TcpStep(Tcp!TimeOut)
  PROVE  Queue' /\ Answers' /\ Early'
<1>1. /\ running /\ ops = <<"task">> /\ running' = FALSE /\ edge' = FALSE
      /\ UNCHANGED <<socket, error, ops, pending, isConnected, reached>>
      /\ UNCHANGED <<call, udp>>
  BY DEF TcpStep, Tcp!TimeOut
<1>2. /\ pc = "dialling" /\ BusyQueue /\ ~isConnected
      /\ UNCHANGED <<pc, timeouts, toasts>>
      /\ pending \in Nat /\ timeouts \in Nat /\ socket # "none"
  BY <1>1, StepOutcome
<1>3. socket \in Attempted /\ pending > 0
  BY <1>1, <1>2, ShortQueues DEF BusyQueue, OkNext
<1>4. Answers'
  BY <1>1, <1>2 DEF ConnInv, Answers
<1>5. /\ socket' \in Attempted \cup {"none"} /\ socket' # "none"
      /\ ~(pending' = 0) /\ ops' = <<"task">> /\ ~running'
  BY <1>1, <1>2, <1>3
<1>6. IdleQueue'
  BY <1>5 DEF IdleQueue, Attempted
<1>7. Early'
  BY <1>1, <1>2, <1>5 DEF ConnInv, Early
<1> QED
  BY <1>4, <1>5, <1>6, <1>7 DEF Queue

(* The other device or the kernel answers an attempt, or resets what it has *)
(* answered, between any two steps of the call.                             *)
LEMMA PeerQueue ==
  ASSUME IInv, TcpInv, ConnInv,
         TcpStep(Tcp!Establish) \/ TcpStep(Tcp!Refuse) \/ TcpStep(Tcp!Reset)
  PROVE  Queue' /\ Answers' /\ Early'
<1>1. /\ UNCHANGED <<ops, pending, isConnected, running>>
      /\ UNCHANGED <<pc, timeouts>>
      /\ \/ /\ socket = "connecting" /\ socket' = "established"
            /\ reached' = TRUE /\ error' = error
         \/ /\ socket \in {"connecting", "established"} /\ socket' = "failed"
            /\ error' = TRUE /\ reached' = reached
         \/ /\ socket = "connected" /\ socket' = "reset"
            /\ error' = TRUE /\ reached' = reached
  BY DEF TcpStep, Tcp!Establish, Tcp!Refuse, Tcp!Reset, call
<1>2. socket' # "none" /\ socket # "none" /\ socket' # "unconnected"
  BY <1>1
<1>3. Answers'
  BY <1>1 DEF ConnInv, Answers
<1>4. Early'
  BY <1>1 DEF ConnInv, Answers, Early
<1>5. ASSUME IdleQueue PROVE IdleQueue'
  <2>1. CASE ops = <<"task">>
    <3>1. /\ socket \in Attempted \cup {"none"}
          /\ pending = 0 => socket \in {"none", "failed"}
      BY <1>5, <2>1, ShortQueues DEF IdleQueue, OkNext
    <3> QED
      BY <1>1, <2>1, <3>1 DEF IdleQueue, Attempted
  <2>2. CASE ops = <<"descriptor", "task">>
    <3>1. /\ socket \in {"established", "failed", "unconnected"}
          /\ pending = 0 => socket = "unconnected"
      BY <1>5, <2>2, ShortQueues DEF IdleQueue, OkNext
    <3> QED
      BY <1>1, <2>2, <3>1 DEF IdleQueue
  <2> QED
    BY <1>1, <1>5, <2>1, <2>2 DEF IdleQueue, OkNext
<1>6. ASSUME BusyQueue PROVE BusyQueue'
  <2>1. CASE ops \in {<<"task">>, <<"error", "task">>, <<"descriptor", "task">>}
    <3>1. CASE OkNext
      BY <1>1, <3>1 DEF BusyQueue, OkNext
    <3>2. CASE ~OkNext
      <4>1. Len(ops) = 1 \/ (Len(ops) = 2 /\ ops[2] = "task")
        <5>1. CASE ops = <<"task">>
          BY <5>1, QueueEnds
        <5>2. CASE ops = <<"error", "task">>
          BY <5>2
        <5>3. CASE ops = <<"descriptor", "task">>
          BY <5>3
        <5> QED
          BY <2>1, <5>1, <5>2, <5>3
      <4>2. socket \in Attempted /\ pending > 0
        BY <1>6, <3>2, <4>1 DEF BusyQueue
      <4> QED
        BY <1>1, <2>1, <4>2 DEF BusyQueue, Attempted
    <3> QED
      BY <3>1, <3>2
  <2>2. CASE ops = <<"task", "error">>
    <3>1. /\ Len(ops) = 2 /\ ops[2] = "error" /\ Head(ops) = "task"
      BY <2>2
    <3>2. /\ socket \in Attempted \cup {"unconnected"}
          /\ pending = 0 => socket = "unconnected"
      BY <1>6, <2>2, <3>1 DEF BusyQueue, OkNext
    <3> QED
      BY <1>1, <2>2, <3>2 DEF BusyQueue, Attempted
  <2>3. CASE ops = <<"error", "descriptor", "task">>
    <3>1. Len(ops) = 3 /\ Head(ops) = "error"
      BY <2>3
    <3>2. /\ socket \in {"established", "failed", "unconnected"}
          /\ pending = 0 => socket = "unconnected"
      BY <1>6, <2>3, <3>1, ShortQueues DEF BusyQueue, OkNext
    <3> QED
      BY <1>1, <2>3, <3>2 DEF BusyQueue
  <2>4. CASE ops = <<"descriptor", "task", "ok">>
    <3>1. Len(ops) = 3 /\ Head(ops) = "descriptor" /\ ops[3] = "ok"
      BY <2>4
    <3>2. socket \in {"connected", "reset"} /\ pending > 0
      BY <1>6, <2>4, <3>1, ShortQueues DEF BusyQueue, OkNext
    <3> QED
      BY <1>1, <2>4, <3>2 DEF BusyQueue
  <2>5. CASE OkNext
    BY <1>1, <2>5 DEF BusyQueue, OkNext
  <2> QED
    BY <1>1, <1>6, <2>1, <2>2, <2>3, <2>4, <2>5 DEF BusyQueue
<1>7. Queue'
  BY <1>1, <1>5, <1>6 DEF ConnInv, Queue, IdleQueue, BusyQueue
<1> QED
  BY <1>3, <1>4, <1>7
-----------------------------------------------------------------------------
(* What the user has been told last.                                        *)
LEMMA LastToast ==
  ASSUME NEW text
  PROVE  Last(<<"">> \o <<>>) = "" /\ Last(<<"">> \o <<text>>) = text
<1>1. <<"">> \o <<>> = <<"">>
  <2>1. <<"">> \in Seq({""})
    OBVIOUS
  <2> QED
    BY <2>1, ConcatEmptySeq
<1>2. <<"">> \o <<text>> = <<"", text>>
  BY ShortConcat
<1>3. Len(<<"", text>>) = 2 /\ <<"", text>>[2] = text
  OBVIOUS
<1>4. Len(<<"">>) = 1 /\ <<"">>[1] = ""
  OBVIOUS
<1>5. Last(<<"">> \o <<>>) = ""
  BY <1>1, <1>4 DEF Last
<1>6. Last(<<"">> \o <<text>>) = text
  BY <1>2, <1>3 DEF Last
<1> QED
  BY <1>5, <1>6

(* A list of one message ends in it.                                        *)
LEMMA FirstToast ==
  ASSUME NEW text
  PROVE  Append(<<>>, text) = <<text>>
OBVIOUS

(* A step of the call before it dials: the socket is untouched.             *)
LEMMA AskingKeeps ==
  ASSUME IInv, TcpInv, ConnInv,
         \/ Start \/ FirstAnswer \/ NoAnswer \/ Ask \/ LinkAnswer \/ LinkTimeOut
         \/ \E device \in Device, request \in Request : Arrive(device, request)
  PROVE  ConnInv'
<1>1. /\ pc \in {"start", "first"} \cup Asking /\ UNCHANGED tcp
      /\ \/ pc' \in {"start", "first", "dial"} \cup Asking /\ UNCHANGED toasts
         \/ pc' = "returned"
  <2>1. CASE Start \/ FirstAnswer \/ Ask
    BY <2>1 DEF Start, FirstAnswer, Ask, Asking
  <2>2. CASE NoAnswer
    BY <2>2 DEF NoAnswer, Return, Toast
  <2>3. CASE LinkAnswer
    BY <2>3 DEF LinkAnswer, Return, Toast, Asking
  <2>4. CASE LinkTimeOut
    BY <2>4 DEF LinkTimeOut, Toast, Asking
  <2>5. CASE \E device \in Device, request \in Request : Arrive(device, request)
    BY <2>5 DEF Arrive, Asking, call
  <2> QED
    BY <2>1, <2>2, <2>3, <2>4, <2>5
<1>2. socket = "none" /\ ~running
  BY <1>1 DEF TcpInv, Phases, Asking
<1>3. UNCHANGED <<socket, error, edge, ops, pending, isConnected, running, reached>>
  BY <1>1 DEF tcp
<1>4. ~isConnected /\ pc # "returned"
  BY <1>1, <1>2 DEF ConnInv, Answers, Asking
<1>5. IdleQueue
  BY <1>2, <1>4 DEF ConnInv, Queue
<1>6. ops = <<"task">> /\ pending = 0
  BY <1>2, <1>5 DEF IdleQueue, Attempted
<1>7. Queue'
  BY <1>2, <1>3, <1>5 DEF Queue, IdleQueue, OkNext
<1>8. Answers'
  BY <1>1, <1>2, <1>3 DEF ConnInv, Answers, Asking
<1>9. Early'
  BY <1>2, <1>3, <1>4, <1>6 DEF Early
<1>10. toasts = <<>>
  BY <1>1 DEF ConnInv, Told, Asking, Ended
<1>11. Told'
  <2>1. CASE UNCHANGED toasts
    <3>1. toasts' = <<>>
      BY <1>10, <2>1
    <3>2. LateAnswerCounts'
      BY <1>2, <1>3 DEF LateAnswerCounts
    <3> QED
      BY <3>1, <3>2 DEF Told
  <2>2. CASE pc' = "returned"
    BY <1>1, <1>2, <1>3, <2>2 DEF Told, Ended, LateAnswerCounts
  <2> QED
    BY <1>1, <2>1, <2>2
<1> QED
  BY <1>7, <1>8, <1>9, <1>11 DEF ConnInv

(* The end of a connect, of the loop around it and of the call.             *)
LEMMA DialledKeeps ==
  ASSUME IInv, TcpInv, ConnInv, Dialled
  PROVE  ConnInv'
<1>1. /\ pc = "dialling" /\ ~running
      /\ \/ /\ isConnected /\ pc' = "send" /\ UNCHANGED <<timeouts, toasts>>
         \/ /\ ~isConnected /\ pc' = "returned" /\ UNCHANGED timeouts
            /\ toasts' = Append(toasts, "Link accept timed out")
         \/ /\ ~isConnected /\ pc' = "dial" /\ timeouts' = timeouts + 1
            /\ UNCHANGED toasts
      /\ UNCHANGED <<socket, error, edge, ops, pending, isConnected, running, reached>>
  BY DEF Dialled, Return, Toast, CountTimeOut, tcp
<1>2. toasts = <<>> /\ timeouts \in Nat
  <2>1. toasts = <<>>
    BY <1>1 DEF ConnInv, Told, Ended
  <2>2. timeouts \in Nat
    BY BroadcastAssumption DEF IInv, CallTypes
  <2> QED
    BY <2>1, <2>2
<1>3. ~isConnected => IdleQueue
  BY <1>1 DEF ConnInv, Queue
<1>4. Queue'
  BY <1>1, <1>3 DEF Queue, IdleQueue, OkNext
<1>5. Answers'
  BY <1>1 DEF ConnInv, Answers
<1>6. Early'
  <2>1. CASE isConnected
    BY <1>1, <2>1 DEF ConnInv, Early
  <2>2. CASE pc' = "returned"
    BY <1>1, <2>2 DEF ConnInv, Early
  <2>3. CASE /\ ~isConnected /\ pc' = "dial" /\ timeouts' = timeouts + 1
    <3>1. ASSUME ~reached, timeouts' < 2
          PROVE  /\ timeouts' = 1 /\ pending <= 1
                 /\ ops = <<"task">> \/ (ops = <<"descriptor", "task">> /\ pending = 0)
      BY <1>1, <1>2, <2>3, <3>1 DEF ConnInv, Early
    <3> QED
      BY <1>1, <2>3, <3>1 DEF Early
  <2> QED
    BY <1>1, <2>1, <2>2, <2>3
<1>7. Told'
  <2>1. CASE UNCHANGED toasts
    <3>1. toasts' = <<>> /\ pc' \notin {"close", "aborted"} \cup Ended
      BY <1>1, <1>2, <2>1 DEF Ended
    <3> QED
      BY <3>1, LastToast DEF Told, LateAnswerCounts
  <2>2. CASE pc' = "returned" /\ ~isConnected
    <3>1. socket # "connected"
      BY <1>3, <2>2 DEF IdleQueue, Attempted
    <3> QED
      BY <1>1, <2>2, <3>1 DEF Told, Ended, LateAnswerCounts
  <2> QED
    BY <1>1, <2>1, <2>2
<1> QED
  BY <1>4, <1>5, <1>6, <1>7 DEF ConnInv

(* The count is written, or the connection was reset before it.             *)
LEMMA SendKeeps ==
  ASSUME IInv, TcpInv, ConnInv, Send
  PROVE  ConnInv'
<1>1. /\ pc = "send" /\ pc' = "close" /\ UNCHANGED timeouts
      /\ toasts' = Append(toasts, "Content sent")
      /\ UNCHANGED <<socket, error, edge, ops, pending, isConnected, running, reached>>
  BY DEF Send, Toast, tcp
<1>2. toasts = <<>> /\ isConnected
  BY <1>1 DEF ConnInv, Told, Answers, Ended
<1>3. toasts' = <<"Content sent">>
  BY <1>1, <1>2, FirstToast
<1>4. Queue' /\ Answers'
  BY <1>1, <1>2 DEF ConnInv, Queue, Answers
<1>5. Early'
  BY <1>1 DEF ConnInv, Early
<1>6. Told'
  BY <1>1, <1>3, LastToast DEF Told, Ended, LateAnswerCounts
<1> QED
  BY <1>4, <1>5, <1>6 DEF ConnInv

(* The connection is shut down and closed.                                  *)
LEMMA CloseKeeps ==
  ASSUME IInv, TcpInv, ConnInv, Close
  PROVE  ConnInv'
<1>1. /\ pc = "close" /\ pc' = "returned" /\ UNCHANGED <<timeouts, toasts>>
      /\ isConnected' = FALSE /\ socket' = "shut"
      /\ UNCHANGED <<error, edge, ops, pending, running, reached>>
  BY DEF Close, Return
<1>2. ~running
  BY <1>1 DEF TcpInv, Phases
<1>3. Queue' /\ Early'
  BY <1>1 DEF Queue, Early
<1>4. Answers'
  BY <1>1, <1>2 DEF Answers
<1>5. Told'
  BY <1>1 DEF Told, Ended, LateAnswerCounts
<1> QED
  BY <1>3, <1>4, <1>5 DEF ConnInv

(* A call that throws ends the process.                                     *)
LEMMA AbortKeeps ==
  ASSUME IInv, TcpInv, ConnInv, Abort
  PROVE  ConnInv'
<1>1. /\ pc \in {"start", "ask", "dial", "send", "close"} /\ pc' = "aborted"
      /\ UNCHANGED <<timeouts, toasts>>
      /\ UNCHANGED <<socket, error, edge, ops, pending, isConnected, running, reached>>
  BY DEF Abort, tcp
<1>2. Queue'
  BY <1>1 DEF ConnInv, Queue, IdleQueue, BusyQueue, OkNext
<1>3. Answers' /\ Early'
  BY <1>1 DEF ConnInv, Answers, Early
<1>4. Told'
  BY <1>1 DEF ConnInv, Told, Ended, LateAnswerCounts
<1> QED
  BY <1>2, <1>3, <1>4 DEF ConnInv

(* Nobody is told anything while the connection is made.                    *)
LEMMA ToldLater ==
  ASSUME ConnInv, pc \notin Ended \cup {"close"}, pc' \notin Ended \cup {"close"},
         UNCHANGED toasts
  PROVE  Told'
<1>1. toasts' = <<>>
  BY DEF ConnInv, Told
<1> QED
  BY <1>1, LastToast DEF Told, Ended, LateAnswerCounts

(* Nothing is queued, asked or told when the call begins.                   *)
LEMMA ConnInit == Init => ConnInv
<1> SUFFICES ASSUME Init PROVE ConnInv
  OBVIOUS
<1>1. pc = "start" /\ timeouts = 0 /\ toasts = <<>>
  BY DEF Init
<1>2. /\ socket = "none" /\ ~error /\ ~edge /\ ops = <<"task">> /\ pending = 0
      /\ ~isConnected /\ ~running /\ ~reached
  BY DEF Init, Tcp!Init
<1>3. Queue /\ Answers /\ Early
  BY <1>1, <1>2 DEF Queue, IdleQueue, Answers, Early
<1>4. Told
  BY <1>1, LastToast DEF Told, LateAnswerCounts
<1> QED
  BY <1>3, <1>4 DEF ConnInv

(* The invariant is kept by every step of the call, the kernel and the      *)
(* other device.                                                            *)
LEMMA ConnNext == IInv /\ TcpInv /\ ConnInv /\ [Next]_vars => ConnInv'
<1> SUFFICES ASSUME IInv, TcpInv, ConnInv, [Next]_vars PROVE ConnInv'
  OBVIOUS
<1>1. CASE \/ Start \/ FirstAnswer \/ NoAnswer \/ Ask \/ LinkAnswer \/ LinkTimeOut
           \/ \E device \in Device, request \in Request : Arrive(device, request)
  BY <1>1, AskingKeeps
<1>2. CASE Dial
  <2>1. Told'
    BY <1>2, ToldLater DEF Dial, Ended
  <2> QED
    BY <1>2, <2>1, DialQueue, DialKeeps DEF ConnInv
<1>3. CASE TcpStep(Tcp!ConnectStep)
  <2>1. /\ running /\ UNCHANGED <<pc, toasts>>
        /\ \/ TcpStep(Tcp!RunTask) \/ TcpStep(Tcp!TimeOut)
           \/ TcpStep(Tcp!RunDescriptor) \/ TcpStep(Tcp!RunCompleted)
    BY <1>3 DEF TcpStep, Tcp!ConnectStep, Tcp!RunTask, Tcp!TimeOut,
                Tcp!RunDescriptor, Tcp!RunCompleted, call
  <2>2. pc = "dialling"
    BY <2>1 DEF TcpInv, Phases
  <2>3. Told'
    BY <2>1, <2>2, ToldLater DEF Ended
  <2>4. Queue' /\ Answers' /\ Early'
    BY <2>1, RunTaskQueue, TimeOutQueue, RunDescriptorQueue, RunCompletedQueue
  <2> QED
    BY <2>3, <2>4 DEF ConnInv
<1>4. CASE Dialled
  BY <1>4, DialledKeeps
<1>5. CASE Send
  BY <1>5, SendKeeps
<1>6. CASE Close
  BY <1>6, CloseKeeps
<1>7. CASE Abort
  BY <1>7, AbortKeeps
<1>8. CASE /\ pc \notin Ended
           /\ TcpStep(Tcp!Establish) \/ TcpStep(Tcp!Refuse) \/ TcpStep(Tcp!Reset)
  <2>1. /\ UNCHANGED <<pc, toasts>> /\ socket' # "connected"
        /\ pc \notin Ended
    BY <1>8 DEF TcpStep, Tcp!Establish, Tcp!Refuse, Tcp!Reset, call
  <2>2. Told'
    BY <2>1 DEF ConnInv, Told, Ended, LateAnswerCounts
  <2> QED
    BY <1>8, <2>2, PeerQueue DEF ConnInv
<1>9. CASE UNCHANGED vars
  <2>1. /\ UNCHANGED <<pc, timeouts, toasts>>
        /\ UNCHANGED <<socket, error, edge, ops, pending, isConnected, running, reached>>
    BY <1>9 DEF vars, call, tcp
  <2>2. Queue'
    BY <2>1 DEF ConnInv, Queue, IdleQueue, BusyQueue, OkNext
  <2>3. Answers' /\ Early'
    BY <2>1 DEF ConnInv, Answers, Early
  <2>4. Told'
    BY <2>1 DEF ConnInv, Told, LateAnswerCounts
  <2> QED
    BY <2>2, <2>3, <2>4 DEF ConnInv
<1> QED
  BY <1>1, <1>2, <1>3, <1>4, <1>5, <1>6, <1>7, <1>8, <1>9
  DEF Next, CallStep

(* In every behaviour of the call, what is left in the queue and what the   *)
(* connects that wait will be told account for the next connect's answer.   *)
THEOREM QueueInvariance == Spec => []ConnInv
<1>1. Init => IInv /\ TcpInv /\ ConnInv
  BY InitInvariant, TcpInitInvariant, ConnInit
<1>2. (IInv /\ TcpInv /\ ConnInv) /\ [Next]_vars => (IInv /\ TcpInv /\ ConnInv)'
  BY NextInvariant, TcpNextInvariant, ConnNext
<1> QED
  BY <1>1, <1>2, PTL DEF Spec

(* However large maxTimeouts is, "Link accept timed out" is never said when *)
(* the other device has accepted and the kernel has told a connect so.      *)
THEOREM TimedOutIsTimedOut == Spec => []LateAnswerCounts
<1>1. ConnInv => LateAnswerCounts
  BY DEF ConnInv, Told
<1> QED
  BY <1>1, QueueInvariance, PTL

(* Whatever is left of the first connect, the second one does not take it   *)
(* for a connection: up to there, isConnected is what it says.              *)
THEOREM FirstTwoAreReal == Spec => []EarlyConnectionsAreReal
<1>1. ConnInv => EarlyConnectionsAreReal
  BY DEF ConnInv, Early, EarlyConnectionsAreReal
<1> QED
  BY <1>1, QueueInvariance, PTL
=============================================================================
