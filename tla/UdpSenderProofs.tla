--------------------------- MODULE UdpSenderProofs ---------------------------
(* The sender keeps its promise for any number of datagrams.  The queue of  *)
(* the scheduler only ever has the six forms of Queues, and its form says   *)
(* how often the datagram in the buffer can still be returned.              *)
EXTENDS UdpSender, SequenceTheorems, TLAPS

Waits    == <<"task">>
Found    == <<"descriptor", "task">>
Behind   == <<"task", "receive">>
Stale    == <<"descriptor", "task", "receive">>
First    == <<"receive", "task">>
Followed == <<"receive", "descriptor", "task">>

Armed == {Waits, Found}
Ahead == {Behind, Stale, First, Followed}

Types ==
  /\ bound \in BOOLEAN /\ edge \in BOOLEAN /\ armed \in BOOLEAN
  /\ received \in 0 .. MaxDatagrams
  /\ responder \in 0 .. received /\ data \in 0 .. responder
  /\ empty \subseteq 1 .. received
  /\ pc \in {"idle", "service", "handler", "return"}
  /\ latest \in 0 .. responder /\ said \in 0 .. latest /\ times \in 0 .. 3

(* Which forms the queue has at each point of a call: the receive waits     *)
(* with the descriptor, or is complete and in the queue, or is the one      *)
(* whose handler runs.                                                      *)
Queues ==
  /\ ops \in Armed \cup Ahead
  /\ pc = "handler" => ~armed /\ ops \in Armed
  /\ pc # "handler" => (armed <=> ops \in Armed)
  /\ pc \in {"idle", "return"} => ops \in {Waits, Behind, Stale}

(* A descriptor in front of a receive that waits is not stale.              *)
Reports ==
  /\ armed /\ Unread /\ ops = Waits => edge
  /\ ops \in {Found, Followed} => Unread

(* What the buffer holds, and how often it has been returned.               *)
Buffer ==
  /\ pc \in {"idle", "service"} =>
       /\ responder = latest
       /\ ops = Stale => times <= 1
       /\ ops \in Ahead => times <= 2
  /\ pc \in {"handler", "return"} \/ ops \in Ahead => responder # 0
  /\ pc \in {"handler", "return"} /\ responder = latest =>
       /\ times <= 2
       /\ pc = "return" /\ ops = Behind => times <= 1
       /\ pc = "return" => ops # Stale

(* The request is that of the last datagram, up to the one whose sender it  *)
(* is returned with, that is not empty.                                     *)
Content == data \notin empty /\ (data + 1) .. responder \subseteq empty

IInv == Types /\ Queues /\ Reports /\ Buffer /\ Content
-----------------------------------------------------------------------------
(* The queue's forms under the operations of the scheduler.                 *)
LEMMA Forms ==
  /\ Waits # Found /\ Waits # Behind /\ Waits # Stale /\ Waits # First
  /\ Waits # Followed /\ Found # Behind /\ Found # Stale /\ Found # First
  /\ Found # Followed /\ Behind # Stale /\ Behind # First
  /\ Behind # Followed /\ Stale # First /\ Stale # Followed
  /\ First # Followed
BY DEF Waits, Found, Behind, Stale, First, Followed

LEMMA Heads ==
  /\ Head(Waits) = "task" /\ Head(Behind) = "task"
  /\ Head(Found) = "descriptor" /\ Head(Stale) = "descriptor"
  /\ Head(First) = "receive" /\ Head(Followed) = "receive"
BY DEF Waits, Found, Behind, Stale, First, Followed

LEMMA Tails ==
  /\ Tail(Waits) = <<>>
  /\ Tail(Behind) = <<"receive">>
  /\ Tail(Found) = Waits /\ Tail(Stale) = Behind
  /\ Tail(First) = Waits /\ Tail(Followed) = Found
BY DEF Waits, Found, Behind, Stale, First, Followed

LEMMA Sequences ==
  /\ Waits \in Seq(Op) /\ Found \in Seq(Op) /\ Behind \in Seq(Op)
  /\ Stale \in Seq(Op) /\ First \in Seq(Op) /\ Followed \in Seq(Op)
  /\ <<"receive">> \in Seq(Op)
BY DEF Waits, Found, Behind, Stale, First, Followed, Op

LEMMA Push ==
  ASSUME NEW s \in Seq(Op), NEW op \in Op, NEW t \in Seq(Op),
         Len(t) = Len(s) + 1,
         \A i \in 1 .. Len(s) : t[i] = s[i],
         t[Len(s) + 1] = op
  PROVE  Append(s, op) = t
<1> DEFINE a == Append(s, op)
<1>1. /\ a \in Seq(Op) /\ Len(a) = Len(t)
      /\ \A i \in 1 .. Len(s) : a[i] = s[i]
      /\ a[Len(s) + 1] = op
  BY AppendProperties, Z3
<1>2. \A i \in 1 .. Len(a) : a[i] = t[i]
  <2>1. Len(s) \in Nat
    BY LenProperties
  <2> HIDE DEF a
  <2> QED
    BY <1>1, <2>1
<1> HIDE DEF a
<1>3. a = t
  BY <1>1, <1>2, SeqEqual
<1> QED
  BY <1>3 DEF a

LEMMA Appended ==
  /\ Append(Waits, "receive") = Behind
  /\ Append(Found, "receive") = Stale
<1>1. "receive" \in Op
  BY DEF Op
<1>2. /\ Len(Waits) = 1 /\ Len(Behind) = 2
      /\ \A i \in 1 .. 1 : Behind[i] = Waits[i]
      /\ Behind[2] = "receive"
  BY DEF Waits, Behind
<1>3. /\ Len(Found) = 2 /\ Len(Stale) = 3
      /\ \A i \in 1 .. 2 : Stale[i] = Found[i]
      /\ Stale[3] = "receive"
  BY DEF Found, Stale
<1>4. Append(Waits, "receive") = Behind
  <2>1. /\ Len(Behind) = Len(Waits) + 1
        /\ \A i \in 1 .. Len(Waits) : Behind[i] = Waits[i]
        /\ Behind[Len(Waits) + 1] = "receive"
    BY <1>2
  <2> QED
    BY <1>1, <2>1, Sequences, Push, Zenon
<1>5. Append(Found, "receive") = Stale
  <2>1. /\ Len(Stale) = Len(Found) + 1
        /\ \A i \in 1 .. Len(Found) : Stale[i] = Found[i]
        /\ Stale[Len(Found) + 1] = "receive"
    BY <1>3
  <2> QED
    BY <1>1, <2>1, Sequences, Push, Zenon
<1> QED
  BY <1>4, <1>5

LEMMA Joined ==
  /\ <<>> \o <<"task">> = Waits
  /\ <<>> \o <<"descriptor", "task">> = Found
  /\ <<"receive">> \o <<"task">> = First
  /\ <<"receive">> \o <<"descriptor", "task">> = Followed
<1>1. <<>> \o <<"task">> = Waits /\ <<>> \o <<"descriptor", "task">> = Found
  BY Sequences, ConcatEmptySeq DEF Waits, Found
<1>2. <<"receive">> \o <<"task">> = First
  <2> DEFINE s == <<"receive">> \o <<"task">>
  <2>1. s \in Seq(Op) /\ Len(s) = 2 /\ s[1] = "receive" /\ s[2] = "task"
    <3>1. <<"receive">> \in Seq(Op) /\ <<"task">> \in Seq(Op)
      BY DEF Op
    <3> QED
      BY <3>1, ConcatProperties
  <2>2. Len(First) = 2 /\ First[1] = "receive" /\ First[2] = "task"
    BY DEF First
  <2> QED
    BY <2>1, <2>2, Sequences, SeqEqual
<1>3. <<"receive">> \o <<"descriptor", "task">> = Followed
  <2> DEFINE s == <<"receive">> \o <<"descriptor", "task">>
  <2>1. /\ s \in Seq(Op) /\ Len(s) = 3
        /\ s[1] = "receive" /\ s[2] = "descriptor" /\ s[3] = "task"
    <3>1. <<"receive">> \in Seq(Op) /\ <<"descriptor", "task">> \in Seq(Op)
      BY DEF Op
    <3> QED
      BY <3>1, ConcatProperties
  <2>2. /\ Len(Followed) = 3 /\ Followed[1] = "receive"
        /\ Followed[2] = "descriptor" /\ Followed[3] = "task"
    BY DEF Followed
  <2> QED
    BY <2>1, <2>2, Sequences, SeqEqual
<1> QED
  BY <1>1, <1>2, <1>3

LEMMA Members ==
  /\ "receive" \notin ToSet(Waits) /\ "receive" \notin ToSet(Found)
  /\ "receive" \in ToSet(Behind) /\ "receive" \in ToSet(Stale)
  /\ "receive" \in ToSet(First) /\ "receive" \in ToSet(Followed)
  /\ "descriptor" \in ToSet(Found)
BY DEF ToSet, Waits, Found, Behind, Stale, First, Followed

LEMMA Injective == \A s \in Armed \cup Ahead : s \in Seq(Op) /\ IsInjective(s)
<1>1. IsInjective(Waits) /\ IsInjective(Found) /\ IsInjective(Behind)
      /\ IsInjective(Stale) /\ IsInjective(First) /\ IsInjective(Followed)
  BY DEF IsInjective, Waits, Found, Behind, Stale, First, Followed
<1> QED
  BY <1>1, Sequences DEF Armed, Ahead
-----------------------------------------------------------------------------
(* The inductive invariant.                                                 *)
LEMMA InitInvariant == Init => IInv
<1> SUFFICES ASSUME Init PROVE IInv
  OBVIOUS
<1>1. ops = Waits
  BY DEF Init, Waits
<1>2. Types
  <2>1. bound \in BOOLEAN /\ edge \in BOOLEAN /\ armed \in BOOLEAN
    BY Zenon DEF Init
  <2> QED
    BY <2>1, MaxDatagramsAssumption DEF Init, Types
<1>3. Queues
  BY <1>1 DEF Init, Queues, Armed
<1>4. Reports
  BY <1>1, Forms DEF Init, Reports, Unread
<1>5. Buffer
  BY <1>1, Forms DEF Init, Buffer, Ahead
<1>6. Content
  BY DEF Init, Content
<1> QED
  BY <1>2, <1>3, <1>4, <1>5, <1>6 DEF IInv

(* A receive takes the next datagram, and keeps its request if it has one.   *)
LEMMA Received ==
  ASSUME Types, Content, Unread, Receive, UNCHANGED network
  PROVE  /\ responder' = responder + 1 /\ responder' \in 1 .. received
         /\ data' \in 0 .. responder'
         /\ Content'
<1> USE MaxDatagramsAssumption DEF network
<1>1. responder' = responder + 1 /\ responder' \in 1 .. received
  BY DEF Receive, Types, Unread
<1>2. CASE responder' \in empty
  BY <1>1, <1>2 DEF Receive, Types, Content
<1>3. CASE responder' \notin empty
  BY <1>1, <1>3 DEF Receive, Types, Content
<1> QED
  BY <1>1, <1>2, <1>3

LEMMA NextInvariant == IInv /\ [Next]_vars => IInv'
<1> SUFFICES ASSUME IInv, [Next]_vars PROVE IInv'
  OBVIOUS
<1> USE MaxDatagramsAssumption DEF IInv, returned, network, buffer
<1>1. CASE Request
  BY <1>1 DEF Request, Types, Queues, Reports, Unread, Buffer, Content
<1>2. CASE Arrive
  BY <1>2 DEF Arrive, Types, Queues, Reports, Unread, Buffer, Content
<1>3. CASE Await
  <2>1. Types' /\ Reports' /\ Buffer' /\ Content'
    BY <1>3 DEF Await, Types, Reports, Unread, Buffer, Content
  <2>2. Queues'
    BY <1>3 DEF Await, Queues
  <2> QED
    BY <2>1, <2>2
<1>4. CASE RunTask
  <2>1. ops \in {Waits, Behind} /\ pc = "service"
    BY <1>4, Heads, Forms DEF RunTask, Queues, Armed, Ahead
  <2>2. /\ pc' = pc /\ armed' = armed /\ bound' = bound /\ edge' = FALSE
        /\ UNCHANGED <<network, buffer, returned>>
    BY <1>4 DEF RunTask
  <2>3. CASE ops = Waits
    <3>1. Ready /\ ops' = Found
      BY <1>4, <2>3, Tails, Joined DEF RunTask
    <3> QED
      BY <2>1, <2>2, <2>3, <3>1, Forms
      DEF Types, Queues, Armed, Ahead, Reports, Unread, Ready, Buffer,
          Content
  <2>4. CASE ops = Behind
    <3>1. ops' = IF Ready THEN Followed ELSE First
      BY <1>4, <2>4, Tails, Joined DEF RunTask
    <3> QED
      BY <2>1, <2>2, <2>4, <3>1, Forms
      DEF Types, Queues, Armed, Ahead, Reports, Unread, Ready, Buffer,
          Content
  <2> QED
    BY <2>1, <2>3, <2>4
<1>5. CASE TimeOut
  <2>1. ops = Waits /\ ops' = Waits
    BY <1>5 DEF TimeOut, Waits
  <2> QED
    BY <1>5, <2>1, Forms
    DEF TimeOut, ReturnNothing, Ready, Types, Queues, Armed, Ahead, Reports,
        Unread, Buffer, Content
<1>6. CASE RunDescriptor
  <2>1. ops \in {Found, Stale} /\ pc = "service"
    BY <1>6, Heads, Forms DEF RunDescriptor, Queues, Armed, Ahead
  <2>2. CASE ops = Found
    <3>1. armed /\ Unread /\ ops' = Waits
      BY <1>6, <2>1, <2>2, Tails, Forms
      DEF RunDescriptor, Queues, Reports, Armed, Ahead
    <3>2. /\ Receive /\ armed' = FALSE /\ pc' = "handler"
          /\ UNCHANGED <<bound, network, edge, latest, said, times>>
      BY <1>6, <3>1 DEF RunDescriptor
    <3>3. /\ responder' = responder + 1 /\ responder' \in 1 .. received
          /\ data' \in 0 .. responder' /\ Content'
      BY <3>1, <3>2, Received
    <3>4. Types'
      <4>1. bound' \in BOOLEAN /\ edge' \in BOOLEAN /\ armed' \in BOOLEAN
        BY <3>2, Zenon DEF Types
      <4> QED
        BY <3>2, <3>3, <4>1 DEF Types
    <3>5. Queues' /\ Reports'
      BY <3>1, <3>2, <3>3, Forms DEF Queues, Armed, Ahead, Reports
    <3>6. Buffer' /\ Content'
      BY <2>1, <3>1, <3>2, <3>3, Forms DEF Buffer, Types, Ahead
    <3> QED
      BY <3>4, <3>5, <3>6
  <2>3. CASE ops = Stale
    <3>1. ~armed /\ ops' = Behind
      BY <1>6, <2>1, <2>3, Tails, Forms DEF RunDescriptor, Queues, Armed
    <3> QED
      BY <1>6, <2>1, <2>3, <3>1, Forms
      DEF RunDescriptor, Types, Queues, Armed, Ahead, Reports, Unread,
          Buffer, Content
  <2> QED
    BY <2>1, <2>2, <2>3
<1>7. CASE RunReceive
  <2>1. ops \in {First, Followed} /\ pc = "service"
    BY <1>7, Heads, Forms DEF RunReceive, Queues, Armed, Ahead
  <2>2. ops' = IF ops = First THEN Waits ELSE Found
    BY <1>7, <2>1, Tails, Forms DEF RunReceive
  <2> QED
    BY <1>7, <2>1, <2>2, Forms
    DEF RunReceive, Types, Queues, Armed, Ahead, Reports, Unread, Buffer,
        Content
<1>8. CASE HandleRecieve
  <2>1. ops \in Armed /\ pc = "handler" /\ ~armed
    BY <1>8 DEF HandleRecieve, Queues
  <2>2. CASE Unread
    <3>1. ops' = IF ops = Waits THEN Behind ELSE Stale
      BY <1>8, <2>1, <2>2, Appended, Forms
      DEF HandleRecieve, WaitRecieve, Armed
    <3> QED
      BY <1>8, <2>1, <2>2, <3>1, Forms
      DEF HandleRecieve, WaitRecieve, Receive, Types, Queues, Armed, Ahead,
          Reports, Unread, Buffer, Content
  <2>3. CASE ~Unread
    <3>1. ops = Waits /\ ops' = Waits
      BY <1>8, <2>1, <2>3 DEF HandleRecieve, WaitRecieve, Reports, Armed
    <3> QED
      BY <1>8, <2>1, <2>3, <3>1, Forms
      DEF HandleRecieve, WaitRecieve, Types, Queues, Armed, Ahead, Reports,
          Unread, Buffer, Content
  <2> QED
    BY <2>2, <2>3
<1>9. CASE Return
  BY <1>9, Forms
  DEF Return, ReturnData, Types, Queues, Armed, Ahead, Reports, Unread,
      Buffer, Content
<1>10. CASE UNCHANGED vars
  BY <1>10 DEF vars, Types, Queues, Reports, Unread, Buffer, Content
<1> QED
  BY <1>1, <1>2, <1>3, <1>4, <1>5, <1>6, <1>7, <1>8, <1>9, <1>10
  DEF Next, AwaitStep

(* The queue, the reports of epoll and the buffer fit together in every     *)
(* behaviour of the sender, for any number of datagrams.                    *)
THEOREM Invariance == Spec => []IInv
BY InitInvariant, NextInvariant, PTL DEF Spec

(* The sender's variables keep their types: in particular no operation is   *)
(* ever in the scheduler's queue twice.                                     *)
THEOREM TypeCorrect == Spec => []TypeOK
<1>1. IInv => TypeOK
  <2> SUFFICES ASSUME IInv PROVE TypeOK
    OBVIOUS
  <2>1. ops \in Seq(Op) /\ IsInjective(ops)
    BY Injective DEF IInv, Queues
  <2>2. latest \in 0 .. received
    BY MaxDatagramsAssumption DEF IInv, Types
  <2> QED
    BY <2>1, <2>2 DEF IInv, Types, TypeOK
<1> QED
  BY <1>1, Invariance, PTL

(* There is one outstanding receive, never none and never two.              *)
THEOREM ReceivesOnce == Spec => []OneReceive
<1>1. IInv => OneReceive
  <2> SUFFICES ASSUME IInv PROVE OneReceive
    OBVIOUS
  <2>1. ops \in Armed \cup Ahead
    BY DEF IInv, Queues
  <2>2. "receive" \in ToSet(ops) <=> ops \in Ahead
    BY <2>1, Members, Forms DEF Armed, Ahead
  <2>3. ops \in Armed <=> ops \notin Ahead
    BY <2>1, Forms DEF Armed, Ahead
  <2> QED
    BY <2>2, <2>3 DEF IInv, Queues, OneReceive
<1> QED
  BY <1>1, Invariance, PTL

(* epoll has reported, or still has to, whatever a waiting receive could    *)
(* take.                                                                    *)
THEOREM WakesUp == Spec => []NoLostWakeup
<1>1. IInv => NoLostWakeup
  BY Members, Forms DEF IInv, Queues, Reports, Armed, Ahead, NoLostWakeup
<1> QED
  BY <1>1, Invariance, PTL
-----------------------------------------------------------------------------
(* The steps of the mailbox that the sender's steps are.                    *)
LEMMA MapsInit == Init => Box!Init
BY DEF Init, Box!Init

LEMMA MapsNext == IInv /\ [Next]_vars => [Box!Next]_(Box!vars)
<1> SUFFICES ASSUME IInv, [Next]_vars PROVE [Box!Next]_(Box!vars)
  OBVIOUS
<1> USE DEF Box!vars, returned, network, buffer
<1>1. CASE Request
  BY <1>1 DEF Request
<1>2. CASE Arrive
  BY <1>2 DEF Arrive, Box!Next, Box!Arrive
<1>3. CASE Await
  BY <1>3 DEF Await, Box!Next, Box!Await
<1>4. CASE RunTask
  BY <1>4 DEF RunTask
<1>5. CASE TimeOut
  <2>1. latest = received
    <3>1. ops = Waits /\ pc = "service"
      BY <1>5 DEF TimeOut, Waits
    <3>2. ~Unread
      BY <1>5, <3>1, Forms DEF TimeOut, Ready, IInv, Queues, Reports, Armed
    <3> QED
      BY <3>1, <3>2, MaxDatagramsAssumption
      DEF IInv, Types, Buffer, Unread
  <2> QED
    BY <1>5, <2>1 DEF TimeOut, ReturnNothing, Box!Next, Box!Nothing
<1>6. CASE RunDescriptor
  BY <1>6 DEF RunDescriptor
<1>7. CASE RunReceive
  BY <1>7 DEF RunReceive
<1>8. CASE HandleRecieve
  BY <1>8 DEF HandleRecieve
<1>9. CASE Return
  <2>1. /\ pc = "return" /\ pc' = "idle"
        /\ latest' = responder /\ said' = data
        /\ UNCHANGED <<received, empty>>
        /\ times' = IF responder = 0 THEN 0
                    ELSE IF responder = latest THEN times + 1 ELSE 1
    BY <1>9 DEF Return, ReturnData
  <2>2. /\ responder # 0
        /\ responder = latest => times <= 2
    BY <2>1 DEF IInv, Buffer
  <2>3. /\ latest' \in latest .. received
        /\ times' = IF latest' = latest THEN times + 1 ELSE 1
        /\ times' <= 3
    BY <2>1, <2>2, MaxDatagramsAssumption DEF IInv, Types
  <2>4. /\ said' \in (0 .. latest') \ empty
        /\ (said' + 1) .. latest' \subseteq empty
    BY <2>1 DEF IInv, Types, Content
  <2> QED
    BY <2>1, <2>2, <2>3, <2>4 DEF Box!Next, Box!Answer
<1>10. CASE UNCHANGED vars
  BY <1>10 DEF vars
<1> QED
  BY <1>1, <1>2, <1>3, <1>4, <1>5, <1>6, <1>7, <1>8, <1>9, <1>10
  DEF Next, AwaitStep

(* The sender implements the mailbox: however far its receives run ahead,   *)
(* no call goes back to an earlier datagram, none is returned a fourth time *)
(* and a time-out hides none.                                               *)
THEOREM ImplementsMailbox == Spec => KeepsMailbox
<1> QED
  BY MapsInit, MapsNext, InitInvariant, NextInvariant, PTL
  DEF Spec, KeepsMailbox, Box!Spec
=============================================================================
