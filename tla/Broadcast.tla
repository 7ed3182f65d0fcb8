----------------------------- MODULE Broadcast ------------------------------
(* broadcastCount of MainActivity.kt: find a device, ask it for a link      *)
(* until it accepts, connect to it and send the count.  The UDPSender is a  *)
(* Mailbox, which UdpSender implements; the TCPSender is the detailed one.  *)
(* Other devices may send anything at any time, also unasked, twice, late   *)
(* or not at all; any call to the network may throw, and nothing catches it.*)
EXTENDS Integers, Sequences, SequencesExt

CONSTANTS
  Device,        \* the devices in the network
  MaxDatagrams,  \* bound: the number of datagrams that arrive in one go
  MaxTimeouts    \* maxTimeouts

ASSUME BroadcastAssumption == MaxDatagrams \in Nat /\ MaxTimeouts \in Nat \ {0}

VARIABLES
  pc,         \* where the main thread is in broadcastCount
  mail,       \* the datagrams that have arrived: who sent them, what they ask
  peer,       \* res: the number of the first answer, 0 for none
  timeouts,   \* timeouts
  requests,   \* how many link requests were sent
  toasts,     \* what this call has told the user
  waiting, latest, said, times,                    \* the mailbox
  socket, error, edge, ops, pending, isConnected, running, reached  \* TCP

Empty == {m \in DOMAIN mail : mail[m].request = "empty"}

Box == INSTANCE Mailbox WITH received <- Len(mail), empty <- Empty

Tcp == INSTANCE TcpSender

udp == <<mail, waiting, latest, said, times>>
tcp == <<socket, error, edge, ops, pending, isConnected, running, reached>>
call == <<pc, peer, timeouts, requests, toasts>>

vars == <<call, udp, tcp>>

(* getRequest: everything but the two answers to a link request is other, a *)
(* buffer that was never written included; empty has no request at all.     *)
Request == {"acceptLink", "denyLink", "other", "empty"}

Accepted == {"dial", "dialling", "send", "close"}
Ended == {"returned", "aborted"}

TypeOK ==
  /\ pc \in {"start", "first", "ask", "answer"} \cup Accepted \cup Ended
  /\ mail \in Seq([from : Device, request : Request])
  /\ Len(mail) <= MaxDatagrams
  /\ peer \in 0 .. Len(mail)
  /\ latest \in 0 .. Len(mail) /\ said \in 0 .. latest /\ times \in 0 .. 3
  /\ timeouts \in 0 .. MaxTimeouts /\ requests \in Nat
  /\ waiting \in BOOLEAN /\ (waiting <=> pc \in {"first", "answer"})
  /\ Tcp!TypeOK

Init ==
  /\ pc = "start" /\ peer = 0 /\ timeouts = 0 /\ requests = 0 /\ toasts = <<>>
  /\ mail = <<>> /\ waiting = FALSE /\ latest = 0 /\ said = 0 /\ times = 0
  /\ Tcp!Init

Toast(text) == toasts' = Append(toasts, text)

Return == pc' = "returned" /\ UNCHANGED <<peer, timeouts, requests>>
-----------------------------------------------------------------------------
(* The menu: a new UDPSender sends the broadcast and its answer is awaited. *)
Start ==
  /\ pc = "start" /\ UNCHANGED mail /\ Box!Await
  /\ pc' = "first"
  /\ UNCHANGED <<tcp, peer, timeouts, requests, toasts>>

(* A datagram from another device, while anyone still reads them. *)
Arrive(device, request) ==
  /\ pc \in {"first", "ask", "answer"} /\ Len(mail) < MaxDatagrams
  /\ mail' = Append(mail, [from |-> device, request |-> request])
  /\ UNCHANGED <<call, tcp, waiting, latest, said, times>>

FirstAnswer ==
  /\ pc = "first" /\ UNCHANGED mail /\ Box!Answer
  /\ peer' = latest' /\ pc' = "ask"
  /\ UNCHANGED <<tcp, timeouts, requests, toasts>>

NoAnswer ==
  /\ pc = "first" /\ UNCHANGED mail /\ Box!Nothing
  /\ Return /\ Toast("Did not get any response")
  /\ UNCHANGED tcp

(* sendLinkRequest, and the wait for its answer. *)
Ask ==
  /\ pc = "ask" /\ UNCHANGED mail /\ Box!Await
  /\ pc' = "answer" /\ requests' = requests + 1
  /\ UNCHANGED <<tcp, peer, timeouts, toasts>>

\* Mutant: an answer of any device counts.
FromAnyone(m) == TRUE

FromPeer(m) == mail[m].from = mail[peer].from

(* The sender of one datagram, the request of the last that held one. *)
LinkAnswer ==
  /\ pc = "answer" /\ UNCHANGED mail /\ Box!Answer
  /\ LET request == IF FromPeer(latest') /\ said' # 0
                    THEN mail[said'].request ELSE "other"
     IN  \/ /\ request = "acceptLink"
            /\ pc' = "dial" /\ timeouts' = 0
            /\ UNCHANGED <<peer, requests, toasts>>
         \/ /\ request = "denyLink"
            /\ Return /\ Toast("Request was denied by client")
         \/ /\ request = "other"
            /\ pc' = "ask"
            /\ UNCHANGED <<peer, timeouts, requests, toasts>>
  /\ UNCHANGED tcp

\* Mutant: the loop checks its limit one time-out late.
TimeLeftOnceMore(n) == n <= MaxTimeouts

TimeLeft(n) == n < MaxTimeouts

\* Mutant: time-outs are not counted.
CountNothing == UNCHANGED timeouts

CountTimeOut == timeouts' = timeouts + 1

LinkTimeOut ==
  /\ pc = "answer" /\ UNCHANGED mail /\ Box!Nothing
  /\ CountTimeOut
  /\ IF TimeLeft(timeouts')
     THEN pc' = "ask" /\ UNCHANGED toasts
     ELSE pc' = "returned" /\ Toast("Link request timed out")
  /\ UNCHANGED <<tcp, peer, requests>>
-----------------------------------------------------------------------------
Dial ==
  /\ pc = "dial" /\ Tcp!Connect
  /\ pc' = "dialling"
  /\ UNCHANGED <<udp, peer, timeouts, requests, toasts>>

TcpStep(step) == step /\ UNCHANGED <<call, udp>>

(* The condition of the while loop around connect, and its body. *)
Dialled ==
  /\ pc = "dialling" /\ ~running
  /\ \/ /\ isConnected
        /\ pc' = "send" /\ UNCHANGED <<peer, timeouts, requests, toasts>>
     \/ /\ ~isConnected /\ ~TimeLeft(timeouts)
        /\ Return /\ Toast("Link accept timed out")
     \/ /\ ~isConnected /\ TimeLeft(timeouts)
        /\ CountTimeOut
        /\ pc' = "dial" /\ UNCHANGED <<peer, requests, toasts>>
  /\ UNCHANGED <<udp, tcp>>

Send ==
  /\ pc = "send" /\ Tcp!CanSend
  /\ pc' = "close" /\ Toast("Content sent")
  /\ UNCHANGED <<udp, tcp, peer, timeouts, requests>>

(* TCP.use disconnects at its end. *)
Close ==
  /\ pc = "close" /\ ~Tcp!DisconnectThrows
  /\ Return /\ isConnected' = FALSE /\ socket' = "shut"
  /\ UNCHANGED <<udp, toasts, error, edge, ops, pending, running, reached>>

(* The network is down for a request, a send or the resolver, or there is   *)
(* no connection to send to or to shut down: the process is aborted.        *)
Abort ==
  /\ \/ pc \in {"start", "ask", "dial"}
     \/ pc = "send" /\ Tcp!SendThrows
     \/ pc = "close" /\ Tcp!DisconnectThrows
  /\ pc' = "aborted"
  /\ UNCHANGED <<udp, tcp, peer, timeouts, requests, toasts>>

CallStep ==
  \/ Start \/ FirstAnswer \/ NoAnswer \/ Ask \/ LinkAnswer \/ LinkTimeOut
  \/ Dial \/ TcpStep(Tcp!ConnectStep) \/ Dialled \/ Send \/ Close \/ Abort

Next ==
  \/ \E device \in Device, request \in Request : Arrive(device, request)
  \/ CallStep
  \/ pc \notin Ended
     /\ (TcpStep(Tcp!Establish) \/ TcpStep(Tcp!Refuse) \/ TcpStep(Tcp!Reset))

(* The main thread runs on and the times it waits for pass; the kernel      *)
(* gives up an attempt that nobody answers.                                 *)
Spec == Init /\ [][Next]_vars /\ WF_vars(CallStep) /\ WF_vars(TcpStep(Tcp!Refuse))
-----------------------------------------------------------------------------
(* broadcastCount ends, whatever the others send, once they stop: it is the *)
(* main thread that it keeps.                                               *)
CallEnds == pc \notin Ended ~> pc \in Ended

(* Requests are bounded although only time-outs are counted: every datagram *)
(* costs at most three of them.                                             *)
RequestsBounded == requests <= MaxTimeouts + 3 * Len(mail)

(* The count only goes to the device that was asked first, on a datagram of *)
(* its own that is an acceptance, or that is empty and comes with nothing   *)
(* but empty ones after an acceptance of whatever device.                   *)
SentOnAcceptance ==
  pc \in Accepted =>
    /\ mail[latest].from = mail[peer].from
    /\ said # 0 /\ mail[said].request = "acceptLink"
    /\ (said + 1) .. latest \subseteq Empty

(* The request "indicates which request is being responded to" and          *)
(* acceptLink is a "positive response to open a TCP connection": the device *)
(* that the count goes to has sent it.                                      *)
PeerHasAccepted ==
  pc \in Accepted =>
    \E m \in 1 .. latest :
      mail[m] = [from |-> mail[peer].from, request |-> "acceptLink"]

(* A connection the other device has made, however late, is reported as     *)
(* long as the kernel has said so to one of the attempts.                   *)
LateAnswerCounts ==
  Last(<<"">> \o toasts) = "Link accept timed out" => socket # "connected"

(* Only the first connect waits for its time: every retry meets something   *)
(* that is already complete or ready, and "Link accept timed out" comes     *)
(* after one time-out however large maxTimeouts is.                         *)
OnlyFirstConnectWaits == [][Tcp!TimeOut => timeouts = 0]_vars

(* The first two connects only report a connection the other device made.   *)
EarlyConnectionsAreReal == isConnected /\ timeouts < 2 => reached

(* isConnected says "whether or not the socket has been connected to        *)
(* anything".                                                               *)
ConnectionIsReal == isConnected => reached
=============================================================================
