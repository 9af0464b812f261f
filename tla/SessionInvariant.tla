--------------------------- MODULE SessionInvariant ---------------------------
(***************************************************************************)
(* The inductive invariant of Session. For each sender it says what its      *)
(* connection can be like at each call the receiver can be in: which         *)
(* messages are on their way, and in which call the sender can be. A sender  *)
(* may be gone at any point; its connection is then what it left.            *)
(***************************************************************************)
EXTENDS Session

Same(s) == password[s] = password[Receiver]

Handshake(s) == [salt |-> s, tag |-> Key(password[s], s), header |-> s]

\* The calls of a sender and those of the receiver.
SenderCalls   == {"connect", "handshake", "verdict", "request", "answer", "sending",
                  "stuck", "returned", "complete", "failed", "gone"}
ReceiverCalls == {"bind", "accept", "handshake", "request", "prompt", "receiving",
                  "stuck", "complete", "failed", "gone"}

\* What a sender knows, and has, in each of its calls, whatever the connection.
OwnInv(s) ==
    /\ phase[s] \in SenderCalls
    /\ phase[s] \in {"connect", "handshake", "verdict", "request"} => num[s] = 0
    /\ phase[s] \in {"handshake", "request"} => toSender[s] = <<>>
    /\ phase[s] = "verdict" =>
          toSender[s] \in {<<>>, <<FALSE>>} \/ (toSender[s] = <<TRUE>> /\ Same(s))
    /\ phase[s] = "answer" =>
          /\ num[s] > 0
          /\ accepted = s => toSender[s] = <<TRUE>>
          /\ accepted # s => toSender[s] \in {<<>>, <<FALSE>>}
    /\ phase[s] \in {"sending", "complete", "failed", "stuck"} => accepted = s
    /\ phase[s] = "complete" => sent[s] = num[s]
    /\ phase[s] = "request" \/ num[s] > 0 => Same(s)
    /\ sent[s] <= num[s]
    /\ phase[s] = "answer" \/ accepted # s => sent[s] = 0
    /\ accepted = s =>
          /\ num[s] > 0 /\ conn[s] \in {"open", "cut"}
          /\ phase[s] \in {"answer", "sending", "complete", "failed", "stuck", "gone"}

\* It has not connected.
Unconnected(s) ==
    /\ phase[s] \in {"connect", "returned", "gone"} /\ num[s] = 0
    /\ toReceiver[s] = <<>> /\ toSender[s] = <<>>

\* It has connected, and has sent its handshake or not.
Greeting(s) ==
    /\ num[s] = 0 /\ toSender[s] = <<>>
    /\ \/ phase[s] \in {"handshake", "gone"} /\ toReceiver[s] = <<>>
       \/ phase[s] \in {"verdict", "gone"} /\ toReceiver[s] = <<Handshake(s)>>

\* The receiver has verified its handshake; it has sent its request or not.
Asking(s) ==
    /\ decryptor = s /\ Same(s)
    /\ \/ /\ num[s] = 0 /\ toReceiver[s] = <<>>
          /\ \/ phase[s] = "verdict" /\ toSender[s] = <<TRUE>>
             \/ phase[s] = "request" \/ phase[s] = "gone"
       \/ /\ num[s] > 0 /\ toReceiver[s] = <<[chunks |-> num[s]]>>
          /\ (phase[s] = "answer" /\ toSender[s] = <<>>) \/ phase[s] = "gone"

\* The receiver has read its request.
Waiting(s) ==
    /\ decryptor = s /\ Same(s) /\ num[s] > 0 /\ expected = num[s]
    /\ toReceiver[s] = <<>>
    /\ (phase[s] = "answer" /\ toSender[s] = <<>>) \/ phase[s] = "gone"

\* Its request is accepted: the packets not yet taken are in the connection.
Streaming(s) ==
    /\ accepted = s /\ decryptor = s /\ Same(s) /\ expected = num[s]
    /\ taken + Len(toReceiver[s]) = sent[s]
    /\ \A i \in 1..Len(toReceiver[s]) : toReceiver[s][i] = [stream |-> s, chunk |-> taken + i]

\* Its handshake or its request is refused.
Refused(s) ==
    \/ phase[s] \in {"verdict", "answer"} /\ toSender[s] = <<FALSE>>
    \/ phase[s] \in {"returned", "gone"}

ConnInv(s) ==
    /\ phase[s] = "connect" => conn[s] = "none"
    /\ conn[s] = "none" => Unconnected(s)
    /\ conn[s] = "pending" => At(Receiver, "accept") /\ Greeting(s)
    /\ conn[s] = "open" => \/ At(Receiver, "handshake") /\ Greeting(s)
                           \/ At(Receiver, "request") /\ Asking(s)
                           \/ At(Receiver, "prompt") /\ Waiting(s)
                           \/ phase[Receiver] \in {"receiving", "stuck"} /\ Streaming(s)
                           \/ At(Receiver, "bind") /\ Refused(s)

SenderInv == \A s \in Senders : OwnInv(s) /\ ConnInv(s)

\* A request is accepted once, and everything that has been taken is of it.
ReceiverInv ==
    /\ phase[Receiver] \in ReceiverCalls
    /\ accepted = Nobody =>
          taken = 0 /\ phase[Receiver] \notin {"receiving", "stuck", "complete", "failed"}
    /\ accepted # Nobody =>
          /\ phase[Receiver] \in {"receiving", "stuck", "complete", "failed", "gone"}
          /\ expected = num[accepted] /\ taken <= sent[accepted]

\* The inductive invariant.
SessionInv == TypeOK /\ SenderInv /\ ReceiverInv /\ ReceiverSurvives
=============================================================================
