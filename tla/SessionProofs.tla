---------------------------- MODULE SessionProofs ----------------------------
(***************************************************************************)
(* Proof that SessionInv (SessionInvariant) is an invariant of Session for *)
(* any number of senders, any passwords and any bounds, of the safety      *)
(* properties that follow from it, and that a session implements           *)
(* FileSender and FileReceiver.                                            *)
(*                                                                         *)
(* A step moves one process. What it does not touch keeps its part of the  *)
(* invariant (Unmoved: a sender of which nothing changes; Aside: a sender  *)
(* that is not being served, while the receiver goes on; Dropped: a sender *)
(* whose connection the receiver closes); the lemma of each action then    *)
(* speaks of the sender it is about.                                       *)
(***************************************************************************)
EXTENDS SessionInvariant, TLAPS

\* The parts of the invariant that the proofs cite.
LEMMA Parts ==
    ASSUME SessionInv
    PROVE  /\ TypeOK /\ ReceiverInv /\ ReceiverSurvives
           /\ \A s \in Senders : OwnInv(s) /\ ConnInv(s)
  BY DEF SessionInv, SenderInv

\* What a process does to its own phase.
LEMMA Moved ==
    ASSUME TypeOK, NEW p \in Senders \cup {Receiver}, NEW l, Go(p, l)
    PROVE  /\ phase'[p] = l
           /\ \A q \in Senders \cup {Receiver} : q # p => phase'[q] = phase[q]
           /\ l \in SenderCalls \cup ReceiverCalls =>
                 phase' \in [Senders \cup {Receiver} ->
                    Over \cup {"connect", "handshake", "verdict", "request", "answer",
                               "sending", "stuck", "bind", "accept", "prompt", "receiving"}]
  BY DEF TypeOK, Go, SenderCalls, ReceiverCalls, Over

\* A sender of which nothing changes, while the receiver does not move.
LEMMA Unmoved ==
    ASSUME NEW t \in Senders, OwnInv(t), ConnInv(t),
           UNCHANGED <<password, expected, taken, decryptor, accepted>>,
           phase'[Receiver] = phase[Receiver], phase'[t] = phase[t], conn'[t] = conn[t],
           toReceiver'[t] = toReceiver[t], toSender'[t] = toSender[t],
           num'[t] = num[t], sent'[t] = sent[t]
    PROVE  OwnInv(t)' /\ ConnInv(t)'
<1>1. OwnInv(t)'
  BY DEF OwnInv, Same
<1>2. Unconnected(t) => Unconnected(t)'
  BY DEF Unconnected
<1>3. Greeting(t) => Greeting(t)'
  BY DEF Greeting, Handshake
<1>4. Asking(t) => Asking(t)'
  BY DEF Asking, Same
<1>5. Waiting(t) => Waiting(t)'
  BY DEF Waiting, Same
<1>6. Streaming(t) => Streaming(t)'
  BY DEF Streaming, Same
<1>7. Refused(t) => Refused(t)'
  BY DEF Refused
<1>8. ConnInv(t)'
  BY <1>2, <1>3, <1>4, <1>5, <1>6, <1>7 DEF ConnInv, At
<1>9. QED
  BY <1>1, <1>8

\* A sender that has no open connection nor one to be accepted, while the receiver moves.
LEMMA Aside ==
    ASSUME NEW t \in Senders, OwnInv(t), ConnInv(t), conn[t] \in {"none", "cut"},
           UNCHANGED password, accepted' = t <=> accepted = t,
           phase'[t] = phase[t], conn'[t] = conn[t],
           toReceiver'[t] = toReceiver[t], toSender'[t] = toSender[t],
           num'[t] = num[t], sent'[t] = sent[t]
    PROVE  OwnInv(t)' /\ ConnInv(t)'
  BY DEF OwnInv, ConnInv, Unconnected, Same

\* A sender whose connection, if it has one, is closed by the receiver.
LEMMA Dropped ==
    ASSUME NEW t \in Senders, OwnInv(t), ConnInv(t),
           UNCHANGED <<password, accepted>>, phase'[t] = phase[t],
           conn'[t] = (IF conn[t] \in {"open", "pending"} THEN "cut" ELSE conn[t]),
           toReceiver'[t] = toReceiver[t], toSender'[t] = toSender[t],
           num'[t] = num[t], sent'[t] = sent[t]
    PROVE  OwnInv(t)' /\ ConnInv(t)'
<1>1. /\ phase[t] = "connect" => conn'[t] = "none"
      /\ conn'[t] = "none" => conn[t] = "none"
      /\ conn'[t] # "pending" /\ conn'[t] # "open"
      /\ conn[t] \in {"open", "cut"} => conn'[t] = "cut"
  BY DEF ConnInv
<1>2. OwnInv(t)'
  BY <1>1 DEF OwnInv, Same
<1>3. ConnInv(t)'
  BY <1>1 DEF ConnInv, Unconnected
<1>4. QED
  BY <1>2, <1>3

\* One connection at most is open; the others are aside when the receiver serves it.
LEMMA TheOpenOne ==
    ASSUME SessionInv, NEW s \in Senders, conn[s] = "open"
    PROVE  /\ phase[Receiver] \in {"handshake", "request", "prompt", "receiving", "stuck", "bind"}
           /\ \A t \in Senders : t # s => conn[t] \in {"none", "cut"}
<1>1. phase[Receiver] \in {"handshake", "request", "prompt", "receiving", "stuck", "bind"}
  BY Parts DEF ConnInv, At
<1>2. ASSUME NEW t \in Senders, t # s PROVE conn[t] \in {"none", "cut"}
  <2>1. conn[t] # "open" /\ conn[t] \in {"none", "pending", "open", "cut"}
    BY <1>2 DEF SessionInv, TypeOK
  <2>2. conn[t] # "pending"
    BY <1>1, Parts DEF ConnInv, At
  <2>3. QED
    BY <2>1, <2>2
<1>3. QED
  BY <1>1, <1>2

\* Before a request is accepted nobody's is.
LEMMA NotYet ==
    ASSUME SessionInv, phase[Receiver] \in {"bind", "accept", "handshake", "request", "prompt"}
    PROVE  accepted = Nobody /\ taken = 0 /\ \A t \in Senders : accepted # t
  BY SessionAssumption DEF SessionInv, ReceiverInv
-----------------------------------------------------------------------------
\* A step of a sender leaves the senders that are not it alone.
LEMMA TheOthers ==
    ASSUME SessionInv, NEW s \in Senders, NEW l, Go(s, l),
           UNCHANGED <<password, expected, taken, decryptor, accepted>>,
           \A t \in Senders : t # s =>
              /\ conn'[t] = conn[t] /\ toReceiver'[t] = toReceiver[t]
              /\ toSender'[t] = toSender[t] /\ num'[t] = num[t] /\ sent'[t] = sent[t]
    PROVE  /\ \A t \in Senders : t # s => OwnInv(t)' /\ ConnInv(t)'
           /\ phase'[Receiver] = phase[Receiver] /\ phase'[s] = l
<1>1. /\ phase'[s] = l /\ phase'[Receiver] = phase[Receiver]
      /\ \A t \in Senders : t # s => phase'[t] = phase[t]
  BY Parts, Moved, SessionAssumption
<1>2. QED
  BY <1>1, Parts, Unmoved

\* A call returns, and its sender is done, stuck or gone: nothing else changes.
LEMMA SenderMoves ==
    ASSUME SessionInv, NEW s \in Senders, NEW l, Go(s, l),
           UNCHANGED <<password, conn, wires, plans, intake>>,
           accidents' \in 0..MaxAccidents, accidents' >= accidents,
           \/ l = "gone"
           \/ phase[s] = "connect" /\ l = "returned"
           \/ phase[s] = "sending" /\ l \in {"failed", "stuck"}
           \/ phase[s] = "sending" /\ l = "complete" /\ sent[s] = num[s]
    PROVE  SessionInv'
<1>1. /\ UNCHANGED <<password, conn, toReceiver, toSender, num, sent, expected, taken,
                     decryptor, accepted>>
      /\ TypeOK /\ ReceiverInv /\ ReceiverSurvives /\ OwnInv(s) /\ ConnInv(s)
  BY Parts DEF wires, plans, intake
<1>2. /\ \A t \in Senders : t # s => OwnInv(t)' /\ ConnInv(t)'
      /\ phase'[Receiver] = phase[Receiver] /\ phase'[s] = l
  BY <1>1, TheOthers
<1>3. TypeOK'
  <2>1. l \in SenderCalls
    BY DEF SenderCalls
  <2>2. QED
    BY <1>1, <2>1, Moved DEF TypeOK
<1>4. OwnInv(s)'
  <2>1. l \in SenderCalls
    BY DEF SenderCalls
  <2>2. phase[s] = "sending" => accepted = s
    BY <1>1 DEF OwnInv
  <2>3. QED
    BY <1>1, <1>2, <2>1, <2>2 DEF OwnInv, Same
<1>5. ConnInv(s)'
  <2>1. phase[s] = "sending" => accepted = s /\ conn[s] \in {"open", "cut"}
    BY <1>1 DEF OwnInv
  <2>2. phase[s] = "connect" => conn[s] = "none"
    BY <1>1 DEF ConnInv
  <2>3. CASE conn[s] # "open"
    BY <1>1, <1>2, <2>1, <2>2, <2>3
    DEF ConnInv, Unconnected, Greeting, Handshake, At
  <2>4. CASE conn[s] = "open"
    <3>1. l = "gone" \/ phase[Receiver] \in {"receiving", "stuck"}
      <4>1. accepted = s => phase[Receiver] \notin {"handshake", "request", "prompt", "bind"}
        BY <1>1, SessionAssumption DEF ReceiverInv
      <4>2. QED
        BY <1>1, <2>1, <2>2, <2>4, <4>1, TheOpenOne
    <3>2. QED
      BY <1>1, <1>2, <2>1, <2>4, <3>1
      DEF ConnInv, Greeting, Asking, Waiting, Streaming, Refused, Same, Handshake, At
  <2>5. QED
    BY <2>3, <2>4
<1>6. ReceiverInv'
  BY <1>1, <1>2 DEF ReceiverInv
<1>7. ReceiverSurvives'
  <2>1. CASE accidents' > 0
    BY <2>1 DEF ReceiverSurvives
  <2>2. CASE ~(accidents' > 0)
    <3>1. accidents = 0
      BY <1>1, <2>2 DEF TypeOK
    <3>2. \A t \in Senders : At(t, "gone") => At(t, "gone")'
      <4>1. \A t \in Senders : t # s => phase'[t] = phase[t]
        BY <1>1, Moved
      <4>2. QED
        BY <1>2, <4>1 DEF At
    <3>3. QED
      BY <1>1, <1>2, <3>1, <3>2 DEF ReceiverSurvives, At
  <2>3. QED
    BY <2>1, <2>2
<1>8. QED
  BY <1>2, <1>3, <1>4, <1>5, <1>6, <1>7 DEF SessionInv, SenderInv

\* A sender connects while the receiver accepts connections.
LEMMA ConnectStep == ASSUME SessionInv, NEW s \in Senders, Connect(s) PROVE SessionInv'
<1>1. /\ phase[s] = "connect" /\ phase[Receiver] = "accept" /\ Go(s, "handshake")
      /\ conn' = [conn EXCEPT ![s] = "pending"]
      /\ UNCHANGED <<password, toReceiver, toSender, num, sent, expected, taken,
                     decryptor, accepted, accidents>>
      /\ TypeOK /\ ReceiverInv /\ ReceiverSurvives /\ OwnInv(s) /\ ConnInv(s)
  BY Parts DEF Connect, Only, At, wires, plans, intake
<1>2. /\ conn'[s] = "pending" /\ \A t \in Senders : t # s => conn'[t] = conn[t]
      /\ conn' \in [Senders -> {"none", "pending", "open", "cut"}]
  BY <1>1 DEF TypeOK
<1>3. /\ \A t \in Senders : t # s => OwnInv(t)' /\ ConnInv(t)'
      /\ phase'[Receiver] = phase[Receiver] /\ phase'[s] = "handshake"
  BY <1>1, <1>2, TheOthers
<1>4. conn[s] = "none" /\ Unconnected(s)
  BY <1>1 DEF ConnInv
<1>5. TypeOK'
  <2>1. \A t, u \in Senders : conn'[t] = "open" /\ conn'[u] = "open" => t = u
    BY <1>1, <1>2 DEF TypeOK
  <2>2. QED
    BY <1>1, <1>2, <2>1, Moved DEF TypeOK, SenderCalls
<1>6. OwnInv(s)'
  BY <1>1, <1>3, <1>4 DEF OwnInv, Unconnected, Same, SenderCalls
<1>7. ConnInv(s)'
  BY <1>1, <1>2, <1>3, <1>4 DEF ConnInv, Unconnected, Greeting, At
<1>8. ReceiverInv' /\ ReceiverSurvives'
  BY <1>1, <1>3 DEF ReceiverInv, ReceiverSurvives, At
<1>9. QED
  BY <1>3, <1>5, <1>6, <1>7, <1>8 DEF SessionInv, SenderInv

\* One message more, or one less, in one of the queues of a connection.
LEMMA QueueTypes ==
    ASSUME NEW S, NEW f \in [Senders -> Seq(S)], NEW s \in Senders, NEW m \in S
    PROVE  /\ [f EXCEPT ![s] = Append(f[s], m)] \in [Senders -> Seq(S)]
           /\ [f EXCEPT ![s] = Append(f[s], m)][s] = Append(f[s], m)
           /\ \A t \in Senders : t # s => [f EXCEPT ![s] = Append(f[s], m)][t] = f[t]
           /\ f[s] # <<>> => /\ [f EXCEPT ![s] = Tail(f[s])] \in [Senders -> Seq(S)]
                             /\ [f EXCEPT ![s] = Tail(f[s])][s] = Tail(f[s])
                             /\ \A t \in Senders :
                                   t # s => [f EXCEPT ![s] = Tail(f[s])][t] = f[t]
<1>1. f[s] \in Seq(S) /\ Append(f[s], m) \in Seq(S)
  OBVIOUS
<1>2. f[s] # <<>> => Tail(f[s]) \in Seq(S)
  BY <1>1
<1>3. QED
  BY <1>1, <1>2

\* What a Write does to the connection of its sender, and to no other.
LEMMA Written ==
    ASSUME TypeOK, NEW s \in Senders, NEW m \in Messages, Write(s, m)
    PROVE  /\ toReceiver' \in [Senders -> Seq(Messages)]
           /\ \A t \in Senders : t # s => toReceiver'[t] = toReceiver[t]
           /\ conn[s] = "cut" => toReceiver'[s] = toReceiver[s]
           /\ conn[s] # "cut" => toReceiver'[s] = Append(toReceiver[s], m)
           /\ UNCHANGED <<password, conn, toSender, expected, taken, decryptor, accepted,
                          accidents>>
<1>1. toReceiver \in [Senders -> Seq(Messages)]
  BY DEF TypeOK
<1>2. UNCHANGED <<password, conn, toSender, expected, taken, decryptor, accepted, accidents>>
  BY DEF Write, intake
<1>3. CASE conn[s] = "cut"
  BY <1>1, <1>2, <1>3 DEF Write
<1>4. CASE conn[s] # "cut"
  <2>1. toReceiver' = [toReceiver EXCEPT ![s] = Append(toReceiver[s], m)]
    BY <1>4 DEF Write
  <2>2. QED
    BY <1>1, <1>2, <1>4, <2>1, QueueTypes
<1>5. QED
  BY <1>3, <1>4

\* Salt, tag and header go to the receiver.
LEMMA SendHandshakeStep == ASSUME SessionInv, NEW s \in Senders, SendHandshake(s) PROVE SessionInv'
<1>1. /\ phase[s] = "handshake" /\ Go(s, "verdict") /\ UNCHANGED <<num, sent>>
      /\ Write(s, Handshake(s))
      /\ TypeOK /\ ReceiverInv /\ ReceiverSurvives /\ OwnInv(s) /\ ConnInv(s)
  BY Parts DEF SendHandshake, At, plans, Handshake
<1>2. Handshake(s) \in Messages
  <2>1. password[s] \in Passwords
    BY <1>1 DEF TypeOK
  <2>2. QED
    BY <2>1 DEF Handshake, Messages, Key
<1>3. /\ toReceiver' \in [Senders -> Seq(Messages)]
      /\ \A t \in Senders : t # s => toReceiver'[t] = toReceiver[t]
      /\ conn[s] # "cut" => toReceiver'[s] = Append(toReceiver[s], Handshake(s))
      /\ UNCHANGED <<password, conn, toSender, expected, taken, decryptor, accepted, accidents>>
  BY <1>1, <1>2, Written
<1>4. /\ \A t \in Senders : t # s => OwnInv(t)' /\ ConnInv(t)'
      /\ phase'[Receiver] = phase[Receiver] /\ phase'[s] = "verdict"
  BY <1>1, <1>3, TheOthers
<1>5. TypeOK'
  <2>1. "verdict" \in SenderCalls
    BY DEF SenderCalls
  <2>2. QED
    BY <1>1, <1>3, <2>1, Moved DEF TypeOK
<1>6. OwnInv(s)'
  BY <1>1, <1>3, <1>4 DEF OwnInv, Same, SenderCalls
<1>7. ConnInv(s)'
  <2>1. accepted # s
    BY <1>1 DEF OwnInv
  <2>2. conn[s] # "none"
    BY <1>1 DEF ConnInv, Unconnected
  <2>3. conn[s] \in {"pending", "open"} =>
           /\ Greeting(s) /\ toReceiver[s] = <<>>
           /\ IF conn[s] = "open" THEN At(Receiver, "handshake") ELSE At(Receiver, "accept")
    BY <1>1, <2>1 DEF ConnInv, Greeting, Asking, Waiting, Streaming, Refused, At
  <2>4. conn[s] \in {"pending", "open"} => toReceiver'[s] = <<Handshake(s)>>
    BY <1>3, <2>3
  <2>5. conn[s] \in {"pending", "open"} => Greeting(s)'
    BY <1>1, <1>3, <1>4, <2>3, <2>4 DEF Greeting, Handshake
  <2>6. conn'[s] = conn[s]
    BY <1>3
  <2>7. QED
    BY <1>1, <1>4, <2>2, <2>3, <2>5, <2>6 DEF ConnInv, At
<1>8. ReceiverInv' /\ ReceiverSurvives'
  <2>1. \A t \in Senders : At(t, "gone") => At(t, "gone")'
    BY <1>1, Moved DEF At
  <2>2. QED
    BY <1>1, <1>3, <1>4, <2>1 DEF ReceiverInv, ReceiverSurvives, At
<1>9. QED
  BY <1>4, <1>5, <1>6, <1>7, <1>8 DEF SessionInv, SenderInv

\* What reading an answer does: the sender goes on, or returns when it is refused.
LEMMA AnswerRead ==
    ASSUME SessionInv, NEW s \in Senders, NEW c, NEW l \in SenderCalls, ReadAnswer(s, c, l)
    PROVE  /\ phase[s] = c /\ toSender[s] # <<>>
           /\ Go(s, IF Head(toSender[s]) THEN l ELSE "returned")
           /\ phase'[Receiver] = phase[Receiver]
           /\ phase'[s] = IF Head(toSender[s]) THEN l ELSE "returned"
           /\ toSender'[s] = Tail(toSender[s])
           /\ UNCHANGED <<password, conn, toReceiver, num, sent, expected, taken, decryptor,
                          accepted, accidents>>
           /\ \A t \in Senders : t # s => OwnInv(t)' /\ ConnInv(t)'
           /\ TypeOK'
<1>1. /\ phase[s] = c /\ toSender[s] # <<>>
      /\ Go(s, IF Head(toSender[s]) THEN l ELSE "returned")
      /\ toSender' = [toSender EXCEPT ![s] = Tail(toSender[s])]
      /\ UNCHANGED <<password, conn, toReceiver, num, sent, expected, taken, decryptor,
                     accepted, accidents>>
  BY DEF ReadAnswer, At, MayGoOn, plans, intake
<1>2. TypeOK /\ toSender \in [Senders -> Seq(BOOLEAN)]
  BY Parts DEF TypeOK
<1>3. /\ toSender' \in [Senders -> Seq(BOOLEAN)] /\ toSender'[s] = Tail(toSender[s])
      /\ \A t \in Senders : t # s => toSender'[t] = toSender[t]
  BY <1>1, <1>2, QueueTypes
<1> DEFINE l2 == IF Head(toSender[s]) THEN l ELSE "returned"
<1>4. l2 \in SenderCalls
  BY DEF SenderCalls
<1>5. /\ \A t \in Senders : t # s => OwnInv(t)' /\ ConnInv(t)'
      /\ phase'[Receiver] = phase[Receiver] /\ phase'[s] = l2
  BY <1>1, <1>3, TheOthers
<1>6. TypeOK'
  BY <1>1, <1>2, <1>3, <1>4, Moved DEF TypeOK
<1>7. QED
  BY <1>1, <1>3, <1>5, <1>6

\* A queue that holds one answer.
LEMMA OneAnswer == ASSUME NEW x PROVE Head(<<x>>) = x /\ Tail(<<x>>) = <<>>
  OBVIOUS

\* The answer to the handshake.
LEMMA VerdictStep ==
    ASSUME SessionInv, NEW s \in Senders, ReadAnswer(s, "verdict", "request") PROVE SessionInv'
<1>1. /\ phase[s] = "verdict" /\ toSender[s] # <<>>
      /\ phase'[Receiver] = phase[Receiver]
      /\ Go(s, IF Head(toSender[s]) THEN "request" ELSE "returned")
      /\ phase'[s] = IF Head(toSender[s]) THEN "request" ELSE "returned"
      /\ toSender'[s] = Tail(toSender[s])
      /\ UNCHANGED <<password, conn, toReceiver, num, sent, expected, taken, decryptor,
                     accepted, accidents>>
      /\ \A t \in Senders : t # s => OwnInv(t)' /\ ConnInv(t)'
      /\ TypeOK'
  <2>1. "request" \in SenderCalls
    BY DEF SenderCalls
  <2>2. QED
    BY <2>1, AnswerRead
<1>2. TypeOK /\ ReceiverInv /\ ReceiverSurvives /\ OwnInv(s) /\ ConnInv(s)
  BY Parts
<1>3. /\ toSender'[s] = <<>> /\ accepted # s /\ num[s] = 0 /\ sent[s] = 0
      /\ \/ toSender[s] = <<FALSE>> /\ phase'[s] = "returned"
         \/ toSender[s] = <<TRUE>> /\ Same(s) /\ phase'[s] = "request"
  <2>1. /\ accepted # s /\ num[s] = 0
        /\ toSender[s] = <<FALSE>> \/ (toSender[s] = <<TRUE>> /\ Same(s))
    BY <1>1, <1>2 DEF OwnInv
  <2>2. sent[s] = 0
    BY <1>2, <2>1 DEF OwnInv
  <2>3. CASE toSender[s] = <<FALSE>>
    <3>1. Head(toSender[s]) = FALSE /\ Tail(toSender[s]) = <<>>
      BY <2>3, OneAnswer
    <3>2. QED
      BY <1>1, <2>1, <2>2, <2>3, <3>1
  <2>4. CASE toSender[s] = <<TRUE>> /\ Same(s)
    <3>1. Head(toSender[s]) = TRUE /\ Tail(toSender[s]) = <<>>
      BY <2>4, OneAnswer
    <3>2. QED
      BY <1>1, <2>1, <2>2, <2>4, <3>1
  <2>5. QED
    BY <2>1, <2>3, <2>4
<1>4. OwnInv(s)'
  BY <1>1, <1>2, <1>3 DEF OwnInv, Same, SenderCalls
<1>5. conn[s] # "none" /\ conn[s] # "pending"
  BY <1>1, <1>2 DEF ConnInv, Unconnected, Greeting
<1>6. conn[s] = "open" =>
         \/ At(Receiver, "request") /\ Asking(s) /\ toSender[s] = <<TRUE>>
         \/ At(Receiver, "bind") /\ toSender[s] = <<FALSE>>
  BY <1>1, <1>2, <1>3 DEF ConnInv, Greeting, Asking, Waiting, Streaming, Refused
<1>7. ConnInv(s)'
  <2>1. CASE conn[s] = "open" /\ toSender[s] = <<TRUE>>
    <3>1. /\ phase[Receiver] = "request" /\ decryptor = s /\ Same(s) /\ toReceiver[s] = <<>>
          /\ phase'[s] = "request"
      BY <1>3, <1>6, <2>1 DEF Asking, At
    <3>2. Asking(s)'
      BY <1>1, <1>3, <3>1 DEF Asking, Same
    <3>3. QED
      BY <1>1, <2>1, <3>1, <3>2 DEF ConnInv, At
  <2>2. CASE conn[s] = "open" /\ toSender[s] = <<FALSE>>
    <3>1. phase[Receiver] = "bind" /\ phase'[s] = "returned"
      BY <1>3, <1>6, <2>2 DEF At
    <3>2. QED
      BY <1>1, <2>2, <3>1 DEF ConnInv, Refused, At
  <2>3. CASE conn[s] # "open"
    <3>1. conn'[s] # "open" /\ conn'[s] # "none" /\ conn'[s] # "pending"
          /\ phase'[s] # "connect"
      BY <1>1, <1>3, <1>5, <2>3
    <3>2. QED
      BY <3>1 DEF ConnInv
  <2>4. QED
    BY <1>3, <2>1, <2>2, <2>3
<1>8. ReceiverInv' /\ ReceiverSurvives'
  <2>1. \A t \in Senders : At(t, "gone") => At(t, "gone")'
    BY <1>1, <1>2, Moved DEF At
  <2>2. QED
    BY <1>1, <1>2, <2>1 DEF ReceiverInv, ReceiverSurvives, At
<1>9. QED
  BY <1>1, <1>4, <1>7, <1>8 DEF SessionInv, SenderInv

\* The answer to the request.
LEMMA GoAheadStep ==
    ASSUME SessionInv, NEW s \in Senders, ReadAnswer(s, "answer", "sending") PROVE SessionInv'
<1>1. /\ phase[s] = "answer" /\ toSender[s] # <<>>
      /\ phase'[Receiver] = phase[Receiver]
      /\ Go(s, IF Head(toSender[s]) THEN "sending" ELSE "returned")
      /\ phase'[s] = IF Head(toSender[s]) THEN "sending" ELSE "returned"
      /\ toSender'[s] = Tail(toSender[s])
      /\ UNCHANGED <<password, conn, toReceiver, num, sent, expected, taken, decryptor,
                     accepted, accidents>>
      /\ \A t \in Senders : t # s => OwnInv(t)' /\ ConnInv(t)'
      /\ TypeOK'
  <2>1. "sending" \in SenderCalls
    BY DEF SenderCalls
  <2>2. QED
    BY <2>1, AnswerRead
<1>2. TypeOK /\ ReceiverInv /\ ReceiverSurvives /\ OwnInv(s) /\ ConnInv(s)
  BY Parts
<1>3. \/ toSender[s] = <<FALSE>> /\ phase'[s] = "returned" /\ accepted # s
      \/ toSender[s] = <<TRUE>> /\ phase'[s] = "sending" /\ accepted = s
  <2>1. \/ toSender[s] = <<FALSE>> /\ accepted # s
        \/ toSender[s] = <<TRUE>> /\ accepted = s
    BY <1>1, <1>2 DEF OwnInv
  <2>2. CASE toSender[s] = <<FALSE>> /\ accepted # s
    <3>1. Head(toSender[s]) = FALSE
      BY <2>2, OneAnswer
    <3>2. QED
      BY <1>1, <2>2, <3>1
  <2>3. CASE toSender[s] = <<TRUE>> /\ accepted = s
    <3>1. Head(toSender[s]) = TRUE
      BY <2>3, OneAnswer
    <3>2. QED
      BY <1>1, <2>3, <3>1
  <2>4. QED
    BY <2>1, <2>2, <2>3
<1>4. OwnInv(s)'
  BY <1>1, <1>2, <1>3 DEF OwnInv, Same, SenderCalls
<1>5. conn[s] # "none" /\ conn[s] # "pending"
  BY <1>1, <1>2 DEF ConnInv, Unconnected, Greeting
<1>6. conn[s] = "open" =>
         \/ phase[Receiver] \in {"receiving", "stuck"} /\ Streaming(s) /\ accepted = s
         \/ At(Receiver, "bind") /\ toSender[s] = <<FALSE>>
  BY <1>1, <1>2, <1>3 DEF ConnInv, Greeting, Asking, Waiting, Streaming, Refused
<1>7. ConnInv(s)'
  <2>1. CASE conn[s] = "open" /\ toSender[s] = <<TRUE>>
    <3>1. phase[Receiver] \in {"receiving", "stuck"} /\ Streaming(s)
      BY <1>6, <2>1
    <3>2. Streaming(s)'
      BY <1>1, <3>1 DEF Streaming, Same
    <3>3. QED
      BY <1>1, <1>3, <2>1, <3>1, <3>2 DEF ConnInv, At
  <2>2. CASE conn[s] = "open" /\ toSender[s] = <<FALSE>>
    <3>1. phase[Receiver] = "bind" /\ phase'[s] = "returned"
      BY <1>3, <1>6, <2>2 DEF At
    <3>2. QED
      BY <1>1, <2>2, <3>1 DEF ConnInv, Refused, At
  <2>3. CASE conn[s] # "open"
    <3>1. conn'[s] # "open" /\ conn'[s] # "none" /\ conn'[s] # "pending"
          /\ phase'[s] # "connect"
      BY <1>1, <1>3, <1>5, <2>3
    <3>2. QED
      BY <3>1 DEF ConnInv
  <2>4. QED
    BY <1>3, <2>1, <2>2, <2>3
<1>8. ReceiverInv' /\ ReceiverSurvives'
  <2>1. \A t \in Senders : At(t, "gone") => At(t, "gone")'
    BY <1>1, <1>2, Moved DEF At
  <2>2. QED
    BY <1>1, <1>2, <2>1 DEF ReceiverInv, ReceiverSurvives, At
<1>9. QED
  BY <1>1, <1>4, <1>7, <1>8 DEF SessionInv, SenderInv

\* The request goes to the receiver.
LEMMA SendRequestStep == ASSUME SessionInv, NEW s \in Senders, SendRequest(s) PROVE SessionInv'
<1>1. PICK n \in 1..MaxChunks : num' = [num EXCEPT ![s] = n] /\ Write(s, [chunks |-> n])
  BY DEF SendRequest
<1>2. /\ phase[s] = "request" /\ Go(s, "answer") /\ UNCHANGED sent
      /\ TypeOK /\ ReceiverInv /\ ReceiverSurvives /\ OwnInv(s) /\ ConnInv(s)
  BY Parts DEF SendRequest, At
<1>3. [chunks |-> n] \in Messages
  BY DEF Messages
<1>4. /\ toReceiver' \in [Senders -> Seq(Messages)]
      /\ \A t \in Senders : t # s => toReceiver'[t] = toReceiver[t]
      /\ conn[s] # "cut" => toReceiver'[s] = Append(toReceiver[s], [chunks |-> n])
      /\ UNCHANGED <<password, conn, toSender, expected, taken, decryptor, accepted, accidents>>
  BY <1>1, <1>2, <1>3, Written
<1>5. /\ num' \in [Senders -> 0..MaxChunks] /\ num'[s] = n
      /\ \A t \in Senders : t # s => num'[t] = num[t]
  <2>1. num \in [Senders -> 0..MaxChunks] /\ n \in 0..MaxChunks
    BY <1>2, SessionAssumption DEF TypeOK
  <2>2. QED
    BY <1>1, <2>1
<1>6. /\ \A t \in Senders : t # s => OwnInv(t)' /\ ConnInv(t)'
      /\ phase'[Receiver] = phase[Receiver] /\ phase'[s] = "answer"
  BY <1>2, <1>4, <1>5, TheOthers
<1>7. TypeOK'
  <2>1. "answer" \in SenderCalls
    BY DEF SenderCalls
  <2>2. QED
    BY <1>2, <1>4, <1>5, <2>1, Moved DEF TypeOK
<1>8. num[s] = 0 /\ toSender[s] = <<>> /\ Same(s) /\ accepted # s /\ sent[s] = 0
  <2>1. num[s] = 0 /\ toSender[s] = <<>> /\ Same(s) /\ accepted # s
    BY <1>2 DEF OwnInv
  <2>2. QED
    BY <1>2, <2>1 DEF OwnInv
<1>9. OwnInv(s)'
  <2>1. n > 0 /\ 0 <= n
    BY SessionAssumption
  <2>2. QED
    BY <1>2, <1>4, <1>5, <1>6, <1>8, <2>1 DEF OwnInv, Same, SenderCalls
<1>10. ConnInv(s)'
  <2>1. conn[s] # "none" /\ conn[s] # "pending"
    BY <1>2 DEF ConnInv, Unconnected, Greeting
  <2>2. conn[s] = "open" =>
           phase[Receiver] = "request" /\ decryptor = s /\ toReceiver[s] = <<>>
    BY <1>2, <1>8 DEF ConnInv, Greeting, Asking, Waiting, Streaming, Refused, At
  <2>3. conn[s] = "open" => toReceiver'[s] = <<[chunks |-> n]>>
    BY <1>4, <2>2
  <2>4. conn[s] = "open" => Asking(s)'
    <3>1. n > 0
      BY SessionAssumption
    <3>2. QED
      BY <1>4, <1>5, <1>6, <1>8, <2>2, <2>3, <3>1 DEF Asking, Same
  <2>5. QED
    BY <1>4, <1>6, <2>1, <2>2, <2>4 DEF ConnInv, At
<1>11. ReceiverInv' /\ ReceiverSurvives'
  <2>1. \A t \in Senders : At(t, "gone") => At(t, "gone")'
    BY <1>2, Moved DEF At
  <2>2. accepted # Nobody => num'[accepted] = num[accepted]
    BY <1>2, <1>5, <1>8 DEF TypeOK
  <2>3. QED
    BY <1>2, <1>4, <1>6, <2>1, <2>2 DEF ReceiverInv, ReceiverSurvives, At
<1>12. QED
  BY <1>6, <1>7, <1>9, <1>10, <1>11 DEF SessionInv, SenderInv

\* The next packet goes to the receiver, or is lost on a closed connection.
LEMMA SendPacketStep == ASSUME SessionInv, NEW s \in Senders, SendPacket(s) PROVE SessionInv'
<1> DEFINE m == [stream |-> s, chunk |-> sent[s] + 1]
<1>1. /\ phase[s] = "sending" /\ sent[s] < num[s] /\ UNCHANGED <<phase, num>>
      /\ sent' = [sent EXCEPT ![s] = sent[s] + 1] /\ Write(s, m)
      /\ TypeOK /\ ReceiverInv /\ ReceiverSurvives /\ OwnInv(s) /\ ConnInv(s)
  BY Parts DEF SendPacket, At
<1>2. /\ sent \in [Senders -> 0..MaxChunks] /\ sent[s] \in 0..MaxChunks
      /\ num[s] \in 0..MaxChunks /\ sent[s] + 1 \in 1..MaxChunks
      /\ taken \in Nat /\ toReceiver[s] \in Seq(Messages)
  <2>1. sent \in [Senders -> 0..MaxChunks] /\ num \in [Senders -> 0..MaxChunks]
    BY <1>1 DEF TypeOK
  <2>2. sent[s] \in 0..MaxChunks /\ num[s] \in 0..MaxChunks
    BY <2>1
  <2>3. expected \in 0..MaxChunks /\ taken \in 0..expected
    BY <1>1 DEF TypeOK
  <2>4. taken \in Nat
    BY <2>3, SessionAssumption
  <2>5. toReceiver[s] \in Seq(Messages)
    BY <1>1 DEF TypeOK
  <2>6. QED
    BY <1>1, <2>1, <2>2, <2>4, <2>5, SessionAssumption
<1>3. /\ sent' \in [Senders -> 0..MaxChunks] /\ sent'[s] = sent[s] + 1
      /\ \A t \in Senders : t # s => sent'[t] = sent[t]
  <2>1. sent[s] + 1 \in 0..MaxChunks
    BY <1>2, SessionAssumption
  <2>2. QED
    BY <1>1, <1>2, <2>1
<1>4. m \in Messages
  BY <1>2 DEF Messages
<1>5. /\ toReceiver' \in [Senders -> Seq(Messages)]
      /\ \A t \in Senders : t # s => toReceiver'[t] = toReceiver[t]
      /\ conn[s] # "cut" => toReceiver'[s] = Append(toReceiver[s], m)
      /\ UNCHANGED <<password, conn, toSender, expected, taken, decryptor, accepted, accidents>>
  BY <1>1, <1>4, Written
<1>6. \A t \in Senders : t # s => OwnInv(t)' /\ ConnInv(t)'
  BY <1>1, <1>3, <1>5, Parts, Unmoved
<1>7. TypeOK'
  BY <1>1, <1>3, <1>5 DEF TypeOK
<1>8. accepted = s /\ conn[s] \in {"open", "cut"} /\ num[s] > 0 /\ Same(s)
  <2>1. accepted = s
    BY <1>1 DEF OwnInv
  <2>2. QED
    BY <1>1, <2>1 DEF OwnInv
<1>9. OwnInv(s)'
  <2>1. sent[s] + 1 <= num[s]
    BY <1>1, <1>2
  <2>2. QED
    BY <1>1, <1>3, <1>5, <1>8, <2>1 DEF OwnInv, Same
<1>10. ConnInv(s)'
  <2>1. CASE conn[s] = "open"
    <3>1. phase[Receiver] \in {"receiving", "stuck"} /\ Streaming(s)
      <4>1. accepted # Nobody
        BY <1>8, SessionAssumption
      <4>2. phase[Receiver] \notin {"handshake", "request", "prompt", "bind"}
        BY <1>1, <4>1 DEF ReceiverInv
      <4>3. QED
        BY <1>1, <2>1, <4>2 DEF ConnInv, At
    <3>2. /\ taken + Len(toReceiver[s]) = sent[s]
          /\ \A i \in 1..Len(toReceiver[s]) :
                toReceiver[s][i] = [stream |-> s, chunk |-> taken + i]
          /\ accepted = s /\ decryptor = s /\ expected = num[s]
      BY <3>1 DEF Streaming
    <3>3. /\ Len(toReceiver'[s]) = Len(toReceiver[s]) + 1
          /\ \A i \in 1..Len(toReceiver[s]) : toReceiver'[s][i] = toReceiver[s][i]
          /\ toReceiver'[s][Len(toReceiver[s]) + 1] = m
      <4>1. toReceiver'[s] = Append(toReceiver[s], m)
        BY <1>5, <2>1
      <4> HIDE DEF m
      <4>2. QED
        BY <1>2, <1>4, <4>1
    <3>4. Len(toReceiver[s]) \in Nat
      BY <1>2
    <3>5. taken + Len(toReceiver'[s]) = sent[s] + 1
      BY <1>2, <3>2, <3>3, <3>4
    <3>6. m = [stream |-> s, chunk |-> taken + (Len(toReceiver[s]) + 1)]
      <4>1. sent[s] + 1 = taken + (Len(toReceiver[s]) + 1)
        BY <1>2, <3>2, <3>4
      <4>2. QED
        BY <4>1
    <3>7. ASSUME NEW i \in 1..Len(toReceiver'[s])
          PROVE  toReceiver'[s][i] = [stream |-> s, chunk |-> taken + i]
      <4>1. i \in 1..Len(toReceiver[s]) \/ i = Len(toReceiver[s]) + 1
        BY <3>3, <3>4
      <4>2. CASE i \in 1..Len(toReceiver[s])
        BY <3>2, <3>3, <4>2
      <4>3. CASE i = Len(toReceiver[s]) + 1
        BY <3>3, <3>6, <4>3
      <4>4. QED
        BY <4>1, <4>2, <4>3
    <3>8. Streaming(s)'
      BY <1>1, <1>3, <1>5, <1>8, <3>2, <3>5, <3>7 DEF Streaming, Same
    <3>9. QED
      BY <1>1, <1>5, <2>1, <3>1, <3>8 DEF ConnInv, At
  <2>2. CASE conn[s] = "cut"
    BY <1>1, <1>5, <2>2 DEF ConnInv
  <2>3. QED
    BY <1>8, <2>1, <2>2
<1>11. ReceiverInv'
  <2>1. accepted # Nobody
    BY <1>8, SessionAssumption
  <2>2. taken <= sent[s] + 1
    BY <1>1, <1>2, <1>8, <2>1 DEF ReceiverInv
  <2>3. QED
    BY <1>1, <1>3, <1>5, <1>8, <2>1, <2>2 DEF ReceiverInv
<1>12. ReceiverSurvives'
  BY <1>1, <1>5 DEF ReceiverSurvives, At
<1>13. QED
  BY <1>6, <1>7, <1>9, <1>10, <1>11, <1>12 DEF SessionInv, SenderInv
-----------------------------------------------------------------------------
\* The receiver closes its connection, and listens again, is done, or is gone.
LEMMA HangUps ==
    ASSUME SessionInv, NEW l, Go(Receiver, l), HangUp,
           UNCHANGED <<password, wires, plans, intake>>,
           accidents' \in 0..MaxAccidents, accidents' >= accidents,
           \/ phase[Receiver] = "bind" /\ l = "accept"
           \/ phase[Receiver] = "receiving" /\ l \in {"complete", "failed"}
           \/ /\ l = "gone"
              /\ accidents' > 0 \/ \E s \in Senders : phase[s] = "gone" /\ conn[s] = "open"
    PROVE  SessionInv'
<1>1. /\ UNCHANGED <<password, toReceiver, toSender, num, sent, expected, taken,
                     decryptor, accepted>>
      /\ TypeOK /\ ReceiverInv /\ ReceiverSurvives
      /\ \A t \in Senders : OwnInv(t) /\ ConnInv(t)
  BY Parts DEF wires, plans, intake
<1>2. l \in ReceiverCalls
  BY DEF ReceiverCalls
<1>3. /\ phase'[Receiver] = l
      /\ \A t \in Senders : phase'[t] = phase[t]
      /\ phase' \in [Senders \cup {Receiver} ->
            Over \cup {"connect", "handshake", "verdict", "request", "answer",
                       "sending", "stuck", "bind", "accept", "prompt", "receiving"}]
  BY <1>1, <1>2, Moved, SessionAssumption
<1>4. \A t \in Senders :
         conn'[t] = IF conn[t] \in {"open", "pending"} THEN "cut" ELSE conn[t]
  BY DEF HangUp
<1>5. conn' \in [Senders -> {"none", "pending", "open", "cut"}]
      /\ \A t \in Senders : conn'[t] # "open"
  <2>1. conn \in [Senders -> {"none", "pending", "open", "cut"}]
    BY <1>1 DEF TypeOK
  <2>2. QED
    BY <1>4, <2>1 DEF HangUp
<1>6. TypeOK'
  BY <1>1, <1>3, <1>5 DEF TypeOK
<1>7. \A t \in Senders : OwnInv(t)' /\ ConnInv(t)'
  BY <1>1, <1>3, <1>4, Dropped
<1>8. ReceiverInv'
  <2>1. phase[Receiver] = "bind" => accepted = Nobody
    BY <1>1 DEF ReceiverInv
  <2>2. phase[Receiver] = "receiving" => accepted # Nobody
    BY <1>1 DEF ReceiverInv
  <2>3. QED
    BY <1>1, <1>2, <1>3, <2>1, <2>2 DEF ReceiverInv
<1>9. ReceiverSurvives'
  <2>1. CASE l # "gone"
    BY <1>3, <2>1 DEF ReceiverSurvives, At
  <2>2. CASE l = "gone" /\ accidents' > 0
    BY <2>2 DEF ReceiverSurvives
  <2>3. CASE l = "gone" /\ \E s \in Senders : phase[s] = "gone" /\ conn[s] = "open"
    <3>1. PICK s \in Senders : phase[s] = "gone" /\ conn[s] = "open"
      BY <2>3
    <3>2. phase'[s] = "gone" /\ conn'[s] = "cut"
      BY <1>3, <1>4, <3>1
    <3>3. QED
      BY <3>2 DEF ReceiverSurvives, At
  <2>4. QED
    BY <2>1, <2>2, <2>3
<1>10. QED
  BY <1>6, <1>7, <1>8, <1>9 DEF SessionInv, SenderInv

\* The receiver's pipeline does not return; the connection stays open.
LEMMA ReceiverStuck ==
    ASSUME SessionInv, Only(Receiver, "receiving", "stuck"), UNCHANGED conn PROVE SessionInv'
<1>1. /\ UNCHANGED <<password, conn, toReceiver, toSender, num, sent, expected, taken,
                     decryptor, accepted, accidents>>
      /\ phase[Receiver] = "receiving" /\ Go(Receiver, "stuck")
      /\ TypeOK /\ ReceiverInv /\ ReceiverSurvives
      /\ \A t \in Senders : OwnInv(t) /\ ConnInv(t)
  BY Parts DEF Only, At, wires, plans, intake
<1>2. /\ phase'[Receiver] = "stuck"
      /\ \A t \in Senders : phase'[t] = phase[t]
      /\ TypeOK'
  <2>1. "stuck" \in ReceiverCalls
    BY DEF ReceiverCalls
  <2>2. QED
    BY <1>1, <2>1, Moved, SessionAssumption DEF TypeOK
<1>3. ASSUME NEW t \in Senders PROVE OwnInv(t)' /\ ConnInv(t)'
  <2>1. CASE conn[t] = "open"
    <3>1. Streaming(t) /\ phase[t] # "connect"
      BY <1>1, <2>1 DEF ConnInv, At
    <3>2. OwnInv(t)'
      BY <1>1, <1>2 DEF OwnInv, Same
    <3>3. Streaming(t)'
      BY <1>1, <3>1 DEF Streaming, Same
    <3>4. QED
      BY <1>1, <1>2, <2>1, <3>1, <3>2, <3>3 DEF ConnInv
  <2>2. CASE conn[t] # "open"
    <3>1. conn[t] \in {"none", "cut"}
      BY <1>1, <2>2 DEF ConnInv, At, TypeOK
    <3>2. QED
      BY <1>1, <1>2, <3>1, Aside
  <2>3. QED
    BY <2>1, <2>2
<1>4. ReceiverInv' /\ ReceiverSurvives'
  BY <1>1, <1>2 DEF ReceiverInv, ReceiverSurvives, At, ReceiverCalls
<1>5. QED
  BY <1>2, <1>3, <1>4 DEF SessionInv, SenderInv

\* One connection is accepted; those behind it are reset.
LEMMA AcceptStep == ASSUME SessionInv, NEW s \in Senders, Accept(s) PROVE SessionInv'
<1>1. /\ UNCHANGED <<password, toReceiver, toSender, num, sent, expected, taken,
                     decryptor, accepted, accidents>>
      /\ phase[Receiver] = "accept" /\ Go(Receiver, "handshake") /\ conn[s] = "pending"
      /\ conn' = [t \in Senders |-> IF t = s THEN "open" ELSE Behind(conn[t])]
      /\ TypeOK /\ ReceiverInv /\ ReceiverSurvives
      /\ \A t \in Senders : OwnInv(t) /\ ConnInv(t)
  BY Parts DEF Accept, Only, At, wires, plans, intake
<1>2. "handshake" \in ReceiverCalls
  BY DEF ReceiverCalls
<1>3. /\ phase'[Receiver] = "handshake"
      /\ \A t \in Senders : phase'[t] = phase[t]
      /\ phase' \in [Senders \cup {Receiver} ->
            Over \cup {"connect", "handshake", "verdict", "request", "answer",
                       "sending", "stuck", "bind", "accept", "prompt", "receiving"}]
  BY <1>1, <1>2, Moved, SessionAssumption
<1>4. \A t \in Senders : conn[t] # "open" /\ conn[t] \in {"none", "pending", "open", "cut"}
  BY <1>1 DEF ConnInv, At, TypeOK
<1>5. /\ conn'[s] = "open"
      /\ \A t \in Senders : t # s =>
            conn'[t] = IF conn[t] \in {"open", "pending"} THEN "cut" ELSE conn[t]
  BY <1>1, <1>4 DEF Behind
<1>6. TypeOK'
  <2>1. conn' \in [Senders -> {"none", "pending", "open", "cut"}]
    BY <1>1, <1>4 DEF Behind
  <2>2. \A t, u \in Senders : conn'[t] = "open" /\ conn'[u] = "open" => t = u
    BY <1>4, <1>5
  <2>3. QED
    BY <1>1, <1>3, <2>1, <2>2 DEF TypeOK
<1>7. \A t \in Senders : t # s => OwnInv(t)' /\ ConnInv(t)'
  BY <1>1, <1>3, <1>5, Dropped
<1>8. OwnInv(s)' /\ ConnInv(s)'
  <2>1. Greeting(s) /\ accepted # s
    BY <1>1 DEF ConnInv, OwnInv
  <2>2. Greeting(s)'
    BY <1>1, <1>3, <2>1 DEF Greeting, Handshake
  <2>3. phase[s] # "connect"
    BY <2>1 DEF Greeting
  <2>4. OwnInv(s)'
    BY <1>1, <1>3, <2>1 DEF OwnInv, Same
  <2>5. QED
    BY <1>3, <1>5, <2>2, <2>3, <2>4 DEF ConnInv, At
<1>9. ReceiverInv' /\ ReceiverSurvives'
  BY <1>1, <1>3 DEF ReceiverInv, ReceiverSurvives, At, ReceiverCalls
<1>10. QED
  BY <1>6, <1>7, <1>8, <1>9 DEF SessionInv, SenderInv

\* An answer that goes to a sender that has none waiting.
LEMMA Replied ==
    ASSUME TypeOK, NEW s \in Senders, NEW yes \in BOOLEAN, Reply(s, yes), toSender[s] = <<>>
    PROVE  /\ toSender' \in [Senders -> Seq(BOOLEAN)] /\ toSender'[s] = <<yes>>
           /\ \A t \in Senders : t # s => toSender'[t] = toSender[t]
<1>1. toSender \in [Senders -> Seq(BOOLEAN)]
  BY DEF TypeOK
<1>2. toSender' = [toSender EXCEPT ![s] = Append(toSender[s], yes)]
  BY DEF Reply
<1>3. /\ toSender' \in [Senders -> Seq(BOOLEAN)] /\ toSender'[s] = Append(toSender[s], yes)
      /\ \A t \in Senders : t # s => toSender'[t] = toSender[t]
  BY <1>1, <1>2, QueueTypes
<1>4. Append(<<>>, yes) = <<yes>>
  OBVIOUS
<1>5. QED
  BY <1>3, <1>4

\* The message that is read leaves its queue, and no other queue changes.
LEMMA Arrived ==
    ASSUME TypeOK, NEW s \in Senders, NEW c, Arrives(s, c)
    PROVE  /\ phase[Receiver] = c /\ conn[s] = "open" /\ toReceiver[s] # <<>>
           /\ toReceiver' \in [Senders -> Seq(Messages)]
           /\ toReceiver'[s] = Tail(toReceiver[s])
           /\ \A t \in Senders : t # s => toReceiver'[t] = toReceiver[t]
<1>1. toReceiver \in [Senders -> Seq(Messages)] /\ toReceiver[s] # <<>>
  BY DEF TypeOK, Arrives
<1>2. PICK m \in Messages : TRUE
  <2>1. [chunks |-> 1] \in Messages
    BY SessionAssumption DEF Messages
  <2>2. QED
    BY <2>1
<1>3. toReceiver' = [toReceiver EXCEPT ![s] = Tail(toReceiver[s])]
  BY DEF Arrives
<1>4. QED
  BY <1>1, <1>2, <1>3, QueueTypes DEF Arrives, At

\* The receiver serves s: the other senders have no part in it.
LEMMA Served ==
    ASSUME SessionInv, NEW s \in Senders, conn[s] = "open", UNCHANGED <<password, conn, num, sent>>,
           \A t \in Senders : phase'[t] = phase[t],
           \A t \in Senders : t # s =>
              toReceiver'[t] = toReceiver[t] /\ toSender'[t] = toSender[t],
           accepted' = accepted \/ (accepted = Nobody /\ accepted' = s)
    PROVE  \A t \in Senders : t # s => OwnInv(t)' /\ ConnInv(t)'
<1>1. ASSUME NEW t \in Senders, t # s PROVE OwnInv(t)' /\ ConnInv(t)'
  <2>1. conn[t] \in {"none", "cut"}
    BY <1>1, TheOpenOne
  <2>2. accepted' = t <=> accepted = t
    BY <1>1, SessionAssumption
  <2>3. OwnInv(t) /\ ConnInv(t)
    BY Parts
  <2>4. QED
    BY <1>1, <2>1, <2>2, <2>3, Aside
<1>2. QED
  BY <1>1

\* The handshake is verified, and answered.
LEMMA ReceiveHandshakeStep == ASSUME SessionInv, NEW s \in Senders, ReceiveHandshake(s) PROVE SessionInv'
<1>1. /\ Arrives(s, "handshake")
      /\ UNCHANGED <<password, conn, num, sent, expected, taken, accepted, accidents>>
      /\ TypeOK /\ ReceiverInv /\ ReceiverSurvives /\ OwnInv(s) /\ ConnInv(s)
  BY Parts DEF ReceiveHandshake, plans
<1>2. /\ phase[Receiver] = "handshake" /\ conn[s] = "open" /\ toReceiver[s] # <<>>
      /\ toReceiver' \in [Senders -> Seq(Messages)]
      /\ toReceiver'[s] = Tail(toReceiver[s])
      /\ \A t \in Senders : t # s => toReceiver'[t] = toReceiver[t]
  BY <1>1, Arrived
<1>3. Greeting(s)
  BY <1>1, <1>2 DEF ConnInv, At
<1>4. /\ num[s] = 0 /\ toSender[s] = <<>> /\ phase[s] \in {"verdict", "gone"}
      /\ toReceiver[s] = <<Handshake(s)>>
  BY <1>2, <1>3 DEF Greeting
<1>5. Head(toReceiver[s]) = Handshake(s) /\ toReceiver'[s] = <<>>
  BY <1>2, <1>4, OneAnswer
<1> DEFINE ok == Verifies(Key(password[Receiver], Handshake(s).salt), Handshake(s).tag)
<1>6. /\ Reply(s, ok) /\ decryptor' = StreamAfter(ok, Handshake(s).header)
      /\ Go(Receiver, AfterHandshake(ok))
  BY <1>5 DEF ReceiveHandshake
<1>7. Handshake(s).salt = s /\ Handshake(s).header = s /\ Handshake(s).tag = Key(password[s], s)
  BY DEF Handshake
<1>8. ok \in BOOLEAN /\ (ok <=> Same(s))
  BY <1>7 DEF Verifies, Key, Same
<1>9. decryptor' = (IF ok THEN s ELSE Nobody)
  BY <1>6, <1>7 DEF StreamAfter
<1> DEFINE l == AfterHandshake(ok)
<1>10. l = IF ok THEN "request" ELSE "bind"
  BY DEF AfterHandshake
<1>11. /\ toSender' \in [Senders -> Seq(BOOLEAN)] /\ toSender'[s] = <<ok>>
       /\ \A t \in Senders : t # s => toSender'[t] = toSender[t]
  BY <1>1, <1>4, <1>6, <1>8, Replied
<1>12. Go(Receiver, l) /\ l \in ReceiverCalls
  BY <1>6, <1>10 DEF ReceiverCalls
<1> HIDE DEF ok, l
<1>13. /\ phase'[Receiver] = l
       /\ \A t \in Senders : phase'[t] = phase[t]
       /\ phase' \in [Senders \cup {Receiver} ->
             Over \cup {"connect", "handshake", "verdict", "request", "answer",
                        "sending", "stuck", "bind", "accept", "prompt", "receiving"}]
  BY <1>1, <1>12, Moved, SessionAssumption
<1>14. TypeOK'
  BY <1>1, <1>2, <1>9, <1>11, <1>13 DEF TypeOK
<1>15. \A t \in Senders : t # s => OwnInv(t)' /\ ConnInv(t)'
  BY <1>1, <1>2, <1>11, <1>13, Served
<1>16. accepted # s /\ accepted = Nobody /\ taken = 0
  BY <1>2, NotYet
<1>17. ok = TRUE \/ ok = FALSE
  BY <1>8
<1>18. OwnInv(s)'
  <2>1. phase'[s] = "verdict" =>
           toSender'[s] \in {<<>>, <<FALSE>>} \/ (toSender'[s] = <<TRUE>> /\ Same(s)')
    BY <1>1, <1>8, <1>11, <1>17 DEF Same
  <2>2. QED
    BY <1>1, <1>4, <1>13, <1>16, <2>1 DEF OwnInv, Same
<1>19. ConnInv(s)'
  <2>1. CASE ok
    <3>1. l = "request" /\ decryptor' = s /\ Same(s) /\ toSender'[s] = <<TRUE>>
      BY <1>8, <1>9, <1>10, <1>11, <1>17, <2>1
    <3>2. Asking(s)'
      BY <1>1, <1>4, <1>5, <1>13, <3>1 DEF Asking, Same
    <3>3. QED
      BY <1>1, <1>2, <1>4, <1>13, <3>1, <3>2 DEF ConnInv, At
  <2>2. CASE ~ok
    <3>1. l = "bind" /\ toSender'[s] = <<FALSE>>
      BY <1>10, <1>11, <1>17, <2>2
    <3>2. Refused(s)'
      BY <1>4, <1>13, <3>1 DEF Refused
    <3>3. QED
      BY <1>1, <1>2, <1>4, <1>13, <3>1, <3>2 DEF ConnInv, At
  <2>3. QED
    BY <2>1, <2>2
<1>20. ReceiverInv' /\ ReceiverSurvives'
  <2>1. l \in {"request", "bind"}
    BY <1>10
  <2>2. QED
    BY <1>1, <1>13, <1>16, <2>1 DEF ReceiverInv, ReceiverSurvives, At, ReceiverCalls
<1>21. QED
  BY <1>14, <1>15, <1>18, <1>19, <1>20 DEF SessionInv, SenderInv

\* The request is read.
LEMMA ReceiveRequestStep == ASSUME SessionInv, NEW s \in Senders, ReceiveRequest(s) PROVE SessionInv'
<1>1. /\ Arrives(s, "request") /\ Go(Receiver, "prompt")
      /\ expected' = Head(toReceiver[s]).chunks
      /\ UNCHANGED <<password, conn, toSender, num, sent, taken, decryptor, accepted, accidents>>
      /\ TypeOK /\ ReceiverInv /\ ReceiverSurvives /\ OwnInv(s) /\ ConnInv(s)
  BY Parts DEF ReceiveRequest, plans
<1>2. /\ phase[Receiver] = "request" /\ conn[s] = "open" /\ toReceiver[s] # <<>>
      /\ toReceiver' \in [Senders -> Seq(Messages)]
      /\ toReceiver'[s] = Tail(toReceiver[s])
      /\ \A t \in Senders : t # s => toReceiver'[t] = toReceiver[t]
  BY <1>1, Arrived
<1>3. Asking(s)
  BY <1>1, <1>2 DEF ConnInv, At
<1>4. /\ decryptor = s /\ Same(s) /\ num[s] > 0 /\ toReceiver[s] = <<[chunks |-> num[s]]>>
      /\ (phase[s] = "answer" /\ toSender[s] = <<>>) \/ phase[s] = "gone"
  BY <1>2, <1>3 DEF Asking
<1>5. expected' = num[s] /\ toReceiver'[s] = <<>>
  <2>1. Head(toReceiver[s]) = [chunks |-> num[s]] /\ toReceiver'[s] = <<>>
    BY <1>2, <1>4, OneAnswer
  <2>2. QED
    BY <1>1, <2>1
<1>6. "prompt" \in ReceiverCalls
  BY DEF ReceiverCalls
<1>7. /\ phase'[Receiver] = "prompt"
      /\ \A t \in Senders : phase'[t] = phase[t]
      /\ phase' \in [Senders \cup {Receiver} ->
            Over \cup {"connect", "handshake", "verdict", "request", "answer",
                       "sending", "stuck", "bind", "accept", "prompt", "receiving"}]
  BY <1>1, <1>6, Moved, SessionAssumption
<1>8. accepted # s /\ accepted = Nobody /\ taken = 0
  BY <1>2, NotYet
<1>9. TypeOK'
  <2>1. num[s] \in 0..MaxChunks
    BY <1>1 DEF TypeOK
  <2>2. expected' \in 0..MaxChunks /\ taken' \in 0..expected'
    BY <1>1, <1>5, <1>8, <2>1, SessionAssumption
  <2>3. QED
    BY <1>1, <1>2, <1>7, <2>2 DEF TypeOK
<1>10. \A t \in Senders : t # s => OwnInv(t)' /\ ConnInv(t)'
  BY <1>1, <1>2, <1>7, Served
<1>11. OwnInv(s)'
  BY <1>1, <1>7 DEF OwnInv, Same
<1>12. ConnInv(s)'
  <2>1. Waiting(s)'
    BY <1>1, <1>4, <1>5, <1>7 DEF Waiting, Same
  <2>2. QED
    BY <1>1, <1>2, <1>4, <1>7, <2>1 DEF ConnInv, At
<1>13. ReceiverInv' /\ ReceiverSurvives'
  BY <1>1, <1>7, <1>8 DEF ReceiverInv, ReceiverSurvives, At, ReceiverCalls
<1>14. QED
  BY <1>9, <1>10, <1>11, <1>12, <1>13 DEF SessionInv, SenderInv

\* The user accepts the request or declines it.
LEMMA AnswerStep ==
    ASSUME SessionInv, NEW s \in Senders, NEW yes \in BOOLEAN, Answer(s, yes) PROVE SessionInv'
<1>1. /\ phase[Receiver] = "prompt" /\ conn[s] = "open" /\ Reply(s, yes)
      /\ accepted' = IF yes THEN s ELSE accepted
      /\ UNCHANGED <<password, conn, toReceiver, num, sent, expected, taken, decryptor,
                     accidents>>
      /\ TypeOK /\ ReceiverInv /\ ReceiverSurvives /\ OwnInv(s) /\ ConnInv(s)
  BY Parts DEF Answer, At, plans
<1>2. Waiting(s)
  BY <1>1 DEF ConnInv, At
<1>3. toSender[s] = <<>> \/ phase[s] = "gone"
  BY <1>2 DEF Waiting
<1> DEFINE l == IF yes THEN "receiving" ELSE "bind"
<1>4. Go(Receiver, l) /\ l \in ReceiverCalls
  BY DEF Answer, ReceiverCalls
<1>5. accepted = Nobody /\ accepted # s /\ taken = 0 /\ sent[s] = 0
  BY <1>1, NotYet DEF OwnInv
<1>6. /\ phase'[Receiver] = l
      /\ \A t \in Senders : phase'[t] = phase[t]
      /\ phase' \in [Senders \cup {Receiver} ->
            Over \cup {"connect", "handshake", "verdict", "request", "answer",
                       "sending", "stuck", "bind", "accept", "prompt", "receiving"}]
  BY <1>1, <1>4, Moved, SessionAssumption
<1>7. /\ toSender' \in [Senders -> Seq(BOOLEAN)]
      /\ \A t \in Senders : t # s => toSender'[t] = toSender[t]
  <2>1. toSender \in [Senders -> Seq(BOOLEAN)]
    BY <1>1 DEF TypeOK
  <2>2. toSender' = [toSender EXCEPT ![s] = Append(toSender[s], yes)]
    BY <1>1 DEF Reply
  <2>3. QED
    BY <2>1, <2>2, QueueTypes
<1>8. toSender[s] = <<>> => toSender'[s] = <<yes>>
  BY <1>1, Replied
<1>9. yes = TRUE \/ yes = FALSE
  OBVIOUS
<1>10. TypeOK'
  <2>1. accepted' \in Senders \cup {Nobody}
    BY <1>1, <1>5
  <2>2. QED
    BY <1>1, <1>6, <1>7, <2>1 DEF TypeOK
<1>11. \A t \in Senders : t # s => OwnInv(t)' /\ ConnInv(t)'
  <2>1. accepted' = accepted \/ (accepted = Nobody /\ accepted' = s)
    BY <1>1, <1>5
  <2>2. QED
    BY <1>1, <1>6, <1>7, <2>1, Served
<1>12. OwnInv(s)' /\ ConnInv(s)' /\ ReceiverInv'
  <2>1. /\ decryptor = s /\ Same(s) /\ num[s] > 0 /\ expected = num[s] /\ toReceiver[s] = <<>>
        /\ phase[s] \in {"answer", "gone"}
    BY <1>2 DEF Waiting
  <2>2. CASE yes
    <3>1. accepted' = s /\ l = "receiving"
      BY <1>1, <2>2
    <3>2. phase'[s] = "answer" => toSender'[s] = <<TRUE>>
      BY <1>3, <1>6, <1>8, <1>9, <2>2
    <3>3. OwnInv(s)'
      BY <1>1, <1>5, <1>6, <2>1, <3>1, <3>2 DEF OwnInv, Same
    <3>4. Streaming(s)'
      <4>1. Len(toReceiver[s]) = 0
        BY <2>1
      <4>2. taken + Len(toReceiver[s]) = sent[s]
        BY <1>5, <4>1
      <4>3. \A i \in 1..Len(toReceiver[s]) :
               toReceiver[s][i] = [stream |-> s, chunk |-> taken + i]
        BY <4>1
      <4>4. QED
        BY <1>1, <2>1, <3>1, <4>2, <4>3 DEF Streaming, Same
    <3>5. ConnInv(s)'
      BY <1>1, <1>6, <2>1, <3>1, <3>4 DEF ConnInv, At
    <3>6. ReceiverInv'
      <4>1. s # Nobody
        BY SessionAssumption
      <4>2. QED
        BY <1>1, <1>5, <1>6, <2>1, <3>1, <4>1 DEF ReceiverInv, ReceiverCalls
    <3>7. QED
      BY <3>3, <3>5, <3>6
  <2>3. CASE ~yes
    <3>1. accepted' = Nobody /\ l = "bind" /\ accepted' # s
      BY <1>1, <1>5, <2>3
    <3>2. phase'[s] = "answer" => toSender'[s] = <<FALSE>>
      BY <1>3, <1>6, <1>8, <1>9, <2>3
    <3>3. OwnInv(s)'
      BY <1>1, <1>5, <1>6, <2>1, <3>1, <3>2 DEF OwnInv, Same
    <3>4. Refused(s)'
      BY <1>6, <2>1, <3>2 DEF Refused
    <3>5. ConnInv(s)'
      BY <1>1, <1>6, <2>1, <3>1, <3>4 DEF ConnInv, At
    <3>6. ReceiverInv'
      BY <1>1, <1>5, <1>6, <3>1 DEF ReceiverInv, ReceiverCalls
    <3>7. QED
      BY <3>3, <3>5, <3>6
  <2>4. QED
    BY <2>2, <2>3
<1>13. ReceiverSurvives'
  BY <1>6 DEF ReceiverSurvives, At
<1>14. QED
  BY <1>10, <1>11, <1>12, <1>13 DEF SessionInv, SenderInv

\* The next packet of the stream is taken.
LEMMA TakePacketStep == ASSUME SessionInv, NEW s \in Senders, TakePacket(s) PROVE SessionInv'
<1>1. /\ Arrives(s, "receiving") /\ taken < expected /\ taken' = taken + 1
      /\ UNCHANGED <<password, phase, conn, toSender, num, sent, expected, decryptor, accepted,
                     accidents>>
      /\ TypeOK /\ ReceiverInv /\ ReceiverSurvives /\ OwnInv(s) /\ ConnInv(s)
  BY Parts DEF TakePacket, plans
<1>2. /\ phase[Receiver] = "receiving" /\ conn[s] = "open" /\ toReceiver[s] # <<>>
      /\ toReceiver' \in [Senders -> Seq(Messages)]
      /\ toReceiver'[s] = Tail(toReceiver[s])
      /\ \A t \in Senders : t # s => toReceiver'[t] = toReceiver[t]
  BY <1>1, Arrived
<1>3. /\ accepted = s /\ decryptor = s /\ Same(s) /\ expected = num[s]
      /\ taken + Len(toReceiver[s]) = sent[s]
      /\ \A i \in 1..Len(toReceiver[s]) : toReceiver[s][i] = [stream |-> s, chunk |-> taken + i]
  BY <1>1, <1>2 DEF ConnInv, At, Streaming
<1>4. toReceiver[s] \in Seq(Messages) /\ sent[s] \in Nat /\ taken \in Nat /\ expected \in Nat
  <2>1. sent[s] \in 0..MaxChunks /\ expected \in 0..MaxChunks /\ taken \in 0..expected
    BY <1>1 DEF TypeOK
  <2>2. toReceiver[s] \in Seq(Messages)
    BY <1>1 DEF TypeOK
  <2>3. QED
    BY <2>1, <2>2, SessionAssumption
<1>5. /\ Len(toReceiver[s]) \in Nat /\ Len(toReceiver[s]) >= 1
      /\ Len(toReceiver'[s]) = Len(toReceiver[s]) - 1
      /\ \A i \in 1..Len(toReceiver'[s]) : toReceiver'[s][i] = toReceiver[s][i + 1]
  BY <1>2, <1>4
<1>6. TypeOK'
  <2>1. taken' \in 0..expected'
    BY <1>1, <1>4
  <2>2. QED
    BY <1>1, <1>2, <2>1 DEF TypeOK
<1>7. \A t \in Senders : t # s => OwnInv(t)' /\ ConnInv(t)'
  BY <1>1, <1>2, Served
<1>8. OwnInv(s)'
  BY <1>1 DEF OwnInv, Same
<1>9. ConnInv(s)'
  <2>1. taken' + Len(toReceiver'[s]) = sent[s]
    <3>1. taken' = taken + 1 /\ taken + Len(toReceiver[s]) = sent[s]
      BY <1>1, <1>3
    <3>2. taken \in Nat /\ Len(toReceiver[s]) \in Nat
      BY <1>4, <1>5
    <3>3. Len(toReceiver'[s]) = Len(toReceiver[s]) - 1
      BY <1>5
    <3>4. \A a, b \in Nat : (a + 1) + (b - 1) = a + b
      OBVIOUS
    <3>5. QED
      BY <3>1, <3>2, <3>3, <3>4
  <2>2. ASSUME NEW i \in 1..Len(toReceiver'[s])
        PROVE  toReceiver'[s][i] = [stream |-> s, chunk |-> taken' + i]
    <3>1. i + 1 \in 1..Len(toReceiver[s]) /\ taken + (i + 1) = taken' + i
      <4>1. taken' = taken + 1 /\ taken \in Nat /\ Len(toReceiver[s]) \in Nat
        BY <1>1, <1>4, <1>5
      <4>2. i \in 1..(Len(toReceiver[s]) - 1)
        BY <1>5
      <4>3. \A a, b \in Nat : \A j \in 1..(b - 1) :
               j + 1 \in 1..b /\ a + (j + 1) = (a + 1) + j
        OBVIOUS
      <4>4. QED
        BY <4>1, <4>2, <4>3, Zenon
    <3>2. toReceiver[s][i + 1] = [stream |-> s, chunk |-> taken + (i + 1)]
      BY <1>3, <3>1
    <3>3. QED
      BY <1>5, <3>1, <3>2
  <2>3. Streaming(s)'
    BY <1>1, <1>3, <2>1, <2>2 DEF Streaming, Same
  <2>4. phase[s] # "connect"
    BY <1>1, <1>2 DEF ConnInv
  <2>5. QED
    BY <1>1, <1>2, <2>3, <2>4 DEF ConnInv, At
<1>10. ReceiverInv'
  <2>1. accepted # Nobody
    BY <1>3, SessionAssumption
  <2>2. taken' <= sent[s]
    BY <1>1, <1>3, <1>4, <1>5
  <2>3. QED
    BY <1>1, <1>2, <1>3, <2>1, <2>2 DEF ReceiverInv
<1>11. ReceiverSurvives'
  BY <1>1 DEF ReceiverSurvives, At
<1>12. QED
  BY <1>6, <1>7, <1>8, <1>9, <1>10, <1>11 DEF SessionInv, SenderInv
-----------------------------------------------------------------------------
\* At first nobody has connected.
LEMMA InitStep == ASSUME Init PROVE SessionInv
<1>1. /\ phase[Receiver] = "bind"
      /\ \A s \in Senders :
            /\ phase[s] = "connect" /\ conn[s] = "none" /\ num[s] = 0 /\ sent[s] = 0
            /\ toReceiver[s] = <<>> /\ toSender[s] = <<>>
  BY SessionAssumption DEF Init
<1>2. accepted = Nobody /\ taken = 0 /\ \A s \in Senders : accepted # s
  BY SessionAssumption DEF Init
<1>3. TypeOK
  <2>1. toReceiver \in [Senders -> Seq(Messages)] /\ toSender \in [Senders -> Seq(BOOLEAN)]
    BY DEF Init
  <2>2. num \in [Senders -> 0..MaxChunks] /\ sent \in [Senders -> 0..MaxChunks]
    BY SessionAssumption DEF Init
  <2>3. phase \in [Senders \cup {Receiver} ->
                    Over \cup {"connect", "handshake", "verdict", "request", "answer",
                               "sending", "stuck", "bind", "accept", "prompt", "receiving"}]
    BY DEF Init
  <2>4. expected \in 0..MaxChunks /\ taken \in 0..expected /\ accidents \in 0..MaxAccidents
    BY SessionAssumption DEF Init
  <2>5. \A s, t \in Senders : conn[s] = "open" /\ conn[t] = "open" => s = t
    BY <1>1
  <2>6. QED
    BY <2>1, <2>2, <2>3, <2>4, <2>5 DEF Init, TypeOK
<1>4. ASSUME NEW s \in Senders PROVE OwnInv(s) /\ ConnInv(s)
  <2>1. /\ phase[s] = "connect" /\ conn[s] = "none" /\ num[s] = 0 /\ sent[s] = 0
        /\ toReceiver[s] = <<>> /\ toSender[s] = <<>> /\ accepted # s
    BY <1>1, <1>2
  <2>2. OwnInv(s)
    BY <2>1 DEF OwnInv, SenderCalls
  <2>3. ConnInv(s)
    BY <2>1 DEF ConnInv, Unconnected
  <2>4. QED
    BY <2>2, <2>3
<1>5. ReceiverInv /\ ReceiverSurvives
  BY <1>1, <1>2 DEF ReceiverInv, ReceiverSurvives, ReceiverCalls, At
<1>6. QED
  BY <1>3, <1>4, <1>5 DEF SessionInv, SenderInv

\* A step in which a process does nothing to the rest.
LEMMA OnlyParts ==
    ASSUME TypeOK, NEW p, NEW c, NEW l, Only(p, c, l)
    PROVE  /\ phase[p] = c /\ Go(p, l) /\ UNCHANGED <<password, wires, plans, intake>>
           /\ accidents' \in 0..MaxAccidents /\ accidents' >= accidents
<1>1. /\ phase[p] = c /\ Go(p, l) /\ UNCHANGED <<password, wires, plans, intake>>
      /\ accidents' = accidents
  BY DEF Only, At
<1>2. accidents \in 0..MaxAccidents
  BY DEF TypeOK
<1>3. QED
  BY <1>1, <1>2, SessionAssumption

\* An accident is counted.
LEMMA Counted ==
    ASSUME TypeOK, accidents < MaxAccidents, accidents' = accidents + 1
    PROVE  accidents' \in 0..MaxAccidents /\ accidents' >= accidents /\ accidents' > 0
<1>1. accidents \in 0..MaxAccidents
  BY DEF TypeOK
<1>2. QED
  BY <1>1, SessionAssumption

\* The steps of a sender that change nothing but its own call.
LEMMA SenderEndsStep ==
    ASSUME SessionInv, NEW s \in Senders,
           \/ NothingStaged(s) \/ ConnectRefused(s) \/ RequestThrows(s) \/ SendComplete(s)
           \/ SendFails(s) \/ Breaks(s) \/ Kill(s)
    PROVE  SessionInv'
<1>1. TypeOK
  BY Parts
<1>2. ASSUME NEW c, NEW l, Only(s, c, l), UNCHANGED conn,
             \/ l = "gone"
             \/ c = "connect" /\ l = "returned"
             \/ c = "sending" /\ l \in {"failed", "stuck"}
             \/ c = "sending" /\ l = "complete" /\ sent[s] = num[s]
      PROVE  SessionInv'
  <2>1. /\ phase[s] = c /\ Go(s, l) /\ UNCHANGED <<password, wires, plans, intake>>
        /\ accidents' \in 0..MaxAccidents /\ accidents' >= accidents
    BY <1>1, <1>2, OnlyParts
  <2>2. UNCHANGED <<password, conn, wires, plans, intake>>
    BY <1>2, <2>1
  <2>3. QED
    BY <1>2, <2>1, <2>2, SenderMoves
<1>3. CASE NothingStaged(s)
  BY <1>2, <1>3 DEF NothingStaged
<1>4. CASE ConnectRefused(s)
  BY <1>2, <1>4 DEF ConnectRefused
<1>5. CASE RequestThrows(s)
  BY <1>2, <1>5 DEF RequestThrows
<1>6. CASE SendComplete(s)
  BY <1>2, <1>6 DEF SendComplete, AllSent
<1>7. CASE SendFails(s)
  BY <1>2, <1>7 DEF SendFails
<1>8. CASE Breaks(s)
  BY <1>2, <1>8 DEF Breaks
<1>9. CASE Kill(s)
  <2>1. /\ Go(s, "gone") /\ UNCHANGED <<password, conn, wires, plans, intake>>
        /\ accidents < MaxAccidents /\ accidents' = accidents + 1
    BY <1>9, SessionAssumption DEF Kill
  <2>2. QED
    BY <1>1, <2>1, Counted, SenderMoves
<1>10. QED
  BY <1>3, <1>4, <1>5, <1>6, <1>7, <1>8, <1>9

\* A sender that has ended before its request was accepted is gone.
LEMMA DiedOnUs ==
    ASSUME SessionInv, NEW s \in Senders, HungUp(s),
           phase[Receiver] \in {"handshake", "request", "prompt"}
    PROVE  phase[s] = "gone" /\ conn[s] = "open"
<1>1. conn[s] = "open" /\ phase[s] \in Over /\ ConnInv(s)
  BY Parts DEF HungUp, Ended
<1>2. QED
  BY <1>1 DEF ConnInv, At, Over, Greeting, Asking, Waiting

\* The steps of the receiver that close its connection.
LEMMA ReceiverEndsStep ==
    ASSUME SessionInv,
           \/ Listen \/ PortTaken \/ ReceiveComplete \/ ReceiveFails \/ Kill(Receiver)
           \/ \E s \in Senders : PeerLost(s) \/ AnswerLost(s)
    PROVE  SessionInv'
<1>1. TypeOK
  BY Parts
<1>2. ASSUME NEW c, NEW l, Only(Receiver, c, l), HangUp,
             \/ c = "bind" /\ l = "accept"
             \/ c = "receiving" /\ l \in {"complete", "failed"}
             \/ /\ l = "gone"
                /\ \E t \in Senders : phase[t] = "gone" /\ conn[t] = "open"
      PROVE  SessionInv'
  <2>1. /\ phase[Receiver] = c /\ Go(Receiver, l)
        /\ UNCHANGED <<password, wires, plans, intake>>
        /\ accidents' \in 0..MaxAccidents /\ accidents' >= accidents
    BY <1>1, <1>2, OnlyParts
  <2>2. QED
    BY <1>2, <2>1, HangUps
<1>3. CASE Listen
  BY <1>2, <1>3 DEF Listen
<1>4. CASE PortTaken
  <2>1. /\ Go(Receiver, "gone") /\ HangUp /\ UNCHANGED <<password, wires, plans, intake>>
        /\ accidents < MaxAccidents /\ accidents' = accidents + 1
    BY <1>4 DEF PortTaken
  <2>2. QED
    BY <1>1, <2>1, Counted, HangUps
<1>5. CASE ReceiveComplete
  BY <1>2, <1>5 DEF ReceiveComplete
<1>6. CASE ReceiveFails
  BY <1>2, <1>6, ReceiverStuck DEF ReceiveFails
<1>7. ASSUME NEW s \in Senders, PeerLost(s) PROVE SessionInv'
  <2>1. CASE Only(Receiver, "handshake", "gone") /\ HangUp
    <3>1. phase[s] = "gone" /\ conn[s] = "open"
      BY <1>7, <2>1, DiedOnUs DEF PeerLost, Only, At
    <3>2. QED
      BY <1>2, <2>1, <3>1
  <2>2. CASE Only(Receiver, "request", "gone") /\ HangUp
    <3>1. phase[s] = "gone" /\ conn[s] = "open"
      BY <1>7, <2>2, DiedOnUs DEF PeerLost, Only, At
    <3>2. QED
      BY <1>2, <2>2, <3>1
  <2>3. CASE ReceiveFails
    BY <1>2, <2>3, ReceiverStuck DEF ReceiveFails
  <2>4. QED
    BY <1>7, <2>1, <2>2, <2>3 DEF PeerLost
<1>8. ASSUME NEW s \in Senders, AnswerLost(s) PROVE SessionInv'
  <2>1. phase[s] = "gone" /\ conn[s] = "open"
    BY <1>8, DiedOnUs DEF AnswerLost, Only, At
  <2>2. QED
    BY <1>2, <1>8, <2>1 DEF AnswerLost
<1>9. CASE Kill(Receiver)
  <2>1. /\ Go(Receiver, "gone") /\ HangUp /\ UNCHANGED <<password, wires, plans, intake>>
        /\ accidents < MaxAccidents /\ accidents' = accidents + 1
    BY <1>9 DEF Kill
  <2>2. QED
    BY <1>1, <2>1, Counted, HangUps
<1>10. QED
  BY <1>3, <1>4, <1>5, <1>6, <1>7, <1>8, <1>9

\* Every step keeps the invariant.
LEMMA NextStep == ASSUME SessionInv, Next PROVE SessionInv'
<1>1. CASE \E s \in Senders : Talk(s) \/ SendFails(s)
  <2>1. PICK s \in Senders : Talk(s) \/ SendFails(s)
    BY <1>1
  <2>2. CASE Connect(s)
    BY <2>2, ConnectStep
  <2>3. CASE SendHandshake(s)
    BY <2>3, SendHandshakeStep
  <2>4. CASE ReadAnswer(s, "verdict", "request")
    BY <2>4, VerdictStep
  <2>5. CASE SendRequest(s)
    BY <2>5, SendRequestStep
  <2>6. CASE ReadAnswer(s, "answer", "sending")
    BY <2>6, GoAheadStep
  <2>7. CASE SendPacket(s)
    BY <2>7, SendPacketStep
  <2>8. CASE \/ NothingStaged(s) \/ ConnectRefused(s) \/ RequestThrows(s) \/ SendComplete(s)
             \/ SendFails(s) \/ Breaks(s)
    BY <2>8, SenderEndsStep
  <2>9. QED
    BY <2>1, <2>2, <2>3, <2>4, <2>5, <2>6, <2>7, <2>8 DEF Talk
<1>2. CASE \E s \in Senders : \/ Accept(s) \/ ReceiveHandshake(s) \/ ReceiveRequest(s)
                              \/ TakePacket(s) \/ PeerLost(s) \/ AnswerLost(s)
                              \/ \E yes \in BOOLEAN : Answer(s, yes)
  <2>1. PICK s \in Senders : \/ Accept(s) \/ ReceiveHandshake(s) \/ ReceiveRequest(s)
                             \/ TakePacket(s) \/ PeerLost(s) \/ AnswerLost(s)
                             \/ \E yes \in BOOLEAN : Answer(s, yes)
    BY <1>2
  <2>2. CASE Accept(s)
    BY <2>2, AcceptStep
  <2>3. CASE ReceiveHandshake(s)
    BY <2>3, ReceiveHandshakeStep
  <2>4. CASE ReceiveRequest(s)
    BY <2>4, ReceiveRequestStep
  <2>5. CASE TakePacket(s)
    BY <2>5, TakePacketStep
  <2>6. CASE PeerLost(s) \/ AnswerLost(s)
    BY <2>6, ReceiverEndsStep
  <2>7. CASE \E yes \in BOOLEAN : Answer(s, yes)
    BY <2>7, AnswerStep
  <2>8. QED
    BY <2>1, <2>2, <2>3, <2>4, <2>5, <2>6, <2>7
<1>3. CASE Listen
  BY <1>3, ReceiverEndsStep
<1>4. CASE PortTaken
  BY <1>4, ReceiverEndsStep
<1>5. CASE ReceiveComplete
  BY <1>5, ReceiverEndsStep
<1>6. CASE ReceiveFails
  BY <1>6, ReceiverEndsStep
<1>7. CASE \E p \in Senders \cup {Receiver} : Kill(p)
  <2>1. CASE \E s \in Senders : Kill(s)
    BY <2>1, SenderEndsStep
  <2>2. CASE Kill(Receiver)
    BY <2>2, ReceiverEndsStep
  <2>3. QED
    BY <1>7, <2>1, <2>2
<1>8. QED
  BY <1>1, <1>2, <1>3, <1>4, <1>5, <1>6, <1>7 DEF Next, Serve, User

\* SessionInv holds in every reachable state, for every value of the constants.
THEOREM Invariance == Spec => []SessionInv
<1>1. SessionInv /\ UNCHANGED vars => SessionInv'
  <2>1. SUFFICES ASSUME SessionInv, UNCHANGED vars PROVE SessionInv'
    OBVIOUS
  <2>2. UNCHANGED <<password, phase, conn, toReceiver, toSender, num, sent, expected, taken,
                    decryptor, accepted, accidents>>
    BY <2>1 DEF vars, wires, plans, intake
  <2>3. TypeOK' /\ ReceiverInv' /\ ReceiverSurvives'
    BY <2>1, <2>2, Parts DEF TypeOK, ReceiverInv, ReceiverSurvives, At
  <2>4. \A t \in Senders : OwnInv(t)' /\ ConnInv(t)'
    BY <2>1, <2>2, Parts, Unmoved
  <2>5. QED
    BY <2>3, <2>4 DEF SessionInv, SenderInv
<1>2. SessionInv /\ [Next]_vars => SessionInv'
  BY <1>1, NextStep
<1>3. QED
  BY <1>2, InitStep, PTL DEF Spec

\* The variables have their types, and one connection at most is open.
THEOREM TypeCorrect == Spec => []TypeOK
<1>1. SessionInv => TypeOK
  BY DEF SessionInv
<1>2. QED
  BY <1>1, Invariance, PTL

\* The receiver's process is only ended by an accident or by a sender that died on it.
THEOREM Survives == Spec => []ReceiverSurvives
<1>1. SessionInv => ReceiverSurvives
  BY DEF SessionInv
<1>2. QED
  BY <1>1, Invariance, PTL

\* A request is sent, read and accepted only between processes with one password.
THEOREM PasswordsAgree == Spec => []SamePassword
<1>1. ASSUME SessionInv PROVE SamePassword
  <2>1. \A s \in Senders : num[s] > 0 => password[s] = password[Receiver]
    BY <1>1, Parts DEF OwnInv, Same
  <2>2. ASSUME NEW s \in Senders, conn[s] = "open",
               phase[Receiver] \in {"request", "prompt", "receiving"}
        PROVE  password[s] = password[Receiver]
    <3>1. ConnInv(s)
      BY <1>1, Parts
    <3>2. Asking(s) \/ Waiting(s) \/ Streaming(s)
      BY <2>2, <3>1 DEF ConnInv, At
    <3>3. QED
      BY <3>2 DEF Asking, Waiting, Streaming, Same
  <2>3. QED
    BY <2>1, <2>2 DEF SamePassword
<1>2. QED
  BY <1>1, Invariance, PTL

\* The accepted stream reaches its decryptor in order and without a gap.
THEOREM StreamsDecrypt == Spec => []PacketsDecrypt
<1>1. ASSUME SessionInv PROVE PacketsDecrypt
  <2>1. SUFFICES ASSUME NEW s \in Senders, At(Receiver, "receiving"), conn[s] = "open",
                        toReceiver[s] # <<>>
                 PROVE  taken < expected /\ Decrypts(Head(toReceiver[s]))
    BY DEF PacketsDecrypt
  <2>2. Streaming(s) /\ OwnInv(s) /\ TypeOK
    BY <1>1, <2>1, Parts DEF ConnInv, At
  <2>3. /\ taken + Len(toReceiver[s]) = sent[s] /\ expected = num[s] /\ decryptor = s
        /\ \A i \in 1..Len(toReceiver[s]) :
              toReceiver[s][i] = [stream |-> s, chunk |-> taken + i]
        /\ sent[s] <= num[s]
    BY <2>2 DEF Streaming, OwnInv
  <2>4. toReceiver[s] \in Seq(Messages) /\ taken \in Nat /\ sent[s] \in Nat /\ num[s] \in Nat
    <3>1. taken \in 0..expected /\ expected \in 0..MaxChunks
      BY <2>2 DEF TypeOK
    <3>2. sent[s] \in 0..MaxChunks /\ num[s] \in 0..MaxChunks /\ toReceiver[s] \in Seq(Messages)
      BY <2>2 DEF TypeOK
    <3>3. QED
      BY <3>1, <3>2, SessionAssumption
  <2>5. /\ Len(toReceiver[s]) \in Nat /\ Len(toReceiver[s]) >= 1
        /\ Head(toReceiver[s]) = toReceiver[s][1]
    BY <2>1, <2>4
  <2>6. taken < expected
    BY <2>3, <2>4, <2>5
  <2>7. toReceiver[s][1] = [stream |-> s, chunk |-> taken + 1]
    BY <2>3, <2>5
  <2>8. QED
    BY <2>3, <2>5, <2>6, <2>7 DEF Decrypts
<1>2. QED
  BY <1>1, Invariance, PTL

\* What a sender reports as sent is taken or in its connection, while that is open.
THEOREM NothingLost == Spec => []SentIsThereOrComing
<1>1. ASSUME SessionInv PROVE SentIsThereOrComing
  <2>1. SUFFICES ASSUME NEW s \in Senders, At(s, "complete"), conn[s] = "open"
                 PROVE  taken + Len(toReceiver[s]) = num[s] /\ expected = num[s]
    BY DEF SentIsThereOrComing
  <2>2. OwnInv(s) /\ ConnInv(s) /\ ReceiverInv
    BY <1>1, Parts
  <2>3. accepted = s /\ sent[s] = num[s]
    BY <2>1, <2>2 DEF OwnInv, At
  <2>4. Streaming(s)
    BY <2>1, <2>2, <2>3 DEF ConnInv, At, Greeting, Asking, Waiting, Refused
  <2>5. QED
    BY <2>3, <2>4 DEF Streaming
<1>2. QED
  BY <1>1, Invariance, PTL

-----------------------------------------------------------------------------
(***************************************************************************)
(* A session implements what FileSender and FileReceiver promise: each     *)
(* process that runs trit send is a FileSender, and the one that runs trit *)
(* receive is a FileReceiver, whatever the other senders do and whoever    *)
(* fails.                                                                  *)
(***************************************************************************)

\* The chunks of a transfer up to the n-th.
Upto(n) == [i \in 1..n |-> i]

\* They are a sequence; one chunk more is appended, and a part of it is a prefix.
LEMMA Chunks ==
    ASSUME NEW n \in Nat
    PROVE  /\ Upto(n) \in Seq(Nat) /\ Len(Upto(n)) = n
           /\ \A i \in 1..n : Upto(n)[i] = i
           /\ n > 0 => Upto(n) # <<>>
           /\ n = 0 => Upto(n) = <<>>
           /\ \A m \in 0..n : SubSeq(Upto(n), 1, m) = Upto(m)
           /\ Append(Upto(n), n + 1) = Upto(n + 1)
<1>1. Upto(n) \in [1..n -> Nat]
  BY DEF Upto
<1>2. Upto(n) \in Seq(Nat) /\ Len(Upto(n)) = n
  BY <1>1
<1>3. \A i \in 1..n : Upto(n)[i] = i
  BY DEF Upto
<1>4. n > 0 => Upto(n) # <<>>
  BY <1>2
<1>5. n = 0 => Upto(n) = <<>>
  BY <1>2
<1>6. ASSUME NEW m \in 0..n PROVE SubSeq(Upto(n), 1, m) = Upto(m)
  <2>1. SubSeq(Upto(n), 1, m) = [i \in 1..m |-> Upto(n)[i]]
    BY <1>2
  <2>2. \A i \in 1..m : Upto(n)[i] = i
    BY <1>3
  <2>3. QED
    BY <2>1, <2>2 DEF Upto
<1>7. Append(Upto(n), n + 1) = Upto(n + 1)
  BY <1>2, <1>3 DEF Upto
<1>8. QED
  BY <1>2, <1>3, <1>4, <1>5, <1>6, <1>7
-----------------------------------------------------------------------------
\* The variables of the promise of a sender.
PlanOf(s)    == IF s = accepted THEN Upto(num[s]) ELSE <<>>
OutcomeOf(s) == IF At(s, "complete") THEN "complete" ELSE IF Ended(s) THEN "failed" ELSE "running"

\* A step that leaves the plan and the packets of s alone, and after which s has
\* ended without "complete" if it has ended in it.
LEMMA QuietSender ==
    ASSUME NEW s \in Senders, sent'[s] = sent[s], accepted' = accepted,
           num'[s] = num[s] \/ accepted # s,
           phase'[s] = phase[s] \/ (phase[s] \notin Over /\ phase'[s] # "complete")
    PROVE  [Sending(s)!Next]_(Sending(s)!senderVars)
<1>1. PlanOf(s)' = PlanOf(s) /\ Upto(sent[s])' = Upto(sent[s])
  BY DEF PlanOf, Upto
<1>2. OutcomeOf(s)' = OutcomeOf(s) \/ (OutcomeOf(s) = "running" /\ OutcomeOf(s)' = "failed")
  BY DEF OutcomeOf, At, Ended, Over
<1>3. QED
  BY <1>1, <1>2 DEF PlanOf, Upto, OutcomeOf, Sending!Next, Sending!Fail, Sending!senderVars

\* A packet that is written is the next one of the plan.
LEMMA PacketIsSend ==
    ASSUME SessionInv, NEW s \in Senders, SendPacket(s)
    PROVE  \A t \in Senders : [Sending(t)!Next]_(Sending(t)!senderVars)
<1>1. /\ phase[s] = "sending" /\ sent[s] < num[s] /\ UNCHANGED <<phase, num, accepted>>
      /\ sent' = [sent EXCEPT ![s] = sent[s] + 1]
      /\ TypeOK /\ OwnInv(s)
  BY Parts DEF SendPacket, Write, intake, At
<1>2. /\ sent \in [Senders -> 0..MaxChunks] /\ sent[s] \in Nat /\ num[s] \in Nat
      /\ accepted = s
  <2>1. sent[s] \in 0..MaxChunks /\ num[s] \in 0..MaxChunks
    BY <1>1 DEF TypeOK
  <2>2. QED
    BY <1>1, <2>1, SessionAssumption DEF TypeOK, OwnInv
<1>3. sent'[s] = sent[s] + 1 /\ \A t \in Senders : t # s => sent'[t] = sent[t]
  BY <1>1, <1>2
<1>4. ASSUME NEW t \in Senders, t # s PROVE [Sending(t)!Next]_(Sending(t)!senderVars)
  BY <1>1, <1>3, <1>4, QuietSender
<1>5. Sending(s)!Send
  <2>1. Upto(sent[s] + 1) = Append(Upto(sent[s]), sent[s] + 1) /\ Len(Upto(sent[s])) = sent[s]
    BY <1>2, Chunks
  <2>2. Len(Upto(num[s])) = num[s] /\ Upto(num[s])[sent[s] + 1] = sent[s] + 1
    <3>1. sent[s] + 1 \in 1..num[s]
      BY <1>1, <1>2
    <3>2. QED
      BY <1>2, <3>1, Chunks
  <2>3. /\ PlanOf(s) = Upto(num[s]) /\ PlanOf(s)' = Upto(num[s])
        /\ Upto(sent[s])' = Append(Upto(sent[s]), PlanOf(s)[Len(Upto(sent[s])) + 1])
    BY <1>1, <1>2, <1>3, <2>1, <2>2 DEF PlanOf, Upto
  <2>4. OutcomeOf(s) = "running" /\ OutcomeOf(s)' = "running"
    BY <1>1 DEF OutcomeOf, At, Ended, Over
  <2>5. Len(Upto(sent[s])) < Len(PlanOf(s))
    BY <1>1, <2>1, <2>2, <2>3
  <2>6. PlanOf(s)' = PlanOf(s)
    BY <2>3
  <2>7. QED
    BY <2>3, <2>4, <2>5, <2>6 DEF PlanOf, Upto, OutcomeOf, Sending!Send
<1>6. QED
  BY <1>4, <1>5 DEF Sending!Next

\* A sender that reports "complete" has written its whole plan.
LEMMA CompleteIsFinish ==
    ASSUME SessionInv, NEW s \in Senders, SendComplete(s)
    PROVE  \A t \in Senders : [Sending(t)!Next]_(Sending(t)!senderVars)
<1>1. /\ phase[s] = "sending" /\ sent[s] = num[s] /\ UNCHANGED <<num, sent, accepted>>
      /\ Go(s, "complete") /\ TypeOK /\ OwnInv(s)
  BY Parts DEF SendComplete, AllSent, Only, plans, intake, At
<1>2. phase'[s] = "complete" /\ \A t \in Senders : t # s => phase'[t] = phase[t]
  BY <1>1, Moved
<1>3. ASSUME NEW t \in Senders, t # s PROVE [Sending(t)!Next]_(Sending(t)!senderVars)
  BY <1>1, <1>2, <1>3, QuietSender
<1>4. accepted = s /\ num[s] > 0 /\ num[s] \in Nat
  <2>1. num[s] \in 0..MaxChunks
    BY <1>1 DEF TypeOK
  <2>2. accepted = s
    BY <1>1 DEF OwnInv
  <2>3. num[s] > 0
    BY <1>1, <2>2 DEF OwnInv
  <2>4. QED
    BY <2>1, <2>2, <2>3, SessionAssumption
<1>5. Sending(s)!Finish
  <2>1. PlanOf(s) = Upto(num[s]) /\ PlanOf(s)' = PlanOf(s)
    BY <1>1, <1>4 DEF PlanOf, Upto
  <2>2. PlanOf(s) # <<>>
    BY <1>4, <2>1, Chunks
  <2>3. Upto(sent[s]) = PlanOf(s) /\ Upto(sent[s])' = Upto(sent[s])
    BY <1>1, <2>1 DEF Upto
  <2>4. OutcomeOf(s) = "running" /\ OutcomeOf(s)' = "complete"
    BY <1>1, <1>2 DEF OutcomeOf, At, Ended, Over
  <2>5. QED
    BY <2>1, <2>2, <2>3, <2>4 DEF PlanOf, Upto, OutcomeOf, Sending!Finish
<1>6. QED
  BY <1>3, <1>5 DEF Sending!Next

\* The user who accepts a request agrees to the plan of its sender.
LEMMA AnswerIsAgree ==
    ASSUME SessionInv, NEW s \in Senders, NEW yes \in BOOLEAN, Answer(s, yes)
    PROVE  \A t \in Senders : [Sending(t)!Next]_(Sending(t)!senderVars)
<1>1. /\ phase[Receiver] = "prompt" /\ conn[s] = "open" /\ UNCHANGED <<num, sent>>
      /\ Go(Receiver, IF yes THEN "receiving" ELSE "bind")
      /\ accepted' = IF yes THEN s ELSE accepted
      /\ TypeOK /\ ConnInv(s)
  BY Parts DEF Answer, plans, At
<1>2. \A t \in Senders : phase'[t] = phase[t]
  BY <1>1, Moved, SessionAssumption
<1>3. accepted = Nobody /\ \A t \in Senders : accepted # t
  BY <1>1, NotYet
<1>4. ASSUME NEW t \in Senders, ~yes \/ t # s
      PROVE  [Sending(t)!Next]_(Sending(t)!senderVars)
  <2>1. PlanOf(t) = <<>> /\ PlanOf(t)' = <<>>
    BY <1>1, <1>3, <1>4 DEF PlanOf
  <2>2. Upto(sent[t])' = Upto(sent[t]) /\ OutcomeOf(t)' = OutcomeOf(t)
    BY <1>1, <1>2 DEF Upto, OutcomeOf, At, Ended
  <2>3. QED
    BY <2>1, <2>2 DEF PlanOf, Upto, OutcomeOf, Sending!senderVars
<1>5. ASSUME yes PROVE Sending(s)!Agree
  <2>1. num[s] > 0 /\ num[s] \in Nat
    <3>1. num[s] \in 0..MaxChunks
      BY <1>1 DEF TypeOK
    <3>2. num[s] > 0
      BY <1>1 DEF ConnInv, Waiting, At
    <3>3. QED
      BY <3>1, <3>2, SessionAssumption
  <2>2. PlanOf(s) = <<>> /\ PlanOf(s)' = Upto(num[s])
    BY <1>1, <1>3, <1>5 DEF PlanOf, Upto
  <2>3. Upto(num[s]) # <<>>
    BY <2>1, Chunks
  <2>4. Upto(sent[s])' = Upto(sent[s]) /\ OutcomeOf(s)' = OutcomeOf(s)
    BY <1>1, <1>2 DEF Upto, OutcomeOf, At, Ended
  <2>5. QED
    BY <2>2, <2>3, <2>4 DEF PlanOf, Upto, OutcomeOf, Sending!Agree
<1>6. QED
  BY <1>4, <1>5 DEF Sending!Next

\* A call of a sender that is not the end of a transfer, and after which it has ended
\* without "complete" if it has ended.
LEMMA TalkIsQuiet ==
    ASSUME SessionInv, NEW s \in Senders, NEW l, l # "complete", phase[s] \notin Over, Go(s, l),
           UNCHANGED <<sent, accepted>>,
           \A t \in Senders : num'[t] = num[t] \/ accepted # t
    PROVE  \A t \in Senders : [Sending(t)!Next]_(Sending(t)!senderVars)
<1>1. phase'[s] = l /\ \A t \in Senders : t # s => phase'[t] = phase[t]
  BY Parts, Moved
<1>2. ASSUME NEW t \in Senders PROVE [Sending(t)!Next]_(Sending(t)!senderVars)
  <2>1. phase'[t] = phase[t] \/ (phase[t] \notin Over /\ phase'[t] # "complete")
    BY <1>1
  <2>2. QED
    BY <2>1, QuietSender
<1>3. QED
  BY <1>2

\* A call of the receiver, but for the answer to a request.
LEMMA ServeIsQuiet ==
    ASSUME SessionInv, NEW l, Go(Receiver, l) \/ UNCHANGED phase, UNCHANGED <<num, sent, accepted>>
    PROVE  \A t \in Senders : [Sending(t)!Next]_(Sending(t)!senderVars)
<1>1. \A t \in Senders : phase'[t] = phase[t]
  BY Parts, Moved, SessionAssumption
<1>2. QED
  BY <1>1, QuietSender

\* Every step of the session is one of the promise for each sender, or none.
LEMMA SenderSteps ==
    ASSUME SessionInv, Next
    PROVE  \A t \in Senders : [Sending(t)!Next]_(Sending(t)!senderVars)
<1> DEFINE Goal == \A t \in Senders : [Sending(t)!Next]_(Sending(t)!senderVars)
<1>1. ASSUME NEW s \in Senders, Talk(s) \/ SendFails(s) PROVE Goal
  <2>1. ASSUME NEW c, NEW l, Only(s, c, l), c \notin Over, l # "complete" PROVE Goal
    BY <2>1, TalkIsQuiet DEF Only, At, plans, intake
  <2>2. CASE NothingStaged(s) \/ ConnectRefused(s) \/ Connect(s) \/ RequestThrows(s)
    BY <2>1, <2>2 DEF NothingStaged, ConnectRefused, Connect, RequestThrows, Over
  <2>3. CASE SendFails(s) \/ Breaks(s)
    BY <2>1, <2>3 DEF SendFails, Breaks, Over
  <2>4. CASE SendHandshake(s)
    BY <2>4, TalkIsQuiet DEF SendHandshake, Write, At, plans, intake, Over
  <2>5. ASSUME NEW c, NEW l, ReadAnswer(s, c, l), c \notin Over, l # "complete" PROVE Goal
    <3> DEFINE next == IF MayGoOn(Head(toSender[s])) THEN l ELSE "returned"
    <3>1. Go(s, next) /\ phase[s] = c /\ UNCHANGED <<num, sent, accepted>>
      BY <2>5 DEF ReadAnswer, At, plans, intake
    <3>2. next # "complete"
      BY <2>5
    <3>3. QED
      BY <2>5, <3>1, <3>2, TalkIsQuiet
  <2>6. CASE ReadAnswer(s, "verdict", "request") \/ ReadAnswer(s, "answer", "sending")
    BY <2>5, <2>6 DEF Over
  <2>7. CASE SendRequest(s)
    <3>1. phase[s] = "request" /\ Go(s, "answer") /\ UNCHANGED <<sent, accepted>>
      BY <2>7 DEF SendRequest, Write, At, intake
    <3>2. accepted # s
      BY <3>1, Parts DEF OwnInv
    <3>3. \A t \in Senders : t # s => num'[t] = num[t]
      BY <2>7, Parts DEF SendRequest, TypeOK
    <3>4. QED
      BY <3>1, <3>2, <3>3, TalkIsQuiet DEF Over
  <2>8. CASE SendPacket(s)
    BY <2>8, PacketIsSend
  <2>9. CASE SendComplete(s)
    BY <2>9, CompleteIsFinish
  <2>10. QED
    BY <1>1, <2>2, <2>3, <2>4, <2>6, <2>7, <2>8, <2>9 DEF Talk
<1>2. ASSUME NEW s \in Senders, NEW yes \in BOOLEAN, Answer(s, yes) PROVE Goal
  BY <1>2, AnswerIsAgree
<1>3. ASSUME NEW c, NEW l, Only(Receiver, c, l) PROVE Goal
  BY <1>3, ServeIsQuiet DEF Only, plans, intake
<1>4. CASE Listen \/ ReceiveComplete \/ ReceiveFails
  BY <1>3, <1>4 DEF Listen, ReceiveComplete, ReceiveFails
<1>5. CASE PortTaken
  BY <1>5, ServeIsQuiet DEF PortTaken, plans, intake
<1>6. ASSUME NEW s \in Senders,
             Accept(s) \/ PeerLost(s) \/ AnswerLost(s)
      PROVE  Goal
  BY <1>3, <1>6 DEF Accept, PeerLost, AnswerLost, ReceiveFails
<1>7. ASSUME NEW s \in Senders,
             ReceiveHandshake(s) \/ ReceiveRequest(s) \/ TakePacket(s)
      PROVE  Goal
  <2>1. CASE ReceiveHandshake(s)
    <3>1. \E l : Go(Receiver, l)
      BY <2>1 DEF ReceiveHandshake
    <3>2. UNCHANGED <<num, sent, accepted>>
      BY <2>1 DEF ReceiveHandshake, plans
    <3>3. QED
      BY <3>1, <3>2, ServeIsQuiet
  <2>2. CASE ReceiveRequest(s)
    BY <2>2, ServeIsQuiet DEF ReceiveRequest, plans
  <2>3. CASE TakePacket(s)
    BY <2>3, ServeIsQuiet DEF TakePacket, plans
  <2>4. QED
    BY <1>7, <2>1, <2>2, <2>3
<1>8. ASSUME NEW p \in Senders \cup {Receiver}, Kill(p) PROVE Goal
  <2>1. phase[p] \notin Over /\ Go(p, "gone") /\ UNCHANGED <<num, sent, accepted>>
    BY <1>8 DEF Kill, Ended, plans, intake
  <2>2. CASE p \in Senders
    BY <2>1, <2>2, TalkIsQuiet
  <2>3. CASE p = Receiver
    BY <2>1, <2>3, ServeIsQuiet
  <2>4. QED
    BY <2>2, <2>3
<1>9. QED
  BY <1>1, <1>2, <1>4, <1>5, <1>6, <1>7, <1>8 DEF Next, Serve, User

\* Each process that runs trit send keeps the promise of FileSender.
THEOREM SendersRefine == Spec => SendersKeepPromise
<1>1. Init => \A s \in Senders : Sending(s)!Init
  <2>1. SUFFICES ASSUME Init, NEW s \in Senders PROVE Sending(s)!Init
    OBVIOUS
  <2>2. sent[s] = 0 /\ phase[s] = "connect"
    BY <2>1, SessionAssumption DEF Init
  <2>3. Upto(sent[s]) = <<>>
    BY <2>2, Chunks
  <2>4. OutcomeOf(s) = "running"
    BY <2>2 DEF OutcomeOf, At, Ended, Over
  <2>5. QED
    BY <2>3, <2>4 DEF Upto, OutcomeOf, Sending!Init
<1>2. SessionInv /\ [Next]_vars =>
         [\A s \in Senders : [Sending(s)!Next]_(Sending(s)!senderVars)]_vars
  BY SenderSteps
<1>3. QED
  BY <1>1, <1>2, Invariance, PTL DEF Spec, SendersKeepPromise
-----------------------------------------------------------------------------
\* The variables of the promise of the receiver.
FilesAgreed   == IF accepted = Nobody THEN <<>> ELSE <<Upto(expected)>>
ArrivedSoFar  == IF accepted = Nobody THEN 0 ELSE sent[accepted]
OnDisk        == IF taken = 0 THEN <<>> ELSE <<Upto(taken)>>
BrokenOff     == At(Receiver, "failed") \/ At(Receiver, "gone")
ReceiverSays  == IF At(Receiver, "complete") THEN "complete"
                 ELSE IF Ended(Receiver) THEN "failed" ELSE "running"

\* A step of the promise, in these terms.
LEMMA Promised ==
    ASSUME \/ /\ FilesAgreed = <<>> /\ FilesAgreed' # <<>>
              /\ UNCHANGED <<ArrivedSoFar, OnDisk, BrokenOff, ReceiverSays>>
           \/ /\ ArrivedSoFar' > ArrivedSoFar
              /\ UNCHANGED <<FilesAgreed, OnDisk, BrokenOff, ReceiverSays>>
           \/ /\ ReceiverSays = "running" /\ ~BrokenOff
              /\ FilesAgreed # <<>> /\ OnDisk = FilesAgreed /\ ReceiverSays' = "complete"
              /\ UNCHANGED <<FilesAgreed, ArrivedSoFar, OnDisk, BrokenOff>>
           \/ /\ ReceiverSays = "running" /\ BrokenOff' = TRUE /\ ReceiverSays' = "failed"
              /\ UNCHANGED <<FilesAgreed, ArrivedSoFar, OnDisk>>
           \/ UNCHANGED <<FilesAgreed, ArrivedSoFar, OnDisk, BrokenOff, ReceiverSays>>
    PROVE  [Receiving!Next]_(Receiving!receiverVars)
  BY DEF FilesAgreed, ArrivedSoFar, OnDisk, BrokenOff, ReceiverSays, Upto,
         Receiving!Next, Receiving!Agree, Receiving!Arrive, Receiving!Finish, Receiving!Fail,
         Receiving!receiverVars

\* A step that leaves the transfer alone; the receiver may fail or be ended in it.
LEMMA QuietReceiver ==
    ASSUME UNCHANGED <<sent, taken, accepted>>, expected' = expected \/ accepted = Nobody,
           phase'[Receiver] = phase[Receiver]
              \/ (phase[Receiver] \notin Over
                  /\ phase'[Receiver] \notin {"complete", "returned"})
    PROVE  [Receiving!Next]_(Receiving!receiverVars)
<1>1. UNCHANGED <<FilesAgreed, ArrivedSoFar, OnDisk>>
  BY DEF FilesAgreed, ArrivedSoFar, OnDisk, Upto
<1>2. \/ UNCHANGED <<BrokenOff, ReceiverSays>>
      \/ ReceiverSays = "running" /\ BrokenOff' = TRUE /\ ReceiverSays' = "failed"
  BY DEF BrokenOff, ReceiverSays, At, Ended, Over
<1>3. QED
  BY <1>1, <1>2, Promised

\* A packet that is written will arrive.
LEMMA PacketIsArrive ==
    ASSUME SessionInv, NEW s \in Senders, SendPacket(s)
    PROVE  [Receiving!Next]_(Receiving!receiverVars)
<1>1. /\ phase[s] = "sending" /\ UNCHANGED <<phase, num, expected, taken, accepted>>
      /\ sent' = [sent EXCEPT ![s] = sent[s] + 1]
      /\ TypeOK /\ OwnInv(s)
  BY Parts DEF SendPacket, Write, intake, At
<1>2. accepted = s /\ accepted # Nobody
  BY <1>1, SessionAssumption DEF OwnInv
<1>3. sent[s] \in Nat /\ sent'[s] = sent[s] + 1
  <2>1. sent \in [Senders -> 0..MaxChunks] /\ sent[s] \in 0..MaxChunks
    BY <1>1 DEF TypeOK
  <2>2. QED
    BY <1>1, <2>1, SessionAssumption
<1>4. ArrivedSoFar' > ArrivedSoFar
  BY <1>1, <1>2, <1>3 DEF ArrivedSoFar
<1>5. UNCHANGED <<FilesAgreed, OnDisk, BrokenOff, ReceiverSays>>
  BY <1>1 DEF FilesAgreed, OnDisk, BrokenOff, ReceiverSays, Upto, At, Ended
<1>6. QED
  BY <1>4, <1>5, Promised

\* The user who accepts a request agrees to its file.
LEMMA AnswerIsAgreed ==
    ASSUME SessionInv, NEW s \in Senders, NEW yes \in BOOLEAN, Answer(s, yes)
    PROVE  [Receiving!Next]_(Receiving!receiverVars)
<1>1. /\ phase[Receiver] = "prompt" /\ conn[s] = "open"
      /\ UNCHANGED <<num, sent, expected, taken>>
      /\ Go(Receiver, IF yes THEN "receiving" ELSE "bind")
      /\ accepted' = IF yes THEN s ELSE accepted
      /\ TypeOK /\ OwnInv(s)
  BY Parts DEF Answer, plans, At
<1>2. /\ accepted = Nobody /\ accepted # s /\ taken = 0
      /\ phase'[Receiver] \in {"receiving", "bind"}
  BY <1>1, NotYet, Moved
<1>3. CASE ~yes
  BY <1>1, <1>2, <1>3, QuietReceiver DEF Over
<1>4. CASE yes
  <2>1. accepted' = s /\ accepted' # Nobody /\ sent[s] = 0
    BY <1>1, <1>2, <1>4, SessionAssumption DEF OwnInv
  <2>2. FilesAgreed = <<>> /\ FilesAgreed' = <<Upto(expected)>>
    BY <1>1, <1>2, <2>1 DEF FilesAgreed, Upto
  <2>3. <<Upto(expected)>> # <<>>
    OBVIOUS
  <2>4. ArrivedSoFar = 0 /\ ArrivedSoFar' = 0
    BY <1>1, <1>2, <2>1 DEF ArrivedSoFar
  <2>5. UNCHANGED <<OnDisk, BrokenOff, ReceiverSays>>
    BY <1>1, <1>2 DEF OnDisk, BrokenOff, ReceiverSays, Upto, At, Ended, Over
  <2>6. QED
    BY <2>2, <2>3, <2>4, <2>5, Promised
<1>5. QED
  BY <1>3, <1>4

\* A packet that is taken is stored behind those before it.
LEMMA TakeIsStore ==
    ASSUME SessionInv, NEW s \in Senders, TakePacket(s)
    PROVE  Receiving!Store
<1>1. /\ phase[Receiver] = "receiving" /\ conn[s] = "open" /\ toReceiver[s] # <<>>
      /\ taken < expected /\ taken' = taken + 1
      /\ UNCHANGED <<phase, num, sent, expected, accepted>>
      /\ TypeOK /\ ConnInv(s) /\ toReceiver[s] \in Seq(Messages)
  BY Parts DEF TakePacket, Arrives, At, plans, TypeOK
<1>2. Streaming(s)
  BY <1>1 DEF ConnInv, At
<1>3. accepted = s /\ accepted # Nobody /\ taken + Len(toReceiver[s]) = sent[s]
  BY <1>2, SessionAssumption DEF Streaming
<1>4. taken \in Nat /\ expected \in Nat /\ sent[s] \in Nat
  <2>1. sent[s] \in 0..MaxChunks /\ expected \in 0..MaxChunks /\ taken \in 0..expected
    BY <1>1 DEF TypeOK
  <2>2. QED
    BY <2>1, SessionAssumption
<1>5. taken + 1 <= sent[s]
  <2>1. Len(toReceiver[s]) \in Nat /\ Len(toReceiver[s]) >= 1
    BY <1>1
  <2>2. QED
    BY <1>3, <1>4, <2>1
<1>6. /\ FilesAgreed = <<Upto(expected)>> /\ FilesAgreed' = FilesAgreed
      /\ ArrivedSoFar = sent[s] /\ ArrivedSoFar' = ArrivedSoFar
      /\ UNCHANGED <<BrokenOff, ReceiverSays>> /\ ReceiverSays = "running"
  BY <1>1, <1>3 DEF FilesAgreed, ArrivedSoFar, BrokenOff, ReceiverSays, Upto, At, Ended, Over
<1>7. OnDisk' = <<Upto(taken + 1)>>
  <2>1. taken' # 0
    BY <1>1, <1>4
  <2>2. QED
    BY <1>1, <2>1 DEF OnDisk, Upto
<1>8. /\ Len(OnDisk') = 1 /\ OnDisk'[1] = Upto(taken + 1)
      /\ Len(FilesAgreed) = 1 /\ FilesAgreed[1] = Upto(expected)
  BY <1>6, <1>7
<1>9. OnDisk = <<>> \/ (OnDisk = <<Upto(taken)>>)
  BY DEF OnDisk
<1>10. Len(OnDisk) \in 0..1 /\ (Len(OnDisk) = 1 => OnDisk[1] = Upto(taken))
  BY <1>9
<1>11. /\ Len(Upto(taken)) = taken /\ Len(Upto(taken + 1)) = taken + 1
       /\ Len(Upto(expected)) = expected
       /\ \A i \in 1..(taken + 1) : Upto(taken + 1)[i] = i
       /\ Upto(taken + 1) = SubSeq(Upto(expected), 1, taken + 1)
       /\ Upto(taken) = SubSeq(Upto(taken + 1), 1, taken)
  <2>1. taken + 1 \in Nat /\ taken + 1 \in 0..expected /\ taken \in 0..(taken + 1)
    BY <1>1, <1>4
  <2>2. QED
    BY <1>4, <2>1, Chunks
<1>12. Receiving!IsPrefixOf(OnDisk'[1], FilesAgreed[1])
  <2>1. taken + 1 <= expected
    BY <1>1, <1>4
  <2>2. QED
    BY <1>8, <1>11, <2>1 DEF Receiving!IsPrefixOf
<1>13. \A i \in 1..Len(OnDisk'[1]) : OnDisk'[1][i] <= ArrivedSoFar
  BY <1>4, <1>5, <1>6, <1>8, <1>11
<1>14. Len(OnDisk) = 1 => Receiving!IsPrefixOf(OnDisk[1], OnDisk'[1])
  <2>1. taken <= taken + 1
    BY <1>4
  <2>2. QED
    BY <1>8, <1>10, <1>11, <2>1 DEF Receiving!IsPrefixOf
<1>15. /\ Len(OnDisk) <= Len(OnDisk') /\ Len(OnDisk') <= Len(FilesAgreed)
       /\ \A f \in 1..Len(OnDisk') :
             /\ Receiving!IsPrefixOf(OnDisk'[f], FilesAgreed[f])
             /\ \A i \in 1..Len(OnDisk'[f]) : OnDisk'[f][i] <= ArrivedSoFar
             /\ f < Len(OnDisk') /\ ~BrokenOff => OnDisk'[f] = FilesAgreed[f]
       /\ \A f \in 1..Len(OnDisk) : Receiving!IsPrefixOf(OnDisk[f], OnDisk'[f])
  <2>1. Len(OnDisk) <= Len(OnDisk') /\ Len(OnDisk') <= Len(FilesAgreed)
    BY <1>8, <1>10
  <2>2. ASSUME NEW f \in 1..Len(OnDisk') PROVE f = 1 /\ ~(f < Len(OnDisk'))
    BY <1>8
  <2>3. ASSUME NEW f \in 1..Len(OnDisk) PROVE f = 1 /\ Len(OnDisk) = 1
    <3>1. \A n \in 0..1 : \A g \in 1..n : g = 1 /\ n = 1
      OBVIOUS
    <3>2. QED
      BY <1>10, <3>1, Zenon
  <2>4. QED
    BY <1>12, <1>13, <1>14, <2>1, <2>2, <2>3
<1>16. QED
  BY <1>6, <1>15 DEF FilesAgreed, ArrivedSoFar, OnDisk, BrokenOff, ReceiverSays, Upto,
                     Receiving!Store

\* The receiver that reports "complete" has taken the whole file.
LEMMA CompleteIsAll ==
    ASSUME SessionInv, ReceiveComplete
    PROVE  [Receiving!Next]_(Receiving!receiverVars)
<1>1. /\ phase[Receiver] = "receiving" /\ Go(Receiver, "complete") /\ taken = expected
      /\ UNCHANGED <<sent, expected, taken, accepted>>
      /\ TypeOK /\ ReceiverInv
  BY Parts DEF ReceiveComplete, AllTaken, Only, At, plans, intake
<1>2. phase'[Receiver] = "complete"
  BY <1>1, Moved
<1>3. accepted # Nobody /\ accepted \in Senders /\ expected = num[accepted]
  BY <1>1 DEF ReceiverInv, TypeOK
<1>4. num[accepted] > 0
  BY <1>3, Parts DEF OwnInv
<1>5. taken # 0
  BY <1>1, <1>3, <1>4
<1>6. FilesAgreed = <<Upto(expected)>> /\ OnDisk = FilesAgreed
  BY <1>1, <1>3, <1>5 DEF FilesAgreed, OnDisk
<1>7. <<Upto(expected)>> # <<>>
  OBVIOUS
<1>8. UNCHANGED <<FilesAgreed, ArrivedSoFar, OnDisk>>
  BY <1>1 DEF FilesAgreed, ArrivedSoFar, OnDisk, Upto
<1>9. ReceiverSays = "running" /\ ReceiverSays' = "complete" /\ ~BrokenOff /\ ~BrokenOff'
  BY <1>1, <1>2 DEF ReceiverSays, BrokenOff, At, Ended, Over
<1>10. BrokenOff' = BrokenOff
  BY <1>9 DEF BrokenOff
<1>11. QED
  BY <1>6, <1>7, <1>8, <1>9, <1>10, Promised

\* Every step of the session is one of the promise of the receiver, or none.
LEMMA ReceiverSteps ==
    ASSUME SessionInv, Next
    PROVE  [Receiving!Next]_(Receiving!receiverVars)
<1> DEFINE Goal == [Receiving!Next]_(Receiving!receiverVars)
<1>1. ASSUME NEW s \in Senders, Talk(s) \/ SendFails(s) PROVE Goal
  <2>1. ASSUME NEW l, Go(s, l), UNCHANGED <<sent, taken, accepted, expected>> PROVE Goal
    <3>1. phase'[Receiver] = phase[Receiver]
      BY <2>1, Parts, Moved, SessionAssumption
    <3>2. QED
      BY <2>1, <3>1, QuietReceiver
  <2>2. ASSUME NEW c, NEW l, Only(s, c, l) PROVE Goal
    BY <2>1, <2>2 DEF Only, plans, intake
  <2>3. CASE \/ NothingStaged(s) \/ ConnectRefused(s) \/ Connect(s) \/ RequestThrows(s)
             \/ SendComplete(s) \/ SendFails(s) \/ Breaks(s)
    BY <2>2, <2>3 DEF NothingStaged, ConnectRefused, Connect, RequestThrows, SendComplete,
                      SendFails, Breaks
  <2>4. CASE SendHandshake(s)
    BY <2>1, <2>4 DEF SendHandshake, Write, plans, intake
  <2>5. ASSUME NEW c, NEW l, ReadAnswer(s, c, l) PROVE Goal
    <3>1. \E next : Go(s, next)
      BY <2>5 DEF ReadAnswer
    <3>2. UNCHANGED <<sent, taken, accepted, expected>>
      BY <2>5 DEF ReadAnswer, plans, intake
    <3>3. QED
      BY <2>1, <3>1, <3>2
  <2>6. CASE ReadAnswer(s, "verdict", "request") \/ ReadAnswer(s, "answer", "sending")
    BY <2>5, <2>6
  <2>7. CASE SendRequest(s)
    BY <2>1, <2>7 DEF SendRequest, Write, intake
  <2>8. CASE SendPacket(s)
    BY <2>8, PacketIsArrive
  <2>9. QED
    BY <1>1, <2>3, <2>4, <2>6, <2>7, <2>8 DEF Talk
<1>2. ASSUME NEW l, l \notin {"complete", "returned"}, phase[Receiver] \notin Over,
             Go(Receiver, l), UNCHANGED <<sent, taken, accepted>>,
             expected' = expected \/ accepted = Nobody
      PROVE  Goal
  <2>1. phase'[Receiver] = l
    BY <1>2, Parts, Moved
  <2>2. QED
    BY <1>2, <2>1, QuietReceiver
<1>3. ASSUME NEW c, NEW l, Only(Receiver, c, l), c \notin Over, l \notin {"complete", "returned"}
      PROVE  Goal
  BY <1>2, <1>3 DEF Only, At, plans, intake
<1>4. CASE Listen \/ ReceiveFails
  BY <1>3, <1>4 DEF Listen, ReceiveFails, Over
<1>5. CASE PortTaken
  BY <1>2, <1>5 DEF PortTaken, At, plans, intake, Over
<1>6. ASSUME NEW s \in Senders, Accept(s) \/ PeerLost(s) \/ AnswerLost(s) PROVE Goal
  BY <1>3, <1>6 DEF Accept, PeerLost, AnswerLost, ReceiveFails, Over
<1>7. ASSUME NEW s \in Senders, ReceiveHandshake(s) PROVE Goal
  <2>1. \E ok \in BOOLEAN : Go(Receiver, AfterHandshake(ok))
    BY <1>7 DEF ReceiveHandshake, Verifies
  <2>2. PICK ok \in BOOLEAN : Go(Receiver, AfterHandshake(ok))
    BY <2>1
  <2>3. AfterHandshake(ok) \notin {"complete", "returned"}
    BY DEF AfterHandshake
  <2>4. phase[Receiver] \notin Over /\ UNCHANGED <<sent, taken, accepted, expected>>
    BY <1>7 DEF ReceiveHandshake, Arrives, At, plans, Over
  <2>5. QED
    BY <1>2, <2>2, <2>3, <2>4
<1>8. ASSUME NEW s \in Senders, ReceiveRequest(s) PROVE Goal
  <2>1. /\ phase[Receiver] = "request" /\ Go(Receiver, "prompt")
        /\ UNCHANGED <<sent, taken, accepted>>
    BY <1>8 DEF ReceiveRequest, Arrives, At, plans
  <2>2. accepted = Nobody
    BY <2>1, NotYet
  <2>3. QED
    BY <1>2, <2>1, <2>2 DEF Over
<1>9. ASSUME NEW s \in Senders, TakePacket(s) PROVE Goal
  BY <1>9, TakeIsStore DEF Receiving!Next
<1>10. ASSUME NEW s \in Senders, NEW yes \in BOOLEAN, Answer(s, yes) PROVE Goal
  BY <1>10, AnswerIsAgreed
<1>11. CASE ReceiveComplete
  BY <1>11, CompleteIsAll
<1>12. ASSUME NEW p \in Senders \cup {Receiver}, Kill(p) PROVE Goal
  <2>1. /\ phase[p] \notin Over /\ Go(p, "gone")
        /\ UNCHANGED <<sent, taken, accepted, expected>>
    BY <1>12 DEF Kill, Ended, plans, intake
  <2>2. CASE p = Receiver
    BY <1>2, <2>1, <2>2
  <2>3. CASE p # Receiver
    <3>1. phase'[Receiver] = phase[Receiver]
      BY <2>1, <2>3, Parts, Moved
    <3>2. QED
      BY <2>1, <3>1, QuietReceiver
  <2>4. QED
    BY <2>2, <2>3
<1>13. QED
  BY <1>1, <1>4, <1>5, <1>6, <1>7, <1>8, <1>9, <1>10, <1>11, <1>12 DEF Next, Serve, User

\* The process that runs trit receive keeps the promise of FileReceiver.
THEOREM ReceiverRefines == Spec => ReceiverKeepsPromise
<1>1. Init => Receiving!Init
  <2>1. SUFFICES ASSUME Init PROVE Receiving!Init
    OBVIOUS
  <2>2. phase[Receiver] = "bind" /\ taken = 0 /\ accepted = Nobody
    BY <2>1 DEF Init
  <2>3. ReceiverSays = "running" /\ BrokenOff = FALSE /\ OnDisk = <<>> /\ ArrivedSoFar = 0
    BY <2>2 DEF ReceiverSays, BrokenOff, OnDisk, ArrivedSoFar, At, Ended, Over
  <2>4. QED
    BY <2>3 DEF ReceiverSays, BrokenOff, OnDisk, ArrivedSoFar, Upto, Receiving!Init
<1>2. UNCHANGED vars => UNCHANGED Receiving!receiverVars
  <2>1. SUFFICES ASSUME UNCHANGED vars PROVE UNCHANGED Receiving!receiverVars
    OBVIOUS
  <2>2. UNCHANGED <<sent, expected, taken, accepted, phase>>
    BY <2>1 DEF vars, plans, intake
  <2>3. UNCHANGED <<FilesAgreed, ArrivedSoFar, OnDisk, BrokenOff, ReceiverSays>>
    BY <2>2 DEF FilesAgreed, ArrivedSoFar, OnDisk, BrokenOff, ReceiverSays, Upto, At, Ended
  <2>4. QED
    BY <2>3 DEF FilesAgreed, ArrivedSoFar, OnDisk, BrokenOff, ReceiverSays, Upto,
                Receiving!receiverVars
<1>3. SessionInv /\ [Next]_vars => [Receiving!Next]_(Receiving!receiverVars)
  BY <1>2, ReceiverSteps
<1>4. QED
  BY <1>1, <1>3, Invariance, PTL DEF Spec, ReceiverKeepsPromise, Receiving!Spec
=============================================================================
