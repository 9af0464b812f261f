------------------------------- MODULE Session -------------------------------
(***************************************************************************)
(* trit send and trit receive from the connection to the end of the          *)
(* transfer: Sender::start_session in one or more processes, the accept loop *)
(* of Receiver::start_session in another, and the connections between them.  *)
(*                                                                         *)
(* A step is one blocking call on a socket, with the work up to the next.    *)
(* What is written with several calls and read with several is one message:  *)
(* who reads a part of it sees the end of the connection, as it does without *)
(* that part. While files are transferred each side is what its pipeline     *)
(* promises to be (FileSender, FileReceiver), or stuck as pipelines may be.  *)
(***************************************************************************)
EXTENDS Integers, Sequences

CONSTANTS Senders,       \* the processes that run trit send
          Receiver,      \* the process that runs trit receive
          Nobody,        \* no sender
          Passwords,     \* the passwords that may be given
          MaxChunks,     \* bound: chunks of one transfer
          SocketBuffer,  \* packets a connection holds before a write blocks
          MaxAccidents   \* bound: processes killed, ports taken

ASSUME SessionAssumption ==
    /\ Receiver \notin Senders /\ Nobody \notin Senders
    /\ MaxChunks \in Nat \ {0} /\ SocketBuffer \in Nat \ {0} /\ MaxAccidents \in Nat

VARIABLES
    password,     \* the password each process was started with
    phase,        \* the call each process is in, or how it has ended
    conn,         \* conn[s]: the connection of s, seen from the receiver's side
    toReceiver,   \* toReceiver[s]: the messages on their way from s
    toSender,     \* toSender[s]: the answers on their way to s
    num, sent,    \* chunks in the request of s; packets it has written
    expected,     \* chunks in the request the receiver has read
    taken,        \* packets the receiver has read
    decryptor,    \* decryptor_opt: the stream it decrypts, or Nobody
    accepted,     \* history: the sender whose request was accepted, or Nobody
    accidents     \* counter of the bound

wires    == <<toReceiver, toSender>>
plans    == <<num, sent>>
intake   == <<expected, taken, decryptor, accepted>>
vars     == <<password, phase, conn, wires, plans, intake, accidents>>

\* How a process ends: start_session returns without a transfer; "complete";
\* "Transfer failed"; an exception leaves main, or it is killed.
Over == {"returned", "complete", "failed", "gone"}

At(p, call) == phase[p] = call
Go(p, call) == phase' = [phase EXCEPT ![p] = call]
Ended(p)    == phase[p] \in Over

Init ==
    /\ password \in [Senders \cup {Receiver} -> Passwords]
    /\ phase = [p \in Senders \cup {Receiver} |-> IF p = Receiver THEN "bind" ELSE "connect"]
    /\ conn = [s \in Senders |-> "none"]
    /\ toReceiver = [s \in Senders |-> <<>>] /\ toSender = [s \in Senders |-> <<>>]
    /\ num = [s \in Senders |-> 0] /\ sent = [s \in Senders |-> 0]
    /\ expected = 0 /\ taken = 0 /\ decryptor = Nobody /\ accepted = Nobody
    /\ accidents = 0
-----------------------------------------------------------------------------
(***************************************************************************)
(* The sender. It draws a salt of its own and starts one encrypted stream,   *)
(* so its name stands for both.                                              *)
(***************************************************************************)
Key(pw, salt) == <<pw, salt>>

Only(s, call, next) ==
    At(s, call) /\ Go(s, next) /\ UNCHANGED <<password, wires, plans, intake, accidents>>

\* There is nothing to send, or nobody listens.
NothingStaged(s) == Only(s, "connect", "returned") /\ UNCHANGED conn

ConnectRefused(s) ==
    ~At(Receiver, "accept") /\ Only(s, "connect", "returned") /\ UNCHANGED conn

Connect(s) ==
    /\ At(Receiver, "accept") /\ Only(s, "connect", "handshake")
    /\ conn' = [conn EXCEPT ![s] = "pending"]

\* A write to a connection that the other side has closed is lost, or it Breaks.
Write(s, message) ==
    /\ toReceiver' = IF conn[s] = "cut" THEN toReceiver
                     ELSE [toReceiver EXCEPT ![s] = Append(@, message)]
    /\ UNCHANGED <<password, conn, toSender, intake, accidents>>

\* Salt, nonce and encrypted tag, header of the stream.
SendHandshake(s) ==
    /\ At(s, "handshake") /\ Go(s, "verdict") /\ UNCHANGED plans
    /\ Write(s, [salt |-> s, tag |-> Key(password[s], s), header |-> s])

\* Faulty variant: the answer is read, and not looked at.
MayGoOnAnyway(answer) == TRUE

MayGoOn(answer) == answer

\* One byte ends the handshake and the request.
ReadAnswer(s, call, next) ==
    /\ At(s, call) /\ toSender[s] # <<>>
    /\ Go(s, IF MayGoOn(Head(toSender[s])) THEN next ELSE "returned")
    /\ toSender' = [toSender EXCEPT ![s] = Tail(@)]
    /\ UNCHANGED <<password, conn, toReceiver, plans, intake, accidents>>

\* The list is loaded again, and still has something to send.
SendRequest(s) ==
    /\ At(s, "request") /\ Go(s, "answer") /\ UNCHANGED sent
    /\ \E n \in 1..MaxChunks : num' = [num EXCEPT ![s] = n] /\ Write(s, [chunks |-> n])

\* It has no byte to send, or names a file that is gone, or a path too long: the
\* exception leaves main while the receiver waits for the request.
RequestThrows(s) == Only(s, "request", "gone") /\ UNCHANGED conn

\* The transmission thread; it blocks while the connection is full.
SendPacket(s) ==
    /\ At(s, "sending") /\ sent[s] < num[s]
    /\ conn[s] = "cut" \/ Len(toReceiver[s]) < SocketBuffer
    /\ sent' = [sent EXCEPT ![s] = @ + 1]
    /\ Write(s, [stream |-> s, chunk |-> sent[s] + 1])
    /\ UNCHANGED <<phase, num>>

\* Faulty variant: the last packet is forgotten.
AllButOneSent(s) == sent[s] + 1 >= num[s]

AllSent(s) == sent[s] = num[s]

\* "Files sent, transfer complete!", and the list is cleared.
SendComplete(s) == AllSent(s) /\ Only(s, "sending", "complete") /\ UNCHANGED conn

\* A worker throws: "Transfer failed", or a thread waits in push for ever.
SendFails(s) ==
    \E end \in {"failed", "stuck"} : Only(s, "sending", end) /\ UNCHANGED conn

\* The receiver has closed the connection, and all it wrote before has been read.
Broken(s) == conn[s] = "cut" /\ (phase[s] \in {"verdict", "answer"} => toSender[s] = <<>>)

\* A call on a closed connection throws; only the pipeline catches it.
Breaks(s) ==
    /\ Broken(s)
    /\ \/ \E call \in {"handshake", "verdict", "request", "answer"} : Only(s, call, "gone")
       \/ \E end \in {"failed", "stuck"} : Only(s, "sending", end)
    /\ UNCHANGED conn

Talk(s) == \/ NothingStaged(s) \/ ConnectRefused(s) \/ Connect(s) \/ SendHandshake(s)
           \/ ReadAnswer(s, "verdict", "request") \/ SendRequest(s) \/ RequestThrows(s)
           \/ ReadAnswer(s, "answer", "sending") \/ SendPacket(s) \/ SendComplete(s)
           \/ Breaks(s)
-----------------------------------------------------------------------------
\* The receiver. Its sockets: sender_socket_ is the open connection, those that
\* have connected and are not accepted belong to the acceptor.
\* Faulty variant: the connection is not closed.
StayConnected == UNCHANGED conn

HangUp == conn' = [s \in Senders |-> IF conn[s] \in {"open", "pending"} THEN "cut" ELSE conn[s]]

\* The head of the loop: the connection of the turn before is closed, and the port
\* bound again; unless another program has taken it, and the exception leaves main.
Listen == Only(Receiver, "bind", "accept") /\ HangUp

PortTaken ==
    /\ accidents < MaxAccidents /\ accidents' = accidents + 1
    /\ At(Receiver, "bind") /\ Go(Receiver, "gone") /\ HangUp
    /\ UNCHANGED <<password, wires, plans, intake>>

\* Faulty variant: the acceptor stays open.
KeptBehind(c) == c

\* One connection is accepted; closing the acceptor resets those behind it.
Behind(c) == IF c = "pending" THEN "cut" ELSE c

Accept(s) ==
    /\ conn[s] = "pending" /\ Only(Receiver, "accept", "handshake")
    /\ conn' = [t \in Senders |-> IF t = s THEN "open" ELSE Behind(conn[t])]

\* The next message of the open connection, as far as there is one.
Arrives(s, call) ==
    /\ At(Receiver, call) /\ conn[s] = "open" /\ toReceiver[s] # <<>>
    /\ toReceiver' = [toReceiver EXCEPT ![s] = Tail(@)]

Reply(s, yes) == toSender' = [toSender EXCEPT ![s] = Append(@, yes)]

\* Faulty variants: any tag is good; a decryptor made once is kept; a tag that
\* does not verify is an exception.
VerifiesAnyway(key, tag) == TRUE
StreamKept(ok, header) == IF ok /\ decryptor = Nobody THEN header ELSE decryptor
HandshakeThrows(ok) == IF ok THEN "request" ELSE "gone"

\* verify_handshake_tag: the tag opens only under the key it was made with.
Verifies(key, tag) == key = tag

\* decryptor_opt, empty at the head of every turn of the loop.
StreamAfter(ok, header) == IF ok THEN header ELSE Nobody

AfterHandshake(ok) == IF ok THEN "request" ELSE "bind"

ReceiveHandshake(s) ==
    /\ Arrives(s, "handshake")
    /\ LET m  == Head(toReceiver[s])
           ok == Verifies(Key(password[Receiver], m.salt), m.tag)
       IN /\ Reply(s, ok)
          /\ decryptor' = StreamAfter(ok, m.header)
          /\ Go(Receiver, AfterHandshake(ok))
    /\ UNCHANGED <<password, conn, plans, expected, taken, accepted, accidents>>

ReceiveRequest(s) ==
    /\ Arrives(s, "request") /\ Go(Receiver, "prompt")
    /\ expected' = Head(toReceiver[s]).chunks
    /\ UNCHANGED <<password, conn, toSender, plans, taken, decryptor, accepted, accidents>>

\* The user answers the prompt.
Answer(s, yes) ==
    /\ At(Receiver, "prompt") /\ conn[s] = "open"
    /\ Go(Receiver, IF yes THEN "receiving" ELSE "bind")
    /\ Reply(s, yes)
    /\ accepted' = IF yes THEN s ELSE accepted
    /\ UNCHANGED <<password, conn, toReceiver, plans, expected, taken, decryptor, accidents>>

\* decrypt_chunk takes the next message of its stream, and nothing else.
Decrypts(m) == m = [stream |-> decryptor, chunk |-> taken + 1]

TakePacket(s) ==
    /\ Arrives(s, "receiving") /\ taken < expected /\ Decrypts(Head(toReceiver[s]))
    /\ taken' = taken + 1
    /\ UNCHANGED <<password, phase, conn, toSender, plans, expected, decryptor, accepted,
                   accidents>>

\* Faulty variant: the last packet is not waited for.
AllButOneTaken == taken + 1 >= expected

AllTaken == taken = expected

\* "Files received, transfer complete!"
ReceiveComplete == AllTaken /\ Only(Receiver, "receiving", "complete") /\ HangUp

\* A worker throws, or the writer waits for one chunk more: "Transfer failed", or
\* the threads are not joined, and the connection stays open.
ReceiveFails ==
    \/ Only(Receiver, "receiving", "failed") /\ HangUp
    \/ Only(Receiver, "receiving", "stuck") /\ UNCHANGED conn

\* Faulty variant: the socket is not closed when start_session returns.
HungUpByExit(s) == conn[s] = "open" /\ phase[s] = "gone"

\* The sender has ended, which closes its socket.
HungUp(s) == conn[s] = "open" /\ Ended(s)

\* A read finds the end of the connection, or a write does not get through. Only
\* the pipeline catches that.
PeerLost(s) ==
    /\ HungUp(s)
    /\ \/ Only(Receiver, "handshake", "gone") /\ HangUp
       \/ toReceiver[s] = <<>> /\ Only(Receiver, "request", "gone") /\ HangUp
       \/ toReceiver[s] = <<>> /\ taken < expected /\ ReceiveFails

AnswerLost(s) == HungUp(s) /\ Only(Receiver, "prompt", "gone") /\ HangUp

Serve == \/ Listen \/ PortTaken \/ ReceiveComplete
         \/ \E s \in Senders : \/ Accept(s) \/ ReceiveHandshake(s) \/ ReceiveRequest(s)
                               \/ TakePacket(s) \/ PeerLost(s)

User == \E s \in Senders : AnswerLost(s) \/ \E yes \in BOOLEAN : Answer(s, yes)

Kill(p) ==
    /\ ~Ended(p) /\ Go(p, "gone")
    /\ IF p = Receiver THEN HangUp ELSE UNCHANGED conn
    /\ accidents < MaxAccidents /\ accidents' = accidents + 1
    /\ UNCHANGED <<password, wires, plans, intake>>

Next == \/ Serve \/ User \/ ReceiveFails
        \/ \E s \in Senders : Talk(s) \/ SendFails(s)
        \/ \E p \in Senders \cup {Receiver} : Kill(p)

Spec == Init /\ [][Next]_vars

(***************************************************************************)
(* Each process goes on while its calls return. Nothing makes a user answer  *)
(* the prompt, a worker fail, or a thread that is stuck go on.               *)
(***************************************************************************)
FairSpec == Spec /\ WF_vars(Serve) /\ \A s \in Senders : WF_vars(Talk(s))
-----------------------------------------------------------------------------
Messages == [salt : Senders, tag : Passwords \X Senders, header : Senders]
            \cup [chunks : 1..MaxChunks] \cup [stream : Senders, chunk : 1..MaxChunks]

\* Every variable holds a value of its type; one connection at most is open.
TypeOK ==
    /\ password \in [Senders \cup {Receiver} -> Passwords]
    /\ phase \in [Senders \cup {Receiver} ->
                    Over \cup {"connect", "handshake", "verdict", "request", "answer",
                               "sending", "stuck", "bind", "accept", "prompt", "receiving"}]
    /\ conn \in [Senders -> {"none", "pending", "open", "cut"}]
    /\ \A s, t \in Senders : conn[s] = "open" /\ conn[t] = "open" => s = t
    /\ toReceiver \in [Senders -> Seq(Messages)] /\ toSender \in [Senders -> Seq(BOOLEAN)]
    /\ num \in [Senders -> 0..MaxChunks] /\ sent \in [Senders -> 0..MaxChunks]
    /\ expected \in 0..MaxChunks /\ taken \in 0..expected
    /\ decryptor \in Senders \cup {Nobody} /\ accepted \in Senders \cup {Nobody}
    /\ accidents \in 0..MaxAccidents

(***************************************************************************)
(* What may go wrong.                                                        *)
(***************************************************************************)
\* Names and sizes of files are read, and files sent, only between two processes
\* that were given the same password.
SamePassword ==
    /\ \A s \in Senders : num[s] > 0 => password[s] = password[Receiver]
    /\ phase[Receiver] \in {"request", "prompt", "receiving"} =>
          \A s \in Senders : conn[s] = "open" => password[s] = password[Receiver]

\* Whatever sessions have failed or been declined before, what comes first through
\* the accepted connection is what the decryptor expects next.
PacketsDecrypt ==
    \A s \in Senders :
        At(Receiver, "receiving") /\ conn[s] = "open" /\ toReceiver[s] # <<>>
            => taken < expected /\ Decrypts(Head(toReceiver[s]))

\* A wrong password, a declined request and a sender that is refused or reset never
\* end the receiver: if an exception leaves its main, it was killed, its port taken,
\* or a sender has died and left its connection cut.
ReceiverSurvives ==
    At(Receiver, "gone") => accidents > 0 \/ \E s \in Senders : At(s, "gone") /\ conn[s] = "cut"

\* For each sender: no packet leaves before the receiver's user has accepted, and
\* "complete", which clears the list, means that the whole request has left.
Sending(s) == INSTANCE FileSender WITH
    plan    <- IF s = accepted THEN [i \in 1..num[s] |-> i] ELSE <<>>,
    wire    <- [i \in 1..sent[s] |-> i],
    outcome <- IF At(s, "complete") THEN "complete" ELSE IF Ended(s) THEN "failed" ELSE "running"

SendersKeepPromise ==
    /\ \A s \in Senders : Sending(s)!Init
    /\ [][\A s \in Senders : [Sending(s)!Next]_(Sending(s)!senderVars)]_vars

\* The receiver: its file grows by what the accepted sender has written, and
\* "complete" means that all of the accepted request is there.
Receiving == INSTANCE FileReceiver WITH
    files   <- IF accepted = Nobody THEN <<>> ELSE <<[i \in 1..expected |-> i]>>,
    arrived <- IF accepted = Nobody THEN 0 ELSE sent[accepted],
    disk    <- IF taken = 0 THEN <<>> ELSE <<[i \in 1..taken |-> i]>>,
    broken  <- At(Receiver, "failed") \/ At(Receiver, "gone"),
    outcome <- IF At(Receiver, "complete") THEN "complete"
               ELSE IF Ended(Receiver) THEN "failed" ELSE "running"

ReceiverKeepsPromise == Receiving!Spec

\* Nobody confirms the last packet. Still, what a sender has reported as sent is
\* at the receiver or in the connection as long as the receiver goes on.
SentIsThereOrComing ==
    \A s \in Senders : At(s, "complete") /\ conn[s] = "open" =>
        taken + Len(toReceiver[s]) = num[s] /\ expected = num[s]

\* No sender waits for ever, except for the receiver's user and a stuck pipeline.
SendersAreServed ==
    \A s \in Senders : []<>(\/ Ended(s) \/ At(s, "stuck")
                            \/ conn[s] = "open" /\ phase[Receiver] \in {"prompt", "stuck"})

\* The receiver waits for ever only for a connection, for its user, for a stuck
\* pipeline of its own or of its peer: a peer that ends, at any point, frees it.
ReceiverIsFreed ==
    []<>(\/ phase[Receiver] \in Over \cup {"accept", "prompt", "stuck"}
         \/ \E s \in Senders : conn[s] = "open" /\ At(s, "stuck"))
=============================================================================
