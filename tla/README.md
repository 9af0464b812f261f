# A model of trit

trit (`src/README.md`) sends files between two machines: files are put on a list with `trit add`,
`trit send` connects to a `trit receive`, both sides check that they know the same password, the
receiver's user accepts the request, and the files are streamed through a pipeline of threads on
each side. This directory holds TLA+ modules translated from the source, the TLC runs that check
them on small instances, and TLAPS proofs of what holds for every instance. `PROJECT.json` lists
the runs, the source lines each definition stands for, the hazards and the theorems.

Paths that begin with `src/` count from the directory that holds this one and the repository; in the
text `FileManager.cpp` and the like are files of `src/src`, headers of `src/include`.

## 1. Inventory

| Part | State | Operations | Talks to |
|---|---|---|---|
| Send pipeline: `Sender::send_files` with `read_files_into_chunks`, `encrypt_chunks`, `send_chunks` | two queues, two done flags, `chunks_sent`, each thread's locals | chunker, encryption, transmission and progress thread; join | queues, socket, `WorkerContext`, `staging::clear` |
| Receive pipeline: `Receiver::receive_files` with `receive_chunks`, `decrypt_chunks`, `write_files_from_chunks` | two queues, two done flags, `chunks_written`, the files | reception, decryption, writer and progress thread; join | queues, socket, `WorkerContext`, disk |
| `BoundedThreadSafeQueue` | `queue_`, mutex, two condition variables | `push`, `emplace`, `pop`, `try_pop`, `empty` | two threads each |
| `WorkerContext` | abort flag, first exception | `handle_exception`, `should_abort`, `rethrow_if_exception` | all threads of a pipeline |
| Transfer plan: `TransferRequest::from_file_paths` | the request | sizes and number of chunks | chunker, all checks |
| Staging area: `staging.cpp` | `.trit/`, `.trit/.lock`, `.trit/staged.txt` | `stage`, `unstage`, `list`, `clear`, `get_staged_files` | other trit processes in the directory; sender |
| Sessions: `Sender::start_session`, `Receiver::start_session` | the call each process is in, the stream being decrypted | connect, handshake, request, prompt, accept loop | each other, staging, the pipelines |
| `TcpSocket` | the connection, the acceptor | `connect`, `accept`, `read`, `write`, `close` | sessions, pipelines |
| File patterns: `file_pattern_to_regex`, `normalize_patterns` | none | arguments to patterns, pattern to regex, match | staging |
| Request codec: `serialize`, `deserialize` | none | bytes of the request | sessions |
| `EncryptionManager` state, `crypto.cpp` | secretstream state | encrypt, decrypt, handshake tag | libsodium |
| `ProgressTracker`, `Chunk`, `utils.cpp`, `main.cpp` | none to speak of | printing, I/O, argument checks | |
| `CompressionManager` | none | compress, decompress | nothing: no pipeline uses it |

**How the parts interact.** The threads of one side share two queues of 50 places, a done flag
behind each stage and a `WorkerContext`. A stage ends when the flag of the stage before it is set
*and* its input queue is then found empty, or when the abort flag is up. The two sides share the
connection only. The staging area is shared by all trit processes of a working directory, through
the file system; a send reads it twice (`Sender.cpp:25`, `:105`) and clears it at the end (`:204`).
A receiver serves one sender after the other until one transfer has run: `TcpSocket::accept` opens
the acceptor, takes one connection and closes the acceptor again.

**What is hard.** Four threads with two ways to end (done flag, abort flag), blocking and
non-blocking queue operations mixed; failures in the middle of any stage; chunks that span files and
files that span chunks; a lock that is a directory inside the directory it protects; processes
killed or refused between two file system calls; load and save under two different locks. Between the
two machines: either process may die in any call, a sender may be reset because another was accepted,
the streams of earlier sessions must not be mistaken for the present one, and nothing confirms the
last packet. Every error of a socket outside of the pipelines leaves `main`.

**What makes each part correct.** Send: chunks leave in order, each once, cut as the request says;
"complete" means all of them left; any failure ends in a report. Receive: files are prefixes of what
was sent at every moment, and whole when "complete" is printed. Queue: a bounded FIFO without lost
wakeups. Plan: the pieces cut are exactly the pieces announced. Staging: the list is what the user
was told; the lock excludes; no command dies. Sessions: nothing of the files is exchanged unless the
passwords agree; a failed or declined session leaves no trace in the next; nobody waits for ever for
a peer that has gone. Patterns: they select what the table of `src/README.md` says. Codec: the
receiver reads the request that was written, or notices that it cannot.

## 2. Modules

| Module | Models |
|---|---|
| `TransferPlan` | the arithmetic of `from_file_paths` and the chunker's buffer sizes; the reference definition of a chunk |
| `WorkerContext` | the shared abort flag and exception, the catch clauses, the join |
| `SendPipeline` | `send_files`: EXTENDS both |
| `SendInvariant` | the inductive invariant of `SendPipeline`, checked by TLC and used by the proofs |
| `ReceivePipeline` | `receive_files` and the peer: EXTENDS `TransferPlan`, `WorkerContext` |
| `ReceiveInvariant` | the inductive invariant of `ReceivePipeline`, likewise |
| `FileSender`, `FileReceiver` | what the two pipelines promise, without threads (abstract specifications) |
| `Session` | both sides from `connect` and `accept` to the end of the transfer |
| `SessionInvariant` | the inductive invariant of `Session`, likewise |
| `BoundedFifo`, `BoundedQueue` | the promise of the queue and its implementation (refinement) |
| `Staging` | the staging area and the commands that use it |
| `FilePattern` | directories as arguments, the translation of a pattern, the match |
| `TransferCodec` | `TransferRequest`: made, serialized, deserialized: EXTENDS `TransferPlan` |
| `Offer` | from the arguments of `add` to the list the receiver is shown: EXTENDS both |
| `TransferPlanProofs`, `SendProofs`, `ReceiveProofs`, `QueueProofs`, `StagingProofs`, `SessionProofs` | theorems about one module each |
| `OfferProofs` | theorems about `Offer`, and with it about `TransferCodec` and `FilePattern` |
| `SequenceLemmas` | facts about sequences, recursion and folds that the proofs share |
| `MCSend`, `MCReceive`, `MCQueue`, `MCStaging`, `MCSession`, `MCOffer` | instances for TLC |

### The pipelines

One action is one access to state that another thread can see: a queue operation, an atomic load
or store, a socket write, the store of the exception. The local work of a thread around it belongs
to the same action. `pc[w]` names the next access of thread `w`; each label is explained at the
section of its thread. Every function is followed literally: `EncryptLoadDone` and
`EncryptCheckEmpty` are the two operands of `input_done.load() && input_queue.empty()`
(`EncryptionManager.cpp:25`), in this order and as two steps.

Merged on purpose, because no other thread can tell the difference:

* reading or writing file data, which only the owning thread touches, goes with the check of the
  abort flag before it (`ReadBytes`, `WriteBytes`);
* the check of the abort flag at the head of the writer's loop, the write, and the increment of
  `chunks_written` (read by the progress thread only) are one step, as are the five socket writes of
  a packet and the increment of `chunks_sent`: a peer that gets only a part of a packet gets none;
* in the encryption thread, the store of the done flag that directly follows the load or the
  emptiness test that decided it is one step with it. Between the two the thread touches nothing else,
  and what was tested cannot change any more (the abort flag is never lowered, and a queue behind a
  set done flag gets no more chunks), so the run is the same as one that tests later, just before the
  store. The chunker's store after its last loop, or after the abort flag, likewise;
* the loop of the progress thread, which only reads and prints, is its exit;
* the queues are atomic sequences here, which is what run `queue` justifies.

Data: a byte is its position in the concatenation of the files. A chunk is a sequence of positions,
so "the right bytes in the right file" is an equality. Encryption maps chunk `i` to message `pos` of
the secretstream; decryption accepts a message only at its own position, which is what libsodium
guarantees, and a damaged packet is a message of no position.

`faults` (chosen in `Init`, never changed) says what may fail in a run: on the sending side the
file system (`chunker`), the encryption or the connection; on the receiving side the peer stopping
early, a damaged packet, or the disk. A part in `faults` may fail at any of its calls, or never.

What a pipeline promises is stated apart from its threads: `FileSender` is a list of chunks that leave
one by one, and an outcome; `FileReceiver` is a disk that grows by what has arrived, and an outcome.
`Promise` in each pipeline is the refinement mapping (`INSTANCE FileSender WITH plan <- ..., wire <-
..., outcome <- ...`), and `KeepsPromise` the claim that the threads implement it.

### The queue

A member function holds the mutex from its first line to its return except inside `wait`, so a turn
under the mutex is a step: the operation completes, or the thread joins the wait set of a condition
variable. `notify_one` removes one arbitrary member of the set; `SpuriousWakeup` removes one for no
reason. `in` and `out` record what was put and taken; they are also the refinement mapping.

### Sessions

A step is one blocking call on a socket with the work up to the next; `phase[p]` names the call a
process is in. What one side writes with several calls and the other reads with several (salt, tag and
header; the size and the bytes of the request; the parts of a packet) is one message: who can read only
a part of it finds the end of the connection, as it does without that part.

* `conn[s]` follows the connection of sender `s`: none, pending behind the acceptor, open, or cut. `Accept` cuts
  those that wait behind the accepted one, because closing the acceptor resets them. A process that
  ends closes its socket; the other side may still read what was written before (`PeerLost`, `Breaks`).
* A salt, a key and a stream are named by the sender that drew them. A tag verifies under the key it was
  made with; a message decrypts at its own position of its own stream.
* While files are transferred a side is what its pipeline promises, or `"stuck"`: the pipelines' own runs
  show when that happens, here it may happen at any time. So `Session` composes the two sides through
  `FileSender` and `FileReceiver`, and is itself shown to implement both, for the request the user
  accepted (`SendersKeepPromise`, `ReceiverKeepsPromise`).
* `RequestThrows` is every way in which the second load of the list, `from_file_paths` or `serialize`
  throws after the handshake. `Kill` and `PortTaken` share the bound `MaxAccidents`. The user at the
  prompt answers either way or never; the connection may be lost meanwhile (`AnswerLost`).

### Staging

A step is one file system call: `create_directories`, the `create_directory` of the lock, the read,
the truncating open, the write when the stream is closed, each entry of `remove_all(.trit)` in any
order, the final removal of the directory, the unlock. `pc[p]` is a pair (function, next step). An
uncaught exception of the staging area and a kill both end in `Gone`: nothing in `main.cpp` catches, and
with the compilers the build targets an uncaught exception terminates without unwinding, so the
destructors of the locks do not run and `.lock` stays. The connection of a send is seen from the list
here. Only `connect` is inside a try (`Sender.cpp:30-35`), so a connect that fails returns, while an
error of a later read or write, in the handshake (`:40`) or with the request (`:50`), leaves `main`
(`Break`). That place is `Cut`: the command is outside of any lock then and has changed nothing, and the
process is over like a returned one. `opened` says whose stream still refers to the
`staged.txt` that is in the directory, since a process may hold a file another one has removed.
What an argument matches is an arbitrary set of paths here (`FilePattern` says which), and the paths
stand for non-empty regular files (a list of empty files, which `from_file_paths` refuses, is in
`Session` and `Offer`). `alone` is a history variable: no command has overlapped another, none was
killed, and no file has vanished; up to `MaxAlone` commands may run so, `MaxCommands` otherwise.

### From patterns to the request

Paths are sequences of a few characters (`/`, `.`, `*`, `?` and letters), files a small set of them.
`FilePattern` makes patterns of directories, translates a pattern character by character as
`file_pattern_to_regex` does, and gives each token of the expression its meaning; `std::regex` itself
is external. `TransferCodec` writes and reads the request field by field with integers in base `Radix`
and 1, 2 or 3 of its digits where the code has `uint16_t`, `uint32_t` and `uint64_t`; `Thrown` is the
exception. `Offer` runs a few `add` and `drop` commands, lists the staged set in any order, as the
iteration of an `unordered_set` does, makes the request, and hands the receiver the buffer or any
beginning of it.

## 3. Runs

| Run | Question | Result |
|---|---|---|
| `send` | order, wire format, meaning of "complete", termination of `send_files` | passes |
| `receive` | content of the files, meaning of "complete", termination of `receive_files` | passes |
| `queue` | lost wakeups; implementation of a bounded FIFO | passes |
| `staging_shared` | sequences of commands undisturbed; two processes, a kill, vanishing files, broken connections | passes |
| `session` | who is served, what is decrypted, what ends the receiver, what "complete" says of the other side | passes |
| `offer` | what patterns select; the request, its bytes, and what is read from them | passes |
| `send_abort` | does a failure always end in "Transfer failed"? | violated |
| `receive_end` | does a transfer without faults always complete? | violated |
| `staging_lock_excludes` | does the lock directory exclude? | violated |
| `staging_lock_own` | is an existing lock always another's? | violated |
| `staging_lost` | is what was added staged until it is sent? | violated |
| `offer_directory` | does a directory stage all files under it? | violated |

**Bounds.** The pipelines run with `MaxChunk = 2` on four layouts: files of 3, 0 and 4 bytes (chunks
across files, an empty file in the middle, a short last chunk), 0, 1, 0 (one short chunk, empty files
first and last), 4, 2 (exact multiple), and five files of one byte (several files in a chunk). Three
or four chunks with queues of two places fill every queue and make every thread wait; `send_abort`
and `receive_end` use one place to keep the counterexample short. `queue` has two producers and two
consumers where the program has one of each, three pushes each and two places, so that both wait sets
hold two threads. `staging_shared` has two processes, two paths, and three commands and one kill,
enough for one process to be killed inside the lock, a second to be refused, and a third command to
come after; while nothing has disturbed the commands there may be four (`MaxAlone`), one more than is
needed for add, drop and delete in any order with a re-creation after. It uses symmetry in processes
and paths and checks invariants only.

`session` has two senders, so that one can wait behind, be reset by or follow the other; two passwords;
requests of one or two chunks over a connection that holds one packet, so that writes block; and one
accident. `offer` has six files in three directories (a name that differs by the dot only, a path longer
than its length field takes), eleven argument lists that cover the rows of the table of `src/README.md`
but `**/*.ext` (section 5), two edits, and requests of at most three files. Its sizes are the empty file, one chunk, several with
and without a short last one, and 126 and 127 bytes, the largest transfer whose chunks of 2 fit a
counter of 64 values and the first that wraps it. `CounterRange` stands for 2^32; it is 64 there and 8,
above every number of chunks of the layouts, in the pipelines. `MaxCommands`, `MaxAlone`, `MaxKills`,
`MaxPushes`, `MaxAccidents`, `MaxChunks`, `MaxListed` and `MaxEdits` are the only bounds in guards.

**Deadlock.** `queue` checks it. The pipelines stop when they have returned, and, in the two cases of
section 5, when they are stuck; sessions stop when the processes have ended or wait for a user or a
stuck thread; staging stops when the user does; an offer is made once. There `CHECK_DEADLOCK FALSE`
is set and termination is stated as a liveness property where it is promised.

**Fairness.** Weak fairness of every thread: the operating system schedules it. A thread blocked in
`push`, `pop` or a socket read is not enabled, so fairness does not help it. On the receiving side
the peer goes on sending or closes (nothing in the code has a timeout, so without this nothing
would ever have to end); on the sending side a socket write returns. In `queue` the callers keep
calling; a spurious wakeup is never owed. In `Session` a process whose call can return goes on
(`Serve`, and `Talk(s)` for each sender); the user's answer, a failing worker, a thread that is stuck and every
accident are owed to nobody. `Staging` and `Offer` state no liveness.

### Properties

* `StreamInOrder`, `WireMatchesRequest`: over all queues and hands, chunks are never lost, repeated or
  overtaken, and each is the run of bytes the request announces.
* `CompleteMeansAllSent`, `CompleteMeansAllFiles`: the two ways of ending never let a loop stop with
  work left when success is reported, even though the exception is stored after the abort flag.
* `FilesArePrefixes`: at every moment, also after a failure or a damaged packet.
* `NoSpuriousFailure`: the checks of `encrypt_chunk` and `decrypt_chunk` never reject what the other
  parts produce.
* `FaultFreeCompletes` (send), `FaultFreeDelivers` (receive): without faults the transfer ends; on the
  receiving side only up to the defect of section 5, named `Starved` so that nothing else hides in it.
* `AbortEndsUnlessWedged`, `AbortEndsUnlessStuck`: after a failure the join returns, unless exactly one
  of the named blocking situations is reached.
* `ProgressBounded`: the counter the bar is computed from.
* `KeepsPromise` (send, receive): the threads together are a `FileSender`, a `FileReceiver`. An outcome is
  final, and "complete" is given only when everything has left, or is on disk.
* `NoLostWakeup`, `ImplementsFifo`: see the module.
* `SendInv`, `ReceiveInv`, `SessionInv`: the inductive invariants the proofs of section 4 rest on.
* `ListIsWhatWasReported`: after any sequence of commands that did not overlap and were not disturbed.
* `StagingKillsNobody`: in such a sequence the staging area ends no command by an exception, and the lock is
  free after each. A connection that breaks may end one, without disturbing the list or the lock.
* `ExclusiveUntilDeleted`, `WholeListUntilDeleted`: what the lock does achieve, with kills and refusals,
  until the first `remove_all(.trit)`.
* `SamePassword`, `PacketsDecrypt`: what earlier sessions, failed or declined, must not change.
* `ReceiverSurvives`: nothing a living sender does ends the receiver. A sender that has died, its connection cut,
  may: a socket error outside of the pipeline leaves `main`. (Any such sender excuses the receiver, also one
  it has not served: the property does not follow which connection the error was on.)
* `SentIsThereOrComing`: there is no receipt, so this is all that "complete" says of the receiver: the
  packets are in the connection or read, as long as the receiver goes on.
* `SendersAreServed`, `ReceiverIsFreed`: nobody waits for ever but for a user, a new connection or a
  pipeline that is stuck. No call has a timeout; these are the exceptions this makes necessary.
* `AsDocumented`: the selection of every add and drop against a definition written from the table, for the
  arguments `IsRow` describes; section 5 has the others.
* `ArrivesAsStaged`, `CutIsNoticed`: `deserialize` inverts `serialize` and refuses every proper beginning.
* `PlanCoversTransfer`: the announced chunks hold the bytes of the files exactly when their number fits the
  counter; beyond that `num_chunks` wraps without an error (32 TiB in the program).

## 4. Proofs

TLAPS checks every leaf; nothing is assumed but the named assumptions on the constants
(`PlanAssumption`, `SendAssumption`, `ReceiveAssumption`, `QueueAssumption`, `SessionAssumption`,
`StagingAssumption`, `CodecAssumption`, `OfferAssumption`, `FilesAssumption`, `ArgumentsAssumption`), which TLC evaluates on its
runs. Every theorem holds for all values of the constants: any number of senders, processes and threads,
any capacity, any layout of files that fits the counter, any set of faults, any widths of the integers,
any files and sizes. Every invariant and safety refinement of section 3 is proved.

The assumptions say what the program gives. `CodecAssumption`: the counters have the range of a
`uint32_t`, the largest chunk fits one, and so does its product with the range of the counter a
`uint64_t` (2^13 and 2^45 in the program). `OfferAssumption`: a size is a `uint64_t`, a path a sequence of bytes, and
no more files are listed than a `uint32_t` counts. `FilesAssumption`: a path of the working directory is not
empty, is not also a directory, and is spelled without steps that are a dot and slashes too many (`Canonical`), since
`std::filesystem::relative` makes it. `ArgumentsAssumption`: an argument is not absolute and has no step `..`; it may
be spelled in any other way.

| Module | Theorems (the property each states) |
|---|---|
| `TransferPlanProofs` | `ChunkCuts`, `AnnouncedIsTransfer` |
| `SendProofs` | `Invariance` (`SendInv`), `TypeCorrect`, `StreamCorrect` (`StreamInOrder`), `WireCorrect` (`WireMatchesRequest`), `CompleteSafe` (`CompleteMeansAllSent`), `NoSpurious`, `Refinement` (`KeepsPromise`) |
| `ReceiveProofs` | `Invariance` (`ReceiveInv`), `TypeCorrect`, `FilesCorrect` (`FilesArePrefixes`), `CompleteSafe` (`CompleteMeansAllFiles`), `ProgressSafe` (`ProgressBounded`), `NoSpurious`, `Refinement` (`KeepsPromise`) |
| `QueueProofs` | `Invariance`, `TypeCorrect`, `WakeupsKept` (`NoLostWakeup`), `Refinement` (the steps of `BoundedFifo`) |
| `StagingProofs` | `TypeCorrect`, `LockWorks` (`ExclusiveUntilDeleted`), `ListIsWhole` (`WholeListUntilDeleted`), `ListCorrect` (`ListIsWhatWasReported`), `UndisturbedCommandsSurvive` (`StagingKillsNobody`) |
| `SessionProofs` | `Invariance` (`SessionInv`), `TypeCorrect`, `Survives` (`ReceiverSurvives`), `PasswordsAgree` (`SamePassword`), `StreamsDecrypt` (`PacketsDecrypt`), `NothingLost` (`SentIsThereOrComing`), `SendersRefine` (`SendersKeepPromise`), `ReceiverRefines` (`ReceiverKeepsPromise`) |
| `OfferProofs` | `Invariance`, `PlanCorrect` (`PlanCoversTransfer`), `RequestArrives` (`ArrivesAsStaged`), `CutThrows` (`CutIsNoticed`), `SelectsAsDocumented` (`AsDocumented`) |

* **`TransferPlanProofs`.** `ChunkCuts`: for every transfer whose number of chunks fits the counter
  (`Fits`), the buffers the chunker allocates follow each other in the stream without gap or overlap,
  are never empty or larger than the regular size, and hold the chunks of the reference definition.
  It rests on division rounded up (`RoundedUp`), the remainder of the last chunk (`LastChunk`) and the
  fields of the request (`RequestShape`). This is where "final size 0 means a full last chunk" is
  settled for all sizes; TLC sees four layouts. `AnnouncedIsTransfer` is the arithmetic behind
  `PlanCoversTransfer`: what the announced chunks hold is the transfer if `Fits`, and less if not.
* **`SendProofs`.** `Invariance` (`Spec => []SendInv`) and from it type correctness, `StreamInOrder`,
  `WireMatchesRequest`, `CompleteMeansAllSent` and `NoSpuriousFailure`. None of these is inductive.
  That "complete" means everything was sent
  needs: when the encryption thread is between its two tests, the chunker has ended and its queue can
  only shrink; so a queue found empty then stays empty; so the encryption thread leaves nothing behind;
  and the same again for the transmission thread (`DoneInv`). This holds as long as no worker has
  thrown, hence `AbortInv`: the abort flag is up only if an exception is recorded or about to be, so a
  join that finds no exception has seen no abort. That no chunk is lost needs to know where each one
  is (`PlacesInv`, `HandsInv`), and that the chunker cuts the stream where the request says needs its
  local state (`ChunkerInv`), which `ChunkCuts` advances by one chunk. One lemma per action. TLC checks
  `SendInv` in run `send`. `Refinement` (`Spec => KeepsPromise`) then shows that the threads implement
  `FileSender`: a packet written is its `Send`, the end of `send_files` its `End`, every other step a
  stutter (`WriteIsSend`, `MainIsEnd`, `QuietSteps`). It needs the invariant twice: a packet must be the
  next of the plan, and a `send_files` that reports "complete" must have put all of the plan on the wire. (The join waits for the progress thread too, which waits for the count; so a
  transmission loop that ended early would hang `send_files` rather than report success. `SendInv` and
  `FaultFreeCompletes` are the properties that catch it.)
* **`ReceiveProofs`.** The invariant (`ReceiveInvariant`, checked in run `receive`) says where each packet
  of the connection is (`PlacesInv`: what is before the decryption as it came, damaged or not; what is
  behind it intact), what the flags imply (`DoneInv`, `AbortInv`, as above), and what the files are. The
  last is the hard part, because the writer may take part of a chunk for one file and the rest for the
  next: `WriterInv` ties the file that is open, the bytes it still needs and the bytes left of the
  chunk in hand to one position in the stream. It holds only until the abort flag is up: a thread that
  throws may have dropped a chunk. `FilesInv`, that each file is a prefix and of bytes that have
  arrived, must hold after a failure as well; it can, because the writer tests the flag before each write
  and writes nothing afterwards. That "complete" means all files then needs a join that has seen no
  exception, hence no abort, hence `WriterInv` with the writer at its end (`AllWritten`). `Refinement`
  maps a packet taken to the `Arrive` of `FileReceiver`, a file opened or written to its `Store`, the end
  to `Finish` or `Fail`.
* **`QueueProofs`.** `NoLostWakeup` (there is a thread on its way for every element somebody sleeps
  beside, and for every place) is inductive with the types and two parts that say what
  the history is (`FifoInv`, `CountInv`). Each of the proofs of its steps is about the cardinality of
  the set of threads that are on their way: `notify_one` adds one as an element is added, and a thread
  that goes to sleep has found none. This is why `notify_one` is enough for any number of threads. `Refinement`
  covers the steps; that waiting ends stays with TLC.
* **`StagingProofs`.** `LockWorks` and `ListIsWhole`: for any number of processes, paths and kills.
  Whoever is inside has the lock and is alone (`LockInv`); the list is the one last saved except between
  truncation and write, or when a process has died there and its lock directory remains (`ListInv`).
  Both speak of the states before the first deletion only; afterwards they are false, as run
  `staging_lock_excludes` shows. `ListCorrect` and `UndisturbedCommandsSurvive` are about commands of which none
  overlaps another, in a sequence of any length, with deletions. `AloneInv` follows the one command that
  runs through its steps: in a load (`Reading`), during the transfer and before a clear (`Finishing`), in the save (`Saving`),
  or in the removal of the area entry by entry (`Deleting`); between two commands the list is `Settled`.
  Each says where nobody may hold the lock and what the list, the command's copy of it and what has been
  reported are to each other.
* **`SessionProofs`.** The invariant (`SessionInvariant`, checked in run `session`) relates, for each
  sender, the call it is in, the messages of its connection in both directions, and the call the receiver
  is in: `ConnInv` has one clause for each state of the receiver a connection can be open in
  (`Greeting`, `Asking`, `Waiting`, `Streaming`, `Refused`), and in each the sender may be gone. `SamePassword`
  is not inductive, because it says nothing of a verdict that is on its way; `PacketsDecrypt` neither,
  because it says nothing of a decryptor that an earlier session leaves behind. A step moves one
  process, so the proof of a step is about one sender and the frame: `Unmoved`, `Aside` and `Dropped`
  say why the other senders keep their parts, for any number of them.
  For the two refinements, the plan, the wire and the outcome of a sender, and the files and the
  outcome of the receiver, are functions of the state of `Session` (the refinement mapping). A packet
  written is a `Send` of its sender and an `Arrive` of the receiver, a packet taken a `Store`, the accepting
  answer an `Agree` of both; that nothing else changes them rests on the invariant: a request is accepted
  once, and what is expected is what its sender has announced.

* **`OfferProofs`.** The invariant (`OfferInv`) only says what each value was made from, step by
  step; the work is in what the functions of the code compute, for every input. They recurse over data: the
  sum of the sizes (`FoldLeft`), the bytes of a buffer (`FlattenSeq`), the value of some bytes
  (`FoldRight`), the translation of a pattern (a recursive function). The induction theorems of the library
  do not apply, so `SequenceLemmas` has the principle for sets of numbers (`UpTo`, `DownFrom`) and for
  finite sets (`SetInduction`), and shows from them that such a function exists and satisfies its own
  equation (`Recursion`, `FoldRecursion`, `LeftRecursion`, `RightRecursion`, `FlattenDef`). A sum over the staged
  set does then not depend on the order in which the set is listed, and with a 64-bit sum that does not wrap
  `AnnouncedIsTransfer` gives `PlanCorrect`. For the two theorems about the buffer, a number is recovered from
  its digits (`NumberOfUint`), and a reader at the position where a piece begins, in a buffer cut at any
  length, has read the piece if all of it is there and has thrown if not (`TakePiece`, `InfoReads`,
  `HeaderReads`, `TurnsRead`); so the whole request is read back from the whole buffer and nothing from less
  (`RoundTrip`). `SelectsAsDocumented` follows the translation (`RegexShape`) and the match from
  the end of the path (`MatchDef`): the atoms behind the only star match at one place (`SuffixEnds`), those
  before it one by one from the beginning (`PrefixEnds`), which leaves the piece in the middle (`MatchStar`).
  Each row of the table is then one lemma (`SelectsLine`, `SelectsStar`, `SelectsStars`,
  `SelectsDirectory`); that `is_directory` sees a directory exactly by the files whose path begins with its
  name and a slash is `DirectOf`. The hypothesis is that the arguments are rows of the table (`IsRow`): a name
  or a directory without a wildcard, one wildcard in any place, or two stars at the end, each in its canonical
  spelling. TLC tests it on the arguments of `MCOffer`. So the theorem does not speak of two kinds of arguments
  that `src/README.md` does speak of, because the code treats them otherwise (section 5): the row `**/*.ext`,
  and a directory named with a dot (`.`, `./d`, `d/.`). `IsDirectory` is true of all of these spellings, as
  `std::filesystem::is_directory` is, so they count as directories in `DirectoryIsItsTree`, which is violated.
  What several stars in one pattern select is not in the table.

**Only model-checked.**

* Liveness under fairness, which the prover does not reach: `FaultFreeCompletes`, `FaultFreeDelivers`,
  `AbortEndsUnlessWedged`, `AbortEndsUnlessStuck`, `SendersAreServed`, `ReceiverIsFreed`, and that waiting
  ends in `ImplementsFifo`.
* The properties of the violated runs (section 5): they are false.

## 5. Where code and words differ

1. *The writer may wait for a chunk after the last one* (`FileManager.cpp:137-141`; run `receive_end`).
   After its last chunk the writer tests `input_done.load() && input_queue.empty()`. The decryption
   thread stores the flag only after one more turn of its loop. If the writer is faster, it calls
   `pop()` and waits for ever: all bytes are written, but `receive_files` does not return, nothing is
   printed, and empty files at the end of the request are not created. Nothing has to fail for this.
2. *A failure may hang instead of being reported* (`BoundedThreadSafeQueue.h:22`; run `send_abort`). A
   thread in `push` on a full queue does not look at the abort flag, and a consumer that leaves wakes
   nobody. The same in the receiver, and there also in the writer's `pop` (`FileManager.cpp:92`, `:141`):
   `AbortEndsUnlessStuck` names both situations.
3. *A command may lock itself out* (`staging.cpp:119`; run `staging_lock_own`). When every listed file has
   disappeared, `load_staged_files` calls `delete_staging_files` with its own lock held; the exception
   terminates the command and leaves `.lock`, so every later command is refused.
4. *The lock does not exclude a deletion* (`staging.cpp:76`, `:51`; run `staging_lock_excludes`). The lock
   directory is removed with the directory it is in, before the deletion has finished, and a destructor
   then removes whichever lock directory is there.
5. *Staged files may be forgotten* (`staging.cpp:259,290`, `Sender.cpp:204`; run `staging_lost`). Load and
   save are under different locks, and the clear after a send removes also what was added during it.
6. *A directory named with a dot selects nothing* (`staging.cpp:246`; run `offer_directory`). A directory
   argument is extended as it is spelled, so `.`, `./d` and `d/.` become `./**`, `./d/**` and `d/./**`. The paths
   these are matched with are relative to the working directory and have no step that is a dot.
   `src/README.md:123` says that a directory stages all files under it. (A pattern that begins with a dot and
   a slash, like `./*.ext`, matches nothing for the same reason.)

Met while reading and not the subject of a run of their own: the pattern `**/*.ext` (`src/README.md:90`) misses
files at the top level, since the slash stays in the expression; an error when an `ofstream` is closed is
not looked at; a file name with a line feed is two lines of the list; at the end of the standard input the prompt
is repeated for ever. That the sender clears its list without a receipt, that a socket error outside of a
pipeline ends the receiver, and that a list of only empty files throws after the handshake are part of
`Session`, whose properties name them as exceptions. The rest is under "hazards" in `PROJECT.json`.

## 6. Not modelled

* `CompressionManager`: no pipeline uses it.
* Cryptography beyond what its callers rely on: which key opens a tag, and the order and tags of messages.
* The choice of a random port, addresses, the log file, printing, argument checks: I/O and wording. The
  compressed flag and the original size of a chunk: nothing reads them after reception.
* In the pipelines, transfers whose number of chunks does not fit a `uint32_t`: `Fits` excludes them.
  `Offer` shows what their request says.
* Buffering of an `ofstream`, and paths with a line feed (section 5).
* Arguments of `add` and `drop` that are absolute or have a step `..` (`ArgumentsAssumption`).
* File system errors inside `staging.cpp` other than those that follow from the other processes (no
  space, permissions).

## 7. Plan

The modelling is done, in this order: `TransferPlan`, `WorkerContext`, `SendPipeline` with its invariant and
proofs, `ReceivePipeline`, `BoundedQueue` against `BoundedFifo`, `Staging` with its proofs; then
`FileSender` and `FileReceiver` with the refinements, `Session`, and `FilePattern`, `TransferCodec` and `Offer`.

Then the proofs, in the order of section 4: of every safety property of the passing runs. What they leave to
TLC is listed at its end.
