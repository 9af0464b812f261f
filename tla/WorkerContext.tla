---------------------------- MODULE WorkerContext ----------------------------
(***************************************************************************)
(* The WorkerContext that the threads of one pipeline share, the catch       *)
(* clause each thread ends in when its worker throws, and the join of all    *)
(* threads by the function that started them (Sender::send_files,            *)
(* Receiver::receive_files).                                                 *)
(*                                                                         *)
(* handle_exception is two steps: the abort flag is set before the mutex of  *)
(* the exception pointer is taken, so other workers may see the flag while   *)
(* no exception is recorded yet.                                             *)
(***************************************************************************)
CONSTANT Workers   \* the threads of the pipeline

VARIABLES pc,         \* pc[w]: the shared access worker w performs next
          abort,      \* abort_flag_
          exception,  \* exception_ptr_: the worker whose exception is kept, or "none"
          outcome     \* what the joining function has reported

contextVars == <<pc, abort, exception, outcome>>

ContextInit(start) ==
    /\ pc = start
    /\ abort = FALSE
    /\ exception = "none"
    /\ outcome = "running"

At(w, label) == pc[w] = label

Goto(w, label) == pc' = [pc EXCEPT ![w] = label]

\* A step of one worker that leaves the context alone.
Step(w, from, to) == At(w, from) /\ Goto(w, to) /\ UNCHANGED <<abort, exception, outcome>>

\* The worker's function is left by an exception: its catch clause is next.
Throw(w, from) == Step(w, from, "catch")

\* handle_exception, first statement.
RaiseAbort(w) ==
    /\ At(w, "catch") /\ Goto(w, "record")
    /\ abort' = TRUE
    /\ UNCHANGED <<exception, outcome>>

\* handle_exception, under the mutex: only the first exception is kept.
RecordException(w) ==
    /\ At(w, "record") /\ Goto(w, "exit")
    /\ exception' = IF exception = "none" THEN w ELSE exception
    /\ UNCHANGED <<abort, outcome>>

\* Faulty variant: the recorded exception is not looked at after the joins.
ReportBlindly == "complete"

\* rethrow_if_exception decides between "Transfer failed" and "transfer complete!".
Report == IF exception = "none" THEN "complete" ELSE "failed"

\* The four join() calls return.
Join ==
    /\ outcome = "running" /\ \A w \in Workers : At(w, "exit")
    /\ outcome' = Report
    /\ UNCHANGED <<pc, abort, exception>>
=============================================================================
