------------------------------- MODULE Staging -------------------------------
(***************************************************************************)
(* The staging area: the directory .trit with the list staged.txt and the    *)
(* lock directory .lock, shared by the trit processes that run in the same   *)
(* working directory.                                                        *)
(*                                                                         *)
(* A step is one file system call with the local work around it. Calls       *)
(* create_directories twice in a row are one step: a removal by another      *)
(* process between the two has the effect of one before the first.           *)
(*                                                                         *)
(* pc[p] is a pair: the function process p is in and its next step there. A  *)
(* command starts with load, save or delete, the three functions that hold   *)
(* a StagingLock; "plan" is the command's own work after load.               *)
(***************************************************************************)
EXTENDS Integers, FiniteSets

CONSTANTS Processes,    \* the trit processes that may run at the same time
          Paths,        \* the regular, non-empty files of the working directory
          Kinds,        \* the commands that are used
          Vanishing,    \* files may be deleted by somebody else
          MaxCommands,  \* bound: commands started once processes meet or are disturbed
          MaxAlone,     \* bound: commands started one after the other, undisturbed
          MaxKills      \* bound: processes killed

ASSUME StagingAssumption ==
    /\ Kinds \subseteq {"add", "drop", "list", "clear", "send"}
    /\ Vanishing \in BOOLEAN /\ MaxCommands \in Nat /\ MaxAlone \in Nat /\ MaxKills \in Nat

VARIABLES
    dir, lock,        \* .trit and .trit/.lock exist
    exists, staged,   \* .trit/staged.txt exists, and the paths it lists
    present,          \* the files that exist in the working directory
    pc,               \* pc[p]: function and next step of process p
    kind, match,      \* its command; the paths its patterns match
    known,            \* staged_files: what load returned, and the command's changes
    back,             \* where delete_staging_files returns to
    swept,            \* the entries remove_all(.trit) has dealt with
    opened,           \* processes whose output stream is the staged.txt in .trit
    started, kills,   \* counters of the bounds
    deleting,         \* history: some process has reached remove_all(.trit)
    saved,            \* history: the list written last
    reported,         \* history: reported as added, not yet as dropped or sent
    alone             \* history: no two commands met, nothing was killed or deleted

listVars == <<exists, staged, opened>>
area     == <<dir, lock, listVars>>
command  == <<kind, match, known, back>>
world    == <<present, started, kills>>
history  == <<deleting, saved, reported, alone>>
vars     == <<area, pc, command, swept, world, history>>

Idle == <<"shell", "idle">>   \* the command has returned, or none was started
Cut  == <<"shell", "cut">>    \* an exception of its connection has left main
Gone == <<"shell", "gone">>   \* it was killed, or another exception has left main

Init ==
    /\ dir = FALSE /\ lock = FALSE /\ exists = FALSE /\ staged = {}
    /\ present = Paths
    /\ pc = [p \in Processes |-> Idle]
    /\ kind = [p \in Processes |-> "none"] /\ match = [p \in Processes |-> {}]
    /\ known = [p \in Processes |-> {}] /\ back = [p \in Processes |-> Idle]
    /\ swept = [p \in Processes |-> {}] /\ opened = {}
    /\ started = 0 /\ kills = 0
    /\ deleting = FALSE /\ saved = {} /\ reported = {} /\ alone = TRUE

At(p, function, step) == pc[p] = <<function, step>>

Goto(p, place) == pc' = [pc EXCEPT ![p] = place]

Running(p) == pc[p] \notin {Idle, Cut, Gone}
-----------------------------------------------------------------------------
(***************************************************************************)
(* StagingLock. Its constructor throws when .lock cannot be created. Nothing *)
(* catches that: the process is terminated without running the destructors   *)
(* of the locks it holds.                                                    *)
(***************************************************************************)
MakeDir(p, f) ==
    /\ At(p, f, "mkdir")
    /\ dir' = TRUE
    /\ Goto(p, <<f, "lock">>)
    /\ UNCHANGED <<lock, listVars, command, swept, world, history>>

Inside(f) == CASE f = "load" -> "read" [] f = "save" -> "truncate" [] OTHER -> "sweep"

\* create_directory has created .lock, which was not there.
FreeAnyway == TRUE   \* faulty: a lock directory that exists is as good
Free == ~lock

Acquire(p, f) ==
    /\ At(p, f, "lock") /\ dir /\ Free
    /\ lock' = TRUE
    /\ Goto(p, <<f, Inside(f)>>)
    /\ swept' = [swept EXCEPT ![p] = {}]
    /\ deleting' = (deleting \/ f = "delete")
    /\ UNCHANGED <<dir, listVars, command, world, saved, reported, alone>>

Refused(p, f) ==
    /\ At(p, f, "lock") /\ (lock \/ ~dir)
    /\ Goto(p, Gone)
    /\ UNCHANGED <<area, command, swept, world, history>>

\* What the command tells the user once its list is saved or deleted.
Reported(p) ==
    CASE kind[p] = "add"  -> reported \cup (known[p] \cap match[p])
      [] kind[p] = "drop" -> reported \ match[p]
      [] kind[p] = "clear" -> {}
      [] OTHER            -> reported

AfterRelease(p, f) ==
    CASE f = "load" -> <<"plan", "plan">> [] f = "save" -> Idle [] OTHER -> back[p]

\* The destructor: .lock is removed, whoever made it.
LeftBehind == lock   \* faulty: .lock stays
Unlocked == FALSE

Release(p, f) ==
    /\ At(p, f, "unlock")
    /\ lock' = Unlocked
    /\ Goto(p, AfterRelease(p, f))
    /\ reported' = IF f = "save" THEN Reported(p) ELSE reported
    /\ UNCHANGED <<dir, listVars, command, swept, world, deleting, saved, alone>>

Locking(p) == \E f \in {"load", "save", "delete"} :
                  MakeDir(p, f) \/ Acquire(p, f) \/ Refused(p, f) \/ Release(p, f)
-----------------------------------------------------------------------------
\* load_staged_files, under its lock: the listed files that still exist. If there
\* is a list and none is left, the staging area is deleted on the spot.
Read(p) ==
    /\ At(p, "load", "read")
    /\ known' = [known EXCEPT ![p] = IF exists THEN staged \cap present ELSE {}]
    /\ IF exists /\ known'[p] = {}
       THEN /\ Goto(p, <<"delete", "mkdir">>)
            /\ back' = [back EXCEPT ![p] = <<"load", "unlock">>]
       ELSE /\ Goto(p, <<"load", "unlock">>)
            /\ UNCHANGED back
    /\ UNCHANGED <<area, kind, match, swept, world, history>>

\* save_staged_files: the stream is opened with trunc; it cannot be when .trit is gone.
Kept == staged   \* faulty: opened without trunc
Truncated == {}

Truncate(p) ==
    /\ At(p, "save", "truncate")
    /\ exists' = dir
    /\ staged' = Truncated
    /\ opened' = IF dir THEN opened \cup {p} ELSE opened
    /\ Goto(p, IF dir THEN <<"save", "write">> ELSE Gone)
    /\ UNCHANGED <<dir, lock, command, swept, world, history>>

\* The lines reach the file when the stream is closed; text that another process
\* has written through the same file in the meantime may stay behind them.
FlushedPartly(paths) == SUBSET paths   \* faulty: the lock is released before the flush
Flushed(paths) == {paths \cup tail : tail \in SUBSET staged}

Write(p) ==
    /\ At(p, "save", "write")
    /\ IF p \in opened THEN staged' \in Flushed(known[p]) ELSE UNCHANGED staged
    /\ saved' = known[p]
    /\ opened' = opened \ {p}
    /\ Goto(p, <<"save", "unlock">>)
    /\ UNCHANGED <<dir, lock, exists, command, swept, world, deleting, reported, alone>>

\* remove_all(.trit): the entries one by one, in any order, the process's own
\* lock among them; then the directory, if nothing has been put into it again.
Sweep(p, entry) ==
    /\ At(p, "delete", "sweep") /\ entry \notin swept[p]
    /\ swept' = [swept EXCEPT ![p] = @ \cup {entry}]
    /\ IF entry = "lock"
       THEN lock' = FALSE /\ UNCHANGED listVars
       ELSE exists' = FALSE /\ staged' = {} /\ opened' = {} /\ UNCHANGED lock
    /\ UNCHANGED <<dir, pc, command, world, history>>

NeverFilled == FALSE   \* faulty: the directory goes with whatever is in it again
Filled == lock \/ exists

RemoveDir(p) ==
    /\ At(p, "delete", "sweep") /\ swept[p] = {"lock", "list"}
    /\ dir' = (dir /\ Filled)
    /\ Goto(p, <<"delete", "unlock">>)
    /\ reported' = IF back[p] = Idle THEN Reported(p) ELSE reported
    /\ UNCHANGED <<lock, listVars, command, swept, world, deleting, saved, alone>>

Files(p) == Read(p) \/ Truncate(p) \/ Write(p) \/ RemoveDir(p)
            \/ \E entry \in {"lock", "list"} : Sweep(p, entry)
-----------------------------------------------------------------------------
Quiet == \A p \in Processes : ~Running(p)

\* A user starts a command; the patterns of its arguments, if it takes any, match
\* the paths M.
Start(p) ==
    /\ ~Running(p)
    /\ alone' = (alone /\ Quiet)
    /\ started < IF alone' THEN MaxAlone ELSE MaxCommands
    /\ started' = started + 1
    /\ \E k \in Kinds, M \in SUBSET Paths :
          /\ k \in {"add", "drop"} \/ M = {}
          /\ kind' = [kind EXCEPT ![p] = k]
          /\ match' = [match EXCEPT ![p] = M]
          /\ Goto(p, IF k = "clear" THEN <<"clear", "exists">> ELSE <<"load", "mkdir">>)
    /\ known' = [known EXCEPT ![p] = {}]
    /\ back' = [back EXCEPT ![p] = Idle]
    /\ UNCHANGED <<area, swept, present, kills, deleting, saved, reported>>

\* What a command does next: it returns, saves its list, or deletes the area.
Return(p) == Goto(p, Idle) /\ UNCHANGED <<kind, known, back>>

SaveList(p, paths) ==
    /\ known' = [known EXCEPT ![p] = paths]
    /\ Goto(p, <<"save", "mkdir">>)
    /\ UNCHANGED <<kind, back>>

DeleteArea(p, paths) ==
    /\ known' = [known EXCEPT ![p] = paths]
    /\ Goto(p, <<"delete", "mkdir">>)
    /\ back' = [back EXCEPT ![p] = Idle]
    /\ UNCHANGED kind

PlanUnchanged == UNCHANGED <<area, match, swept, world, history>>

\* stage
Add(p) ==
    /\ At(p, "plan", "plan") /\ kind[p] = "add"
    /\ LET found == match[p] \cap present IN
       IF found = {} THEN IF known[p] = {} THEN DeleteArea(p, {}) ELSE Return(p)
       ELSE IF found \subseteq known[p] THEN Return(p) ELSE SaveList(p, known[p] \cup found)
    /\ PlanUnchanged

\* unstage
Drop(p) ==
    /\ At(p, "plan", "plan") /\ kind[p] = "drop"
    /\ LET kept == known[p] \ match[p] IN
       IF kept = known[p] THEN Return(p)
       ELSE IF kept = {} THEN DeleteArea(p, kept) ELSE SaveList(p, kept)
    /\ PlanUnchanged

\* list
List(p) ==
    /\ At(p, "plan", "plan") /\ kind[p] = "list"
    /\ IF known[p] = {} THEN DeleteArea(p, {}) ELSE Return(p)
    /\ PlanUnchanged

\* clear, as a command and at the end of send_files.
Clear(p) ==
    /\ At(p, "clear", "exists")
    /\ IF exists THEN DeleteArea(p, {}) ELSE Return(p)
    /\ PlanUnchanged

\* A connection that breaks: only connect is inside a try. The exception of a later
\* read or write leaves main, with the list as it is and outside of any lock.
Break(p) == Goto(p, Cut) /\ UNCHANGED <<kind, known, back>>

\* Sender::start_session: the first load only looks whether anything is staged; then
\* connect fails, or the handshake is refused, breaks, or succeeds.
Connect(p) ==
    /\ At(p, "plan", "plan") /\ kind[p] = "send"
    /\ \/ Return(p)
       \/ known[p] # {} /\ Break(p)
       \/ /\ known[p] # {}
          /\ kind' = [kind EXCEPT ![p] = "request"]
          /\ Goto(p, <<"load", "mkdir">>)
          /\ UNCHANGED <<known, back>>
    /\ PlanUnchanged

\* create_transfer_request loads again and throws when nothing, or something
\* that no longer exists, is staged.
Request(p) ==
    /\ At(p, "plan", "plan") /\ kind[p] = "request"
    /\ Goto(p, IF known[p] # {} /\ known[p] \subseteq present
               THEN <<"send", "transfer">> ELSE Gone)
    /\ UNCHANGED <<kind, known, back>>
    /\ PlanUnchanged

\* The request is declined or the transfer fails; the exchange of the request breaks;
\* or all is sent and clear follows.
Transfer(p) ==
    /\ At(p, "send", "transfer")
    /\ \/ (Return(p) \/ Break(p)) /\ UNCHANGED reported
       \/ /\ known[p] \subseteq present
          /\ Goto(p, <<"clear", "exists">>)
          /\ reported' = reported \ known[p]
          /\ UNCHANGED <<kind, known, back>>
    /\ UNCHANGED <<area, match, swept, world, deleting, saved, alone>>

Command(p) == \/ Add(p) \/ Drop(p) \/ List(p) \/ Clear(p)
              \/ Connect(p) \/ Request(p) \/ Transfer(p)
-----------------------------------------------------------------------------
\* The environment: a file of the working directory is deleted, a process killed.
Vanish ==
    /\ Vanishing /\ present # {}
    /\ \E f \in present : present' = present \ {f}
    /\ alone' = FALSE
    /\ UNCHANGED <<area, pc, command, swept, started, kills, deleting, saved, reported>>

Kill(p) ==
    /\ Running(p) /\ kills < MaxKills
    /\ kills' = kills + 1
    /\ opened' = opened \ {p}
    /\ alone' = FALSE
    /\ Goto(p, Gone)
    /\ UNCHANGED <<dir, lock, exists, staged, command, swept, present, started,
                   deleting, saved, reported>>

Step(p) == Locking(p) \/ Files(p) \/ Command(p)

Next == Vanish \/ \E p \in Processes : Start(p) \/ Step(p) \/ Kill(p)

Spec == Init /\ [][Next]_vars
-----------------------------------------------------------------------------
Places == {Idle, Cut, Gone, <<"plan", "plan">>, <<"clear", "exists">>, <<"send", "transfer">>}
          \cup ({"load"} \X {"mkdir", "lock", "read", "unlock"})
          \cup ({"save"} \X {"mkdir", "lock", "truncate", "write", "unlock"})
          \cup ({"delete"} \X {"mkdir", "lock", "sweep", "unlock"})

\* Every variable holds a value of its type; the lock and the list are in .trit,
\* and a list that does not exist has no lines and no writer.
TypeOK ==
    /\ dir \in BOOLEAN /\ lock \in BOOLEAN /\ exists \in BOOLEAN
    /\ staged \subseteq Paths /\ present \subseteq Paths
    /\ lock \/ exists => dir
    /\ ~exists => staged = {} /\ opened = {}
    /\ pc \in [Processes -> Places]
    /\ kind \in [Processes -> Kinds \cup {"none", "request"}]
    /\ match \in [Processes -> SUBSET Paths] /\ known \in [Processes -> SUBSET Paths]
    /\ back \in [Processes -> {Idle, <<"load", "unlock">>}]
    /\ swept \in [Processes -> SUBSET {"lock", "list"}]
    /\ opened \subseteq {p \in Processes : At(p, "save", "write")}
    /\ started \in Nat /\ kills \in 0..MaxKills
    /\ {deleting, alone} \subseteq BOOLEAN /\ saved \subseteq Paths /\ reported \subseteq Paths

\* Process p is inside the scope of a StagingLock it has constructed.
HoldsLock(p) ==
    \/ pc[p] \in {<<"load", "read">>, <<"load", "unlock">>, <<"save", "truncate">>,
                  <<"save", "write">>, <<"save", "unlock">>, <<"delete", "sweep">>,
                  <<"delete", "unlock">>}
    \/ At(p, "delete", "mkdir") /\ back[p] # Idle
    \/ At(p, "delete", "lock") /\ back[p] # Idle

MutualExclusion == \A p, q \in Processes : HoldsLock(p) /\ HoldsLock(q) => p = q

\* While the commands are used one after the other and undisturbed, what they
\* have told the user is what is on disk once they have returned: no staged file is
\* forgotten, none comes back after a drop, a clear or a send, whatever the sequence.
ListIsWhatWasReported == alone /\ Quiet => staged = reported

\* Used like that, the staging area ends no command: none is refused its own lock,
\* finds .trit gone or nothing to send, also when the area is deleted and made again
\* in between. Only a broken connection ends one, and it leaves the lock free as well.
StagingKillsNobody == alone => (\A p \in Processes : pc[p] # Gone) /\ (Quiet => ~lock)

\* As long as nobody deletes the staging area, the lock directory does its work,
\* also when processes are killed or refused in the middle.
ExclusiveUntilDeleted == ~deleting => MutualExclusion

\* As long as nobody deletes the area, whoever gets the lock finds a list that
\* was written to its end: a process killed between the truncation and the write
\* leaves the lock behind.
WholeListUntilDeleted == ~deleting /\ ~lock => staged = saved

\* What staging.cpp says of its lock: it is acquired by creating a directory,
\* because existence check and creation are one atomic step. So two processes
\* are never inside it together.
LockExcludes == MutualExclusion

\* What staging.cpp says of a lock directory that exists: someone else holds it.
LockedBySomeoneElse ==
    \A p \in Processes, f \in {"load", "save", "delete"} :
        At(p, f, "lock") /\ lock => ~HoldsLock(p)

\* What README.md says: staging state persists across invocations until a
\* successful send, which clears it. So what add reported is staged until it is
\* dropped, cleared or sent.
StagedUntilSent == Quiet => reported \subseteq staged
=============================================================================
