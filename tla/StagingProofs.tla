---------------------------- MODULE StagingProofs ----------------------------
(***************************************************************************)
(* Proofs about the staging area, for any number of processes, files,        *)
(* commands and kills.                                                       *)
(*                                                                           *)
(* That the lock directory does its work until somebody deletes the staging  *)
(* area: StagingInv says who can be inside the lock; it speaks of the states *)
(* before the first remove_all only, and deleting never becomes false again. *)
(*                                                                           *)
(* That commands which run one after the other, undisturbed, keep the list   *)
(* they have reported: AloneInv says, for each step of the one command that  *)
(* runs, what the lock, the list and the command's own copy of it are.       *)
(***************************************************************************)
EXTENDS Staging, TLAPS

PlacesOK == pc \in [Processes -> Places] /\ back \in [Processes -> {Idle, <<"load", "unlock">>}]

\* Whoever is inside has the lock, alone; nobody is in remove_all.
LockInv ==
    /\ \A p \in Processes : HoldsLock(p) => lock
    /\ MutualExclusion
    /\ \A p \in Processes : ~At(p, "delete", "sweep") /\ ~At(p, "delete", "unlock")

\* The list is the one written last, except between truncation and write, or
\* when a process has died there and left the lock.
ListInv ==
    /\ staged = saved \/ (lock /\ \A p \in Processes : HoldsLock(p) => At(p, "save", "write"))
    /\ \A p \in Processes : At(p, "save", "write") => p \in opened /\ staged = {}

StagingInv == PlacesOK /\ (~deleting => LockInv /\ ListInv)

\* A step of p leaves the other processes where they are, and what they hold.
LEMMA OthersStay ==
    ASSUME PlacesOK, NEW p \in Processes, NEW place \in Places, Goto(p, place),
           \/ UNCHANGED back
           \/ back' = [back EXCEPT ![p] = Idle]
           \/ back' = [back EXCEPT ![p] = <<"load", "unlock">>]
    PROVE  /\ PlacesOK' /\ pc'[p] = place
           /\ \A q \in Processes : q # p => /\ pc'[q] = pc[q] /\ back'[q] = back[q]
                                            /\ HoldsLock(q)' = HoldsLock(q)
<1>1. /\ pc' \in [Processes -> Places] /\ pc'[p] = place
      /\ \A q \in Processes : q # p => pc'[q] = pc[q]
  BY DEF PlacesOK, Goto
<1>2. /\ back' \in [Processes -> {Idle, <<"load", "unlock">>}]
      /\ \A q \in Processes : q # p => back'[q] = back[q]
  BY DEF PlacesOK
<1>3. ASSUME NEW q \in Processes, q # p PROVE HoldsLock(q)' = HoldsLock(q)
  BY <1>1, <1>2, <1>3 DEF HoldsLock, At
<1>4. QED
  BY <1>1, <1>2, <1>3 DEF PlacesOK

\* A step that lets nobody into the lock, and touches neither the lock nor the
\* list, preserves the invariant.
LEMMA QuietStep ==
    ASSUME StagingInv, NEW p \in Processes, PlacesOK', UNCHANGED <<lock, deleting, staged, saved>>,
           \A q \in Processes : q # p => /\ pc'[q] = pc[q] /\ HoldsLock(q)' = HoldsLock(q)
                                         /\ (q \in opened => q \in opened'),
           HoldsLock(p)' => HoldsLock(p) /\ ~At(p, "save", "write"),
           pc'[p] \notin {<<"delete", "sweep">>, <<"delete", "unlock">>, <<"save", "write">>}
    PROVE  StagingInv'
<1> SUFFICES ASSUME ~deleting PROVE LockInv' /\ ListInv'
  BY DEF StagingInv
<1>1. LockInv /\ ListInv
  BY DEF StagingInv
<1>2. LockInv'
  BY <1>1 DEF LockInv, MutualExclusion, At
<1>3. ListInv'
  <2>1. CASE staged = saved
    BY <1>1, <2>1 DEF ListInv, At
  <2>2. CASE lock /\ \A q \in Processes : HoldsLock(q) => At(q, "save", "write")
    <3>1. ~HoldsLock(p)'
      BY <2>2
    <3>2. \A q \in Processes : HoldsLock(q)' => At(q, "save", "write")'
      BY <2>2, <3>1 DEF At
    <3>3. \A q \in Processes : At(q, "save", "write")' => q \in opened' /\ staged' = {}
      BY <1>1 DEF ListInv, At
    <3>4. QED
      BY <2>2, <3>2, <3>3 DEF ListInv
  <2>3. QED
    BY <1>1, <2>1, <2>2 DEF ListInv
<1>4. QED
  BY <1>2, <1>3

\* Steps of p that end at a place where it is inside only if it was inside before.
LEMMA MoveStep ==
    ASSUME StagingInv, NEW p \in Processes, NEW place \in Places, Goto(p, place),
           \/ UNCHANGED back
           \/ back' = [back EXCEPT ![p] = Idle]
           \/ back' = [back EXCEPT ![p] = <<"load", "unlock">>],
           UNCHANGED <<lock, deleting, staged, saved>>, opened' \in {opened, opened \ {p}},
           HoldsLock(p)' => HoldsLock(p) /\ ~At(p, "save", "write"),
           place \notin {<<"delete", "sweep">>, <<"delete", "unlock">>, <<"save", "write">>}
    PROVE  StagingInv'
<1>1. /\ PlacesOK' /\ pc'[p] = place
      /\ \A q \in Processes : q # p => pc'[q] = pc[q] /\ HoldsLock(q)' = HoldsLock(q)
  BY OthersStay DEF StagingInv
<1>2. \A q \in Processes : q # p => (q \in opened => q \in opened')
  OBVIOUS
<1>3. QED
  BY <1>1, <1>2, QuietStep

\* Creating the directory is outside of the lock.
LEMMA MakeDirStep ==
    ASSUME StagingInv, NEW p \in Processes, NEW f \in {"load", "save", "delete"}, MakeDir(p, f)
    PROVE  StagingInv'
<1>1. /\ pc[p] = <<f, "mkdir">> /\ Goto(p, <<f, "lock">>)
      /\ UNCHANGED <<lock, deleting, staged, saved, opened, back>>
  BY DEF MakeDir, At, listVars, command, history
<1>2. <<f, "lock">> \in Places
  BY DEF Places
<1>3. pc'[p] = <<f, "lock">>
  BY <1>1 DEF Goto, StagingInv, PlacesOK
<1>4. HoldsLock(p)' => HoldsLock(p) /\ ~At(p, "save", "write")
  BY <1>1, <1>3 DEF HoldsLock, At
<1>5. QED
  BY <1>1, <1>2, <1>4, MoveStep

\* A process that is refused ends, whatever locks it held.
LEMMA RefusedStep ==
    ASSUME StagingInv, NEW p \in Processes, NEW f \in {"load", "save", "delete"}, Refused(p, f)
    PROVE  StagingInv'
<1>1. Goto(p, Gone) /\ UNCHANGED <<lock, deleting, staged, saved, opened, back>>
  BY DEF Refused, area, listVars, command, history
<1>2. Gone \in Places /\ pc'[p] = Gone
  BY <1>1 DEF Places, Goto, StagingInv, PlacesOK
<1>3. ~HoldsLock(p)'
  BY <1>2 DEF HoldsLock, At, Gone
<1>4. Gone \notin {<<"delete", "sweep">>, <<"delete", "unlock">>, <<"save", "write">>}
  BY DEF Gone
<1>5. QED
  BY <1>1, <1>2, <1>3, <1>4, MoveStep

\* The lock was free, so by the invariant nobody was inside.
LEMMA AcquireStep ==
    ASSUME StagingInv, NEW p \in Processes, NEW f \in {"load", "save", "delete"}, Acquire(p, f)
    PROVE  StagingInv'
<1>1. /\ ~lock /\ lock' = TRUE /\ Goto(p, <<f, Inside(f)>>)
      /\ deleting' = (deleting \/ f = "delete")
      /\ UNCHANGED <<staged, saved, opened, back>>
  BY DEF Acquire, Free, listVars, command
<1>2. <<f, Inside(f)>> \in Places
  BY DEF Inside, Places
<1>3. /\ PlacesOK' /\ pc'[p] = <<f, Inside(f)>>
      /\ \A q \in Processes : q # p => pc'[q] = pc[q] /\ HoldsLock(q)' = HoldsLock(q)
  BY <1>1, <1>2, OthersStay DEF StagingInv
<1> SUFFICES ASSUME ~deleting' PROVE LockInv' /\ ListInv'
  BY <1>3 DEF StagingInv
<1>4. ~deleting /\ f \in {"load", "save"} /\ LockInv /\ ListInv
  BY <1>1 DEF StagingInv
<1>5. pc'[p] \in {<<"load", "read">>, <<"save", "truncate">>}
  BY <1>3, <1>4 DEF Inside
<1>6. \A q \in Processes : q # p => ~HoldsLock(q)'
  BY <1>1, <1>3, <1>4 DEF LockInv
<1>7. LockInv'
  <2>1. MutualExclusion'
    BY <1>6 DEF MutualExclusion
  <2>2. \A q \in Processes : ~At(q, "delete", "sweep")' /\ ~At(q, "delete", "unlock")'
    BY <1>3, <1>4, <1>5 DEF LockInv, At
  <2>3. QED
    BY <1>1, <2>1, <2>2 DEF LockInv
<1>8. ListInv'
  <2>1. staged' = saved'
    BY <1>1, <1>4 DEF ListInv
  <2>2. \A q \in Processes : At(q, "save", "write")' => q \in opened' /\ staged' = {}
    BY <1>1, <1>3, <1>4, <1>5 DEF ListInv, At
  <2>3. QED
    BY <2>1, <2>2 DEF ListInv
<1>9. QED
  BY <1>7, <1>8

\* The releasing process was inside alone, so nobody is inside afterwards.
LEMMA ReleaseStep ==
    ASSUME StagingInv, NEW p \in Processes, NEW f \in {"load", "save", "delete"}, Release(p, f)
    PROVE  StagingInv'
<1>1. /\ pc[p] = <<f, "unlock">> /\ lock' = FALSE /\ Goto(p, AfterRelease(p, f))
      /\ UNCHANGED <<deleting, staged, saved, opened, back>>
  BY DEF Release, Unlocked, At, listVars, command
<1>2. AfterRelease(p, f) \in Places
  BY DEF AfterRelease, Places, StagingInv, PlacesOK, Idle
<1>3. /\ PlacesOK' /\ pc'[p] = AfterRelease(p, f)
      /\ \A q \in Processes : q # p => pc'[q] = pc[q] /\ HoldsLock(q)' = HoldsLock(q)
  BY <1>1, <1>2, OthersStay DEF StagingInv
<1> SUFFICES ASSUME ~deleting PROVE LockInv' /\ ListInv'
  BY <1>1, <1>3 DEF StagingInv
<1>4. LockInv /\ ListInv /\ f \in {"load", "save"}
  BY <1>1 DEF StagingInv, LockInv, At
<1>5. HoldsLock(p) /\ ~At(p, "save", "write")
  BY <1>1, <1>4 DEF HoldsLock, At
<1>6. \A q \in Processes : q # p => ~HoldsLock(q)
  BY <1>4, <1>5 DEF LockInv, MutualExclusion
<1>7. pc'[p] \in {<<"plan", "plan">>, Idle}
  BY <1>3, <1>4 DEF AfterRelease
<1>8. \A q \in Processes : ~HoldsLock(q)'
  BY <1>3, <1>6, <1>7 DEF HoldsLock, At, Idle
<1>9. LockInv'
  <2>1. \A q \in Processes : ~At(q, "delete", "sweep")' /\ ~At(q, "delete", "unlock")'
    BY <1>3, <1>4, <1>7 DEF LockInv, At, Idle
  <2>2. QED
    BY <1>8, <2>1 DEF LockInv, MutualExclusion
<1>10. ListInv'
  <2>1. staged' = saved'
    BY <1>1, <1>4, <1>5 DEF ListInv
  <2>2. \A q \in Processes : ~At(q, "save", "write")'
    BY <1>8 DEF HoldsLock, At
  <2>3. QED
    BY <2>1, <2>2 DEF ListInv
<1>11. QED
  BY <1>9, <1>10

\* Reading the list leaves it alone; deleting the area is only begun.
LEMMA ReadStep == ASSUME StagingInv, NEW p \in Processes, Read(p) PROVE StagingInv'
<1>1. /\ pc[p] = <<"load", "read">>
      /\ \/ Goto(p, <<"delete", "mkdir">>) /\ back' = [back EXCEPT ![p] = <<"load", "unlock">>]
         \/ Goto(p, <<"load", "unlock">>) /\ UNCHANGED back
      /\ UNCHANGED <<lock, deleting, staged, saved, opened>>
  BY DEF Read, At, area, listVars, history
<1>2. HoldsLock(p) /\ ~At(p, "save", "write")
  BY <1>1 DEF HoldsLock, At
<1>3. <<"delete", "mkdir">> \in Places /\ <<"load", "unlock">> \in Places
  BY DEF Places
<1>4. QED
  BY <1>1, <1>2, <1>3, MoveStep

\* The list is emptied by the only process inside.
LEMMA TruncateStep == ASSUME StagingInv, NEW p \in Processes, Truncate(p) PROVE StagingInv'
<1>1. /\ pc[p] = <<"save", "truncate">> /\ staged' = {}
      /\ opened' = IF dir THEN opened \cup {p} ELSE opened
      /\ Goto(p, IF dir THEN <<"save", "write">> ELSE Gone)
      /\ UNCHANGED <<lock, deleting, saved, back>>
  BY DEF Truncate, Truncated, At, command, history
<1>2. (IF dir THEN <<"save", "write">> ELSE Gone) \in Places
  BY DEF Places
<1>3. /\ PlacesOK' /\ pc'[p] = IF dir THEN <<"save", "write">> ELSE Gone
      /\ \A q \in Processes : q # p => pc'[q] = pc[q] /\ HoldsLock(q)' = HoldsLock(q)
  BY <1>1, <1>2, OthersStay DEF StagingInv
<1> SUFFICES ASSUME ~deleting PROVE LockInv' /\ ListInv'
  BY <1>1, <1>3 DEF StagingInv
<1>4. LockInv /\ ListInv /\ HoldsLock(p)
  BY <1>1 DEF StagingInv, HoldsLock
<1>5. lock /\ \A q \in Processes : q # p => ~HoldsLock(q)
  BY <1>4 DEF LockInv, MutualExclusion
<1>6. LockInv'
  <2>1. \A q \in Processes : ~At(q, "delete", "sweep")' /\ ~At(q, "delete", "unlock")'
    BY <1>3, <1>4 DEF LockInv, At, Gone
  <2>2. QED
    BY <1>1, <1>3, <1>5, <2>1 DEF LockInv, MutualExclusion
<1>7. ListInv'
  <2>1. \A q \in Processes : HoldsLock(q)' => q = p /\ At(q, "save", "write")'
    BY <1>3, <1>5 DEF HoldsLock, At, Gone
  <2>2. \A q \in Processes : At(q, "save", "write")' => HoldsLock(q)'
    BY DEF HoldsLock, At
  <2>3. At(p, "save", "write")' => p \in opened'
    BY <1>1, <1>3 DEF At, Gone
  <2>4. QED
    BY <1>1, <1>5, <2>1, <2>2, <2>3 DEF ListInv
<1>8. QED
  BY <1>6, <1>7

\* Nothing was in the list when the lines arrive, so they are all it holds.
LEMMA WriteStep == ASSUME StagingInv, NEW p \in Processes, Write(p) PROVE StagingInv'
<1>1. /\ pc[p] = <<"save", "write">>
      /\ p \in opened => \E tail \in SUBSET staged : staged' = known[p] \cup tail
      /\ saved' = known[p] /\ opened' = opened \ {p} /\ Goto(p, <<"save", "unlock">>)
      /\ UNCHANGED <<lock, deleting, back>>
  BY DEF Write, Flushed, At, command
<1>2. <<"save", "unlock">> \in Places
  BY DEF Places
<1>3. /\ PlacesOK' /\ pc'[p] = <<"save", "unlock">>
      /\ \A q \in Processes : q # p => pc'[q] = pc[q] /\ HoldsLock(q)' = HoldsLock(q)
  BY <1>1, <1>2, OthersStay DEF StagingInv
<1> SUFFICES ASSUME ~deleting PROVE LockInv' /\ ListInv'
  BY <1>1, <1>3 DEF StagingInv
<1>4. LockInv /\ ListInv /\ HoldsLock(p) /\ At(p, "save", "write")
  BY <1>1 DEF StagingInv, HoldsLock, At
<1>5. lock /\ \A q \in Processes : q # p => ~HoldsLock(q)
  BY <1>4 DEF LockInv, MutualExclusion
<1>6. staged' = saved'
  BY <1>1, <1>4 DEF ListInv
<1>7. LockInv'
  <2>1. \A q \in Processes : ~At(q, "delete", "sweep")' /\ ~At(q, "delete", "unlock")'
    BY <1>3, <1>4 DEF LockInv, At
  <2>2. QED
    BY <1>1, <1>3, <1>5, <2>1 DEF LockInv, MutualExclusion
<1>8. ListInv'
  <2>1. \A q \in Processes : At(q, "save", "write")' => HoldsLock(q)' /\ q # p
    BY <1>3 DEF HoldsLock, At
  <2>2. QED
    BY <1>3, <1>5, <1>6, <2>1 DEF ListInv
<1>9. QED
  BY <1>7, <1>8

\* A process in remove_all has set deleting.
LEMMA SweepStep ==
    ASSUME StagingInv, NEW p \in Processes, RemoveDir(p) \/ \E entry \in {"lock", "list"} : Sweep(p, entry)
    PROVE  StagingInv'
<1>1. At(p, "delete", "sweep") /\ UNCHANGED <<deleting, back>>
  BY DEF RemoveDir, Sweep, command, history
<1>2. deleting'
  BY <1>1 DEF StagingInv, LockInv
<1>3. PlacesOK'
  <2>1. CASE RemoveDir(p)
    <3>1. Goto(p, <<"delete", "unlock">>) /\ <<"delete", "unlock">> \in Places
      BY <2>1 DEF RemoveDir, Places
    <3>2. QED
      BY <1>1, <3>1, OthersStay DEF StagingInv
  <2>2. CASE \E entry \in {"lock", "list"} : Sweep(p, entry)
    BY <1>1, <2>2 DEF Sweep, StagingInv, PlacesOK
  <2>3. QED
    BY <2>1, <2>2
<1>4. QED
  BY <1>2, <1>3 DEF StagingInv

\* A command is outside of the lock before and after its own work.
LEMMA CommandStep ==
    ASSUME StagingInv, NEW p \in Processes, Start(p) \/ Command(p) PROVE StagingInv'
<1> DEFINE targets == {Idle, Cut, Gone, <<"load", "mkdir">>, <<"save", "mkdir">>,
                       <<"delete", "mkdir">>, <<"clear", "exists">>, <<"send", "transfer">>}
           stay    == \/ Goto(p, Idle) \/ Goto(p, Cut) \/ Goto(p, Gone)
                      \/ Goto(p, <<"load", "mkdir">>)
                      \/ Goto(p, <<"save", "mkdir">>) \/ Goto(p, <<"clear", "exists">>)
                      \/ Goto(p, <<"send", "transfer">>)
           reset   == back' = [back EXCEPT ![p] = Idle]
           moves   == \/ stay /\ UNCHANGED back
                      \/ Goto(p, <<"load", "mkdir">>) /\ reset
                      \/ Goto(p, <<"clear", "exists">>) /\ reset
                      \/ Goto(p, <<"delete", "mkdir">>) /\ reset
<1>1. UNCHANGED <<lock, deleting, staged, saved, opened>> /\ moves
  <2>1. CASE Start(p)
    <3>1. /\ UNCHANGED <<lock, deleting, staged, saved, opened>> /\ reset
          /\ \E k \in Kinds : Goto(p, IF k = "clear" THEN <<"clear", "exists">>
                                                     ELSE <<"load", "mkdir">>)
      BY <2>1 DEF Start, area, listVars
    <3>2. Goto(p, <<"clear", "exists">>) \/ Goto(p, <<"load", "mkdir">>)
      BY <3>1
    <3>3. QED
      BY <3>1, <3>2
  <2>2. CASE Add(p) \/ Drop(p) \/ List(p) \/ Clear(p)
    <3>1. UNCHANGED <<lock, deleting, staged, saved, opened>>
      BY <2>2 DEF Add, Drop, List, Clear, PlanUnchanged, area, listVars, history
    <3>2. \/ Return(p) \/ \E paths : SaveList(p, paths) \/ DeleteArea(p, paths)
      BY <2>2 DEF Add, Drop, List, Clear
    <3>3. \/ Goto(p, Idle) /\ UNCHANGED back
          \/ Goto(p, <<"save", "mkdir">>) /\ UNCHANGED back
          \/ Goto(p, <<"delete", "mkdir">>) /\ reset
      BY <3>2 DEF Return, SaveList, DeleteArea
    <3>4. QED
      BY <3>1, <3>3
  <2>3. CASE Connect(p) \/ Request(p) \/ Transfer(p)
    <3>1. UNCHANGED <<lock, deleting, staged, saved, opened>>
      BY <2>3 DEF Connect, Request, Transfer, PlanUnchanged, area, listVars, history
    <3>2. CASE Connect(p)
      BY <3>1, <3>2 DEF Connect, Return, Break
    <3>3. CASE Request(p)
      <4>1. UNCHANGED back /\ (Goto(p, <<"send", "transfer">>) \/ Goto(p, Gone))
        BY <3>3 DEF Request
      <4>2. QED
        BY <3>1, <4>1
    <3>4. CASE Transfer(p)
      BY <3>1, <3>4 DEF Transfer, Return, Break
    <3>5. QED
      BY <2>3, <3>2, <3>3, <3>4
  <2>4. QED
    BY <2>1, <2>2, <2>3 DEF Command
<1>2. PICK place \in targets :
        /\ Goto(p, place)
        /\ \/ UNCHANGED back /\ place # <<"delete", "mkdir">>
           \/ back' = [back EXCEPT ![p] = Idle]
  <2>1. CASE stay /\ UNCHANGED back
    <3>1. PICK place \in targets : Goto(p, place) /\ place # <<"delete", "mkdir">>
      BY <2>1 DEF Idle, Cut, Gone
    <3>2. QED
      BY <2>1, <3>1
  <2>2. CASE reset /\ ~(stay /\ UNCHANGED back)
    <3>1. \E place \in targets : Goto(p, place)
      BY <1>1, <2>2
    <3>2. QED
      BY <2>2, <3>1
  <2>3. QED
    BY <1>1, <2>1, <2>2
<1>3. place \in Places
  BY DEF Places
<1>4. pc'[p] = place /\ (place = <<"delete", "mkdir">> => back'[p] = Idle)
  BY <1>2 DEF Goto, StagingInv, PlacesOK
<1>5. ~HoldsLock(p)'
  BY <1>4 DEF HoldsLock, At, Idle, Cut, Gone
<1>6. place \notin {<<"delete", "sweep">>, <<"delete", "unlock">>, <<"save", "write">>}
  BY DEF Idle, Cut, Gone
<1>7. QED
  BY <1>1, <1>2, <1>3, <1>5, <1>6, MoveStep

\* A killed process holds nothing any more, and its lock directory stays.
LEMMA KillStep == ASSUME StagingInv, NEW p \in Processes, Kill(p) PROVE StagingInv'
<1>1. /\ Goto(p, Gone) /\ opened' = opened \ {p}
      /\ UNCHANGED <<lock, deleting, staged, saved, back>>
  BY DEF Kill, command
<1>2. Gone \in Places /\ pc'[p] = Gone
  BY <1>1 DEF Places, Goto, StagingInv, PlacesOK
<1>3. ~HoldsLock(p)'
  BY <1>2 DEF HoldsLock, At, Gone
<1>4. Gone \notin {<<"delete", "sweep">>, <<"delete", "unlock">>, <<"save", "write">>}
  BY DEF Gone
<1>5. QED
  BY <1>1, <1>2, <1>3, <1>4, MoveStep

\* A step that changes nothing the invariant speaks of.
LEMMA StillStep ==
    ASSUME StagingInv, UNCHANGED <<pc, back, lock, deleting, staged, saved, opened>> PROVE StagingInv'
  BY DEF StagingInv, PlacesOK, LockInv, MutualExclusion, ListInv, HoldsLock, At
-----------------------------------------------------------------------------
\* The invariant of the lock and the list holds in every reachable state.
LEMMA Invariance == Spec => []StagingInv
<1>1. Init => StagingInv
  <2> SUFFICES ASSUME Init PROVE StagingInv
    OBVIOUS
  <2>1. PlacesOK /\ \A p \in Processes : pc[p] = Idle
    BY DEF Init, PlacesOK, Places
  <2>2. \A p \in Processes : /\ ~HoldsLock(p) /\ ~At(p, "delete", "sweep")
                             /\ ~At(p, "delete", "unlock") /\ ~At(p, "save", "write")
    BY <2>1 DEF HoldsLock, At, Idle
  <2>3. staged = saved
    BY DEF Init
  <2>4. QED
    BY <2>1, <2>2, <2>3 DEF StagingInv, LockInv, MutualExclusion, ListInv
<1>2. StagingInv /\ [Next]_vars => StagingInv'
  <2> SUFFICES ASSUME StagingInv, [Next]_vars PROVE StagingInv'
    OBVIOUS
  <2>1. CASE Vanish \/ UNCHANGED vars
    BY <2>1, StillStep DEF Vanish, vars, area, listVars, command, history
  <2>2. ASSUME NEW p \in Processes, Start(p) \/ Command(p) PROVE StagingInv'
    BY <2>2, CommandStep
  <2>3. ASSUME NEW p \in Processes, Locking(p) PROVE StagingInv'
    BY <2>3, MakeDirStep, AcquireStep, RefusedStep, ReleaseStep DEF Locking
  <2>4. ASSUME NEW p \in Processes, Files(p) PROVE StagingInv'
    BY <2>4, ReadStep, TruncateStep, WriteStep, SweepStep DEF Files
  <2>5. ASSUME NEW p \in Processes, Kill(p) PROVE StagingInv'
    BY <2>5, KillStep
  <2>6. QED
    BY <2>1, <2>2, <2>3, <2>4, <2>5 DEF Next, Step
<1>3. QED
  BY <1>1, <1>2, PTL DEF Spec

\* StagingLock keeps the processes of one working directory apart, whichever of
\* them are refused or killed, as long as none has deleted the staging area.
THEOREM LockWorks == Spec => []ExclusiveUntilDeleted
<1>1. StagingInv => ExclusiveUntilDeleted
  BY DEF StagingInv, LockInv, ExclusiveUntilDeleted
<1>2. QED
  BY <1>1, Invariance, PTL

\* A process that can take the lock finds the list of the last complete save,
\* whichever process died in the middle of a save, as long as none has deleted
\* the staging area.
THEOREM ListIsWhole == Spec => []WholeListUntilDeleted
<1>1. StagingInv => WholeListUntilDeleted
  BY DEF StagingInv, ListInv, WholeListUntilDeleted
<1>2. QED
  BY <1>1, Invariance, PTL
-----------------------------------------------------------------------------
\* Where a step of p leaves the processes.
LEMMA PlaceType ==
    ASSUME TypeOK, NEW p \in Processes, NEW place \in Places, Goto(p, place)
    PROVE  /\ pc' \in [Processes -> Places] /\ pc'[p] = place
           /\ \A q \in Processes : q # p => pc'[q] = pc[q]
  BY DEF TypeOK, Goto

\* Only a process that is writing has the list open.
LEMMA OpenType ==
    ASSUME TypeOK, NEW p \in Processes, NEW place \in Places, Goto(p, place),
           ~At(p, "save", "write") \/ opened' \subseteq opened \ {p}, opened' \subseteq opened
    PROVE  opened' \subseteq {q \in Processes : At(q, "save", "write")'}
<1>1. \A q \in Processes : q # p => pc'[q] = pc[q]
  BY PlaceType
<1>2. opened \subseteq {q \in Processes : At(q, "save", "write")}
  BY DEF TypeOK
<1>3. p \notin opened'
  BY <1>2
<1>4. QED
  BY <1>1, <1>2, <1>3 DEF At

\* What is reported are paths.
LEMMA ReportType ==
    ASSUME TypeOK, NEW p \in Processes PROVE Reported(p) \subseteq Paths
<1>1. reported \subseteq Paths /\ known[p] \subseteq Paths
  BY DEF TypeOK
<1>2. QED
  BY <1>1 DEF Reported

\* A step of a lock.
LEMMA LockType ==
    ASSUME TypeOK, NEW p \in Processes, Locking(p) PROVE TypeOK'
<1>1. PICK f \in {"load", "save", "delete"} :
         MakeDir(p, f) \/ Acquire(p, f) \/ Refused(p, f) \/ Release(p, f)
  BY DEF Locking
<1>2. CASE MakeDir(p, f)
  <2>1. /\ Goto(p, <<f, "lock">>) /\ <<f, "lock">> \in Places /\ ~At(p, "save", "write")
        /\ dir' = TRUE
        /\ UNCHANGED <<lock, listVars, command, swept, world, history>>
    BY <1>2 DEF MakeDir, Places, At
  <2>2. pc' \in [Processes -> Places] /\ opened' \subseteq {q \in Processes : At(q, "save", "write")'}
    BY <2>1, PlaceType, OpenType DEF listVars
  <2>3. QED
    BY <2>1, <2>2 DEF TypeOK, listVars, command, world, history
<1>3. CASE Acquire(p, f)
  <2>1. /\ Goto(p, <<f, Inside(f)>>) /\ <<f, Inside(f)>> \in Places /\ ~At(p, "save", "write")
        /\ lock' = TRUE /\ dir
        /\ swept' = [swept EXCEPT ![p] = {}] /\ deleting' = (deleting \/ f = "delete")
        /\ UNCHANGED <<dir, listVars, command, world, saved, reported, alone>>
    BY <1>3 DEF Acquire, Places, At, Inside
  <2>2. pc' \in [Processes -> Places] /\ opened' \subseteq {q \in Processes : At(q, "save", "write")'}
    BY <2>1, PlaceType, OpenType DEF listVars
  <2>3. deleting' \in BOOLEAN /\ swept' \in [Processes -> SUBSET {"lock", "list"}]
    BY <2>1 DEF TypeOK
  <2>4. QED
    BY <2>1, <2>2, <2>3 DEF TypeOK, listVars, command, world
<1>4. CASE Refused(p, f)
  <2>1. /\ Goto(p, Gone) /\ Gone \in Places /\ ~At(p, "save", "write")
        /\ UNCHANGED <<area, command, swept, world, history>>
    BY <1>4 DEF Refused, Places, At
  <2>2. pc' \in [Processes -> Places] /\ opened' \subseteq {q \in Processes : At(q, "save", "write")'}
    BY <2>1, PlaceType, OpenType DEF area, listVars
  <2>3. QED
    BY <2>1, <2>2 DEF TypeOK, area, listVars, command, world, history
<1>5. CASE Release(p, f)
  <2>1. /\ Goto(p, AfterRelease(p, f)) /\ ~At(p, "save", "write")
        /\ lock' = FALSE /\ reported' = IF f = "save" THEN Reported(p) ELSE reported
        /\ UNCHANGED <<dir, listVars, command, swept, world, deleting, saved, alone>>
    BY <1>5 DEF Release, Unlocked, At
  <2>2. AfterRelease(p, f) \in Places
    BY DEF AfterRelease, Places, TypeOK, Idle
  <2>3. pc' \in [Processes -> Places] /\ opened' \subseteq {q \in Processes : At(q, "save", "write")'}
    BY <2>1, <2>2, PlaceType, OpenType DEF listVars
  <2>4. reported' \subseteq Paths
    BY <2>1, ReportType DEF TypeOK
  <2>5. QED
    BY <2>1, <2>3, <2>4 DEF TypeOK, listVars, command, world
<1>6. QED
  BY <1>1, <1>2, <1>3, <1>4, <1>5

\* A step on the files of the staging area.
LEMMA FilesType ==
    ASSUME TypeOK, NEW p \in Processes, Files(p) PROVE TypeOK'
<1>1. CASE Read(p)
  <2>1. /\ At(p, "load", "read")
        /\ known' = [known EXCEPT ![p] = IF exists THEN staged \cap present ELSE {}]
        /\ \/ Goto(p, <<"delete", "mkdir">>) /\ back' = [back EXCEPT ![p] = <<"load", "unlock">>]
           \/ Goto(p, <<"load", "unlock">>) /\ UNCHANGED back
        /\ UNCHANGED <<area, kind, match, swept, world, history>>
    BY <1>1 DEF Read
  <2>2. PICK place \in Places : Goto(p, place)
    BY <2>1 DEF Places
  <2>3. UNCHANGED opened /\ ~At(p, "save", "write")
    BY <2>1 DEF At, area, listVars
  <2>4. pc' \in [Processes -> Places] /\ opened' \subseteq {q \in Processes : At(q, "save", "write")'}
    BY <2>2, <2>3, PlaceType, OpenType
  <2>5. known' \in [Processes -> SUBSET Paths]
    BY <2>1 DEF TypeOK
  <2>6. back' \in [Processes -> {Idle, <<"load", "unlock">>}]
    BY <2>1 DEF TypeOK
  <2>7. QED
    BY <2>1, <2>4, <2>5, <2>6 DEF TypeOK, area, listVars, world, history
<1>2. CASE Truncate(p)
  <2> DEFINE place == IF dir THEN <<"save", "write">> ELSE Gone
  <2>1. /\ exists' = dir /\ staged' = {} /\ opened' = IF dir THEN opened \cup {p} ELSE opened
        /\ Goto(p, place) /\ place \in Places /\ ~At(p, "save", "write")
        /\ UNCHANGED <<dir, lock, command, swept, world, history>>
    BY <1>2 DEF Truncate, Truncated, Places, At
  <2>2. /\ pc' \in [Processes -> Places] /\ pc'[p] = place
        /\ \A q \in Processes : q # p => pc'[q] = pc[q]
    BY <2>1, PlaceType
  <2>3. opened' \subseteq {q \in Processes : At(q, "save", "write")'}
    <3>1. opened \subseteq {q \in Processes : At(q, "save", "write")}
      BY DEF TypeOK
    <3>2. p \notin opened
      BY <2>1, <3>1
    <3>3. QED
      BY <2>1, <2>2, <3>1, <3>2 DEF At
  <2>4. ~exists' => opened' = {}
    BY <2>1 DEF TypeOK
  <2>5. QED
    BY <2>1, <2>2, <2>3, <2>4 DEF TypeOK, command, world, history
<1>3. CASE Write(p)
  <2>1. /\ IF p \in opened THEN \E tail \in SUBSET staged : staged' = known[p] \cup tail
                           ELSE UNCHANGED staged
        /\ saved' = known[p] /\ opened' = opened \ {p}
        /\ Goto(p, <<"save", "unlock">>) /\ <<"save", "unlock">> \in Places
        /\ UNCHANGED <<dir, lock, exists, command, swept, world, deleting, reported, alone>>
    BY <1>3 DEF Write, Flushed, Places
  <2>2. pc' \in [Processes -> Places] /\ opened' \subseteq {q \in Processes : At(q, "save", "write")'}
    BY <2>1, PlaceType, OpenType
  <2>3. known[p] \subseteq Paths /\ staged \subseteq Paths
    BY DEF TypeOK
  <2>4. staged' \subseteq Paths /\ saved' \subseteq Paths
    BY <2>1, <2>3
  <2>5. ~exists' => staged' = {} /\ opened' = {}
    BY <2>1 DEF TypeOK
  <2>6. QED
    BY <2>1, <2>2, <2>4, <2>5 DEF TypeOK, command, world
<1>4. CASE RemoveDir(p)
  <2>1. /\ dir' = (dir /\ (lock \/ exists)) /\ ~At(p, "save", "write")
        /\ Goto(p, <<"delete", "unlock">>) /\ <<"delete", "unlock">> \in Places
        /\ reported' = IF back[p] = Idle THEN Reported(p) ELSE reported
        /\ UNCHANGED <<lock, listVars, command, swept, world, deleting, saved, alone>>
    BY <1>4 DEF RemoveDir, Filled, Places, At
  <2>2. pc' \in [Processes -> Places] /\ opened' \subseteq {q \in Processes : At(q, "save", "write")'}
    BY <2>1, PlaceType, OpenType DEF listVars
  <2>3. reported' \subseteq Paths
    BY <2>1, ReportType DEF TypeOK
  <2>4. dir' \in BOOLEAN /\ (lock' \/ exists' => dir')
    BY <2>1 DEF TypeOK, listVars
  <2>5. QED
    BY <2>1, <2>2, <2>3, <2>4 DEF TypeOK, listVars, command, world
<1>5. ASSUME NEW entry \in {"lock", "list"}, Sweep(p, entry) PROVE TypeOK'
  <2>1. /\ swept' = [swept EXCEPT ![p] = swept[p] \cup {entry}]
        /\ \/ lock' = FALSE /\ UNCHANGED listVars
           \/ exists' = FALSE /\ staged' = {} /\ opened' = {} /\ UNCHANGED lock
        /\ UNCHANGED <<dir, pc, command, world, history>>
    BY <1>5 DEF Sweep
  <2>2. swept' \in [Processes -> SUBSET {"lock", "list"}]
    BY <2>1 DEF TypeOK
  <2>3. opened' \subseteq opened
    BY <2>1 DEF listVars
  <2>4. opened' \subseteq {q \in Processes : At(q, "save", "write")'}
    BY <2>1, <2>3 DEF TypeOK, At
  <2>5. CASE lock' = FALSE /\ UNCHANGED listVars
    BY <2>1, <2>2, <2>4, <2>5 DEF TypeOK, listVars, command, world, history
  <2>6. CASE exists' = FALSE /\ staged' = {} /\ opened' = {} /\ UNCHANGED lock
    BY <2>1, <2>2, <2>4, <2>6 DEF TypeOK, command, world, history
  <2>7. QED
    BY <2>1, <2>5, <2>6
<1>6. QED
  BY <1>1, <1>2, <1>3, <1>4, <1>5 DEF Files

\* A step of the command itself.
LEMMA CommandType ==
    ASSUME TypeOK, NEW p \in Processes, Command(p) PROVE TypeOK'
<1>1. ~At(p, "save", "write") /\ UNCHANGED <<area, match, swept, world, deleting, saved, alone>>
  BY DEF Command, Add, Drop, List, Clear, Connect, Request, Transfer, PlanUnchanged, history, At
<1>2. ASSUME NEW place \in Places, Goto(p, place), known' \in [Processes -> SUBSET Paths],
             kind' \in [Processes -> Kinds \cup {"none", "request"}],
             back' \in [Processes -> {Idle, <<"load", "unlock">>}], reported' \subseteq Paths
      PROVE  TypeOK'
  <2>1. UNCHANGED opened
    BY <1>1 DEF area, listVars
  <2>2. pc' \in [Processes -> Places] /\ opened' \subseteq {q \in Processes : At(q, "save", "write")'}
    BY <1>1, <1>2, <2>1, PlaceType, OpenType
  <2>3. QED
    BY <1>1, <1>2, <2>2 DEF TypeOK, area, listVars, world
<1>3. /\ known \in [Processes -> SUBSET Paths] /\ match \in [Processes -> SUBSET Paths]
      /\ kind \in [Processes -> Kinds \cup {"none", "request"}]
      /\ back \in [Processes -> {Idle, <<"load", "unlock">>}]
      /\ reported \subseteq Paths /\ present \subseteq Paths
  BY DEF TypeOK
<1>4. /\ Idle \in Places /\ Cut \in Places /\ Gone \in Places /\ <<"save", "mkdir">> \in Places
      /\ <<"delete", "mkdir">> \in Places /\ <<"load", "mkdir">> \in Places
      /\ <<"send", "transfer">> \in Places /\ <<"clear", "exists">> \in Places
  BY DEF Places
<1>5. ASSUME Return(p) \/ Break(p), UNCHANGED reported PROVE TypeOK'
  BY <1>2, <1>3, <1>4, <1>5 DEF Return, Break
<1>6. ASSUME NEW paths \in SUBSET Paths, SaveList(p, paths), UNCHANGED reported PROVE TypeOK'
  BY <1>2, <1>3, <1>4, <1>6 DEF SaveList
<1>7. ASSUME NEW paths \in SUBSET Paths, DeleteArea(p, paths), UNCHANGED reported PROVE TypeOK'
  <2>1. known' \in [Processes -> SUBSET Paths] /\ back' \in [Processes -> {Idle, <<"load", "unlock">>}]
    BY <1>3, <1>7 DEF DeleteArea
  <2>2. QED
    BY <1>2, <1>3, <1>4, <1>7, <2>1 DEF DeleteArea
<1>8. CASE Add(p)
  <2>1. UNCHANGED reported
    BY <1>8 DEF Add, PlanUnchanged, history
  <2>2. match[p] \cap present \in SUBSET Paths /\ known[p] \cup (match[p] \cap present) \in SUBSET Paths
    BY <1>3
  <2>3. {} \in SUBSET Paths
    OBVIOUS
  <2>4. QED
    BY <1>5, <1>6, <1>7, <1>8, <2>1, <2>2, <2>3 DEF Add
<1>9. CASE Drop(p)
  <2>1. UNCHANGED reported
    BY <1>9 DEF Drop, PlanUnchanged, history
  <2>2. known[p] \ match[p] \in SUBSET Paths
    BY <1>3
  <2>3. QED
    BY <1>5, <1>6, <1>7, <1>9, <2>1, <2>2 DEF Drop
<1>10. CASE List(p) \/ Clear(p)
  <2>1. UNCHANGED reported
    BY <1>10 DEF List, Clear, PlanUnchanged, history
  <2>2. {} \in SUBSET Paths
    OBVIOUS
  <2>3. QED
    BY <1>5, <1>7, <1>10, <2>1, <2>2 DEF List, Clear
<1>11. CASE Connect(p)
  <2>1. UNCHANGED reported
    BY <1>11 DEF Connect, PlanUnchanged, history
  <2>2. CASE Return(p) \/ Break(p)
    BY <1>5, <2>1, <2>2
  <2>3. CASE /\ kind' = [kind EXCEPT ![p] = "request"] /\ Goto(p, <<"load", "mkdir">>)
             /\ UNCHANGED <<known, back>>
    <3>1. kind' \in [Processes -> Kinds \cup {"none", "request"}]
      BY <1>3, <2>3
    <3>2. QED
      BY <1>2, <1>3, <1>4, <2>1, <2>3, <3>1
  <2>4. QED
    BY <1>11, <2>2, <2>3 DEF Connect
<1>12. CASE Request(p)
  <2>1. /\ UNCHANGED <<reported, kind, known, back>>
        /\ Goto(p, <<"send", "transfer">>) \/ Goto(p, Gone)
    BY <1>12 DEF Request, PlanUnchanged, history
  <2>2. QED
    BY <1>2, <1>3, <1>4, <2>1
<1>13. CASE Transfer(p)
  <2>1. /\ UNCHANGED <<kind, known, back>>
        /\ reported' \subseteq Paths
        /\ Goto(p, <<"clear", "exists">>) \/ Goto(p, Idle) \/ Goto(p, Cut)
    BY <1>3, <1>13 DEF Transfer, Return, Break
  <2>2. QED
    BY <1>2, <1>3, <1>4, <2>1
<1>14. QED
  BY <1>8, <1>9, <1>10, <1>11, <1>12, <1>13 DEF Command

\* A user, or what happens to a process and to the files of the working directory.
LEMMA WorldType ==
    ASSUME TypeOK, Vanish \/ \E p \in Processes : Start(p) \/ Kill(p) PROVE TypeOK'
<1>1. CASE Vanish
  <2>1. /\ present' \subseteq present /\ alone' = FALSE
        /\ UNCHANGED <<area, pc, command, swept, started, kills, deleting, saved, reported>>
    BY <1>1 DEF Vanish
  <2>2. QED
    BY <2>1 DEF TypeOK, At, area, listVars, command
<1>2. ASSUME NEW p \in Processes, Start(p) PROVE TypeOK'
  <2>1. /\ ~At(p, "save", "write") /\ alone' \in BOOLEAN /\ started' = started + 1
        /\ known' = [known EXCEPT ![p] = {}] /\ back' = [back EXCEPT ![p] = Idle]
        /\ UNCHANGED <<area, swept, present, kills, deleting, saved, reported>>
    BY <1>2 DEF Start, Running, At, Idle, Cut, Gone, TypeOK
  <2>2. PICK k \in Kinds, M \in SUBSET Paths :
           /\ kind' = [kind EXCEPT ![p] = k] /\ match' = [match EXCEPT ![p] = M]
           /\ Goto(p, IF k = "clear" THEN <<"clear", "exists">> ELSE <<"load", "mkdir">>)
    BY <1>2 DEF Start
  <2>3. (IF k = "clear" THEN <<"clear", "exists">> ELSE <<"load", "mkdir">>) \in Places
    BY DEF Places
  <2>4. UNCHANGED opened
    BY <2>1 DEF area, listVars
  <2>5. pc' \in [Processes -> Places] /\ opened' \subseteq {q \in Processes : At(q, "save", "write")'}
    BY <2>1, <2>2, <2>3, <2>4, PlaceType, OpenType
  <2>6. /\ kind' \in [Processes -> Kinds \cup {"none", "request"}]
        /\ match' \in [Processes -> SUBSET Paths] /\ known' \in [Processes -> SUBSET Paths]
        /\ back' \in [Processes -> {Idle, <<"load", "unlock">>}]
    BY <2>1, <2>2 DEF TypeOK
  <2>7. QED
    BY <2>1, <2>5, <2>6 DEF TypeOK, area, listVars
<1>3. ASSUME NEW p \in Processes, Kill(p) PROVE TypeOK'
  <2>1. /\ kills < MaxKills /\ kills' = kills + 1 /\ opened' = opened \ {p} /\ alone' = FALSE
        /\ Goto(p, Gone) /\ Gone \in Places
        /\ UNCHANGED <<dir, lock, exists, staged, command, swept, present, started,
                       deleting, saved, reported>>
    BY <1>3 DEF Kill, Places
  <2>2. pc' \in [Processes -> Places] /\ opened' \subseteq {q \in Processes : At(q, "save", "write")'}
    BY <2>1, PlaceType, OpenType
  <2>3. kills' \in 0..MaxKills
    BY <2>1, StagingAssumption DEF TypeOK
  <2>4. QED
    BY <2>1, <2>2, <2>3 DEF TypeOK, command
<1>4. QED
  BY <1>1, <1>2, <1>3

\* The variables have their types.
THEOREM TypeCorrect == Spec => []TypeOK
<1>1. Init => TypeOK
  <2>1. SUFFICES ASSUME Init PROVE TypeOK
    OBVIOUS
  <2>2. Idle \in Places /\ 0 \in Nat /\ 0 \in 0..MaxKills
    BY StagingAssumption DEF Places
  <2>3. QED
    BY <2>1, <2>2 DEF Init, TypeOK
<1>2. TypeOK /\ [Next]_vars => TypeOK'
  <2>1. SUFFICES ASSUME TypeOK, [Next]_vars PROVE TypeOK'
    OBVIOUS
  <2>2. CASE UNCHANGED vars
    BY <2>1, <2>2 DEF TypeOK, At, vars, area, listVars, command, world, history
  <2>3. CASE Next
    BY <2>1, <2>3, LockType, FilesType, CommandType, WorldType DEF Next, Step
  <2>4. QED
    BY <2>1, <2>2, <2>3
<1>3. QED
  BY <1>1, <1>2, PTL DEF Spec
-----------------------------------------------------------------------------
\* A list that exists has lines.
Listed == exists => staged # {}

\* What the list is like while a command reads it and decides.
Loading(p) == staged = reported /\ Listed /\ (kind[p] = "request" => staged # {})

\* How far the one command that runs has got, when nothing has disturbed any.
Reading(p) ==
    /\ Loading(p)
    /\ \/ At(p, "load", "mkdir") /\ ~lock
       \/ At(p, "load", "lock") /\ ~lock /\ dir
       \/ At(p, "load", "read")
       \/ At(p, "load", "unlock") /\ known[p] = staged
       \/ At(p, "plan", "plan") /\ ~lock /\ known[p] = staged

Finishing(p) ==
    /\ ~lock /\ Listed
    /\ \/ At(p, "send", "transfer") /\ staged = reported /\ known[p] = staged /\ kind[p] = "request"
       \/ /\ At(p, "clear", "exists")
          /\ (kind[p] = "clear" /\ staged = reported) \/ (kind[p] = "request" /\ reported = {})

Saving(p) ==
    /\ known[p] # {} /\ Reported(p) = known[p]
    /\ \/ At(p, "save", "mkdir") /\ ~lock
       \/ At(p, "save", "lock") /\ ~lock /\ dir
       \/ At(p, "save", "truncate") /\ dir
       \/ At(p, "save", "write") /\ p \in opened /\ staged = {}
       \/ At(p, "save", "unlock") /\ staged = known[p]

Deleting(p) ==
    /\ back[p] = Idle /\ Reported(p) = {}
    /\ \/ At(p, "delete", "mkdir") /\ ~lock
       \/ At(p, "delete", "lock") /\ ~lock /\ dir
       \/ At(p, "delete", "sweep") /\ ("list" \in swept[p] => ~exists)
       \/ At(p, "delete", "unlock") /\ ~exists /\ reported = {}

Going(p) == Reading(p) \/ Finishing(p) \/ Saving(p) \/ Deleting(p)

\* Between two commands the list is what was reported, and nobody has the lock.
Settled == ~lock /\ staged = reported /\ Listed

AloneInv ==
    /\ present = Paths
    /\ \A p \in Processes : pc[p] \in {Idle, Cut} \/ Going(p)
    /\ \A p, q \in Processes : Running(p) /\ Running(q) => p = q
    /\ Quiet => Settled

Undisturbed == alone => AloneInv

\* The one command that runs: the others do not, and the list is open for it only.
LEMMA TheRunning ==
    ASSUME TypeOK, AloneInv, NEW p \in Processes, pc[p] \notin {Idle, Cut}
    PROVE  /\ Going(p) /\ Running(p) /\ \A q \in Processes : q # p => pc[q] \in {Idle, Cut}
           /\ opened \subseteq {p} /\ (~At(p, "save", "write") => opened = {})
           /\ ~Quiet
<1>1. Going(p)
  BY DEF AloneInv
<1>2. pc[p] # Gone
  BY <1>1 DEF Going, Reading, Finishing, Saving, Deleting, At, Gone
<1>3. Running(p)
  BY <1>2 DEF Running
<1>4. ASSUME NEW q \in Processes, q # p PROVE pc[q] \in {Idle, Cut}
  <2>1. ~Running(q)
    BY <1>3, <1>4 DEF AloneInv
  <2>2. ~Going(q) => pc[q] \in {Idle, Cut}
    BY DEF AloneInv
  <2>3. Going(q) => pc[q] # Gone
    BY DEF Going, Reading, Finishing, Saving, Deleting, At, Gone
  <2>4. QED
    BY <2>1, <2>2, <2>3 DEF Running
<1>5. opened \subseteq {q \in Processes : At(q, "save", "write")}
  BY DEF TypeOK
<1>6. \A q \in opened : q = p /\ At(p, "save", "write")
  BY <1>4, <1>5 DEF At, Idle, Cut
<1>7. QED
  BY <1>1, <1>3, <1>4, <1>6 DEF Quiet

\* A step of the one command that runs: it goes on, or it ends.
LEMMA GoesOn ==
    ASSUME NEW p \in Processes, present' = Paths, NEW place, pc'[p] = place,
           \A q \in Processes : q # p => pc'[q] \in {Idle, Cut},
           \/ place \notin {Idle, Cut, Gone} /\ Going(p)'
           \/ place \in {Idle, Cut} /\ Settled'
    PROVE  AloneInv'
<1>1. \A q \in Processes : pc'[q] \in {Idle, Cut} \/ Going(q)'
  OBVIOUS
<1>2. \A q \in Processes : Running(q)' => q = p
  BY DEF Running
<1>3. Quiet' => Settled'
  BY DEF Quiet, Running
<1>4. QED
  BY <1>1, <1>2, <1>3 DEF AloneInv

\* Where the one command goes, and that the others stay.
LEMMA Goes ==
    ASSUME TypeOK, AloneInv, NEW p \in Processes, pc[p] \notin {Idle, Cut}, NEW place,
           Goto(p, place)
    PROVE  pc'[p] = place /\ \A q \in Processes : q # p => pc'[q] \in {Idle, Cut}
<1>1. pc'[p] = place /\ \A q \in Processes : q # p => pc'[q] = pc[q]
  BY DEF TypeOK, Goto
<1>2. QED
  BY <1>1, TheRunning

\* The lock of the one command: it gets it, and gives it back.
LEMMA LockAlone ==
    ASSUME TypeOK, AloneInv, NEW p \in Processes, Locking(p) PROVE AloneInv'
<1>1. PICK f \in {"load", "save", "delete"} :
         MakeDir(p, f) \/ Acquire(p, f) \/ Refused(p, f) \/ Release(p, f)
  BY DEF Locking
<1>2. pc[p] \notin {Idle, Cut}
  BY <1>1 DEF MakeDir, Acquire, Refused, Release, At, Idle, Cut
<1>3. Going(p) /\ present = Paths
  BY <1>2, TheRunning DEF AloneInv
<1>4. CASE MakeDir(p, f)
  <2>1. /\ pc[p] = <<f, "mkdir">> /\ Goto(p, <<f, "lock">>) /\ dir' = TRUE
        /\ UNCHANGED <<lock, exists, staged, opened, kind, match, known, back, swept, present,
                       reported>>
    BY <1>4 DEF MakeDir, At, listVars, command, world, history
  <2>2. pc'[p] = <<f, "lock">> /\ \A q \in Processes : q # p => pc'[q] \in {Idle, Cut}
    BY <1>2, <2>1, Goes
  <2>3. \/ f = "load" /\ Loading(p) /\ ~lock
        \/ f = "save" /\ known[p] # {} /\ Reported(p) = known[p] /\ ~lock
        \/ f = "delete" /\ back[p] = Idle /\ Reported(p) = {} /\ ~lock
    BY <1>3, <2>1 DEF Going, Reading, Finishing, Saving, Deleting, At
  <2>4. Reported(p)' = Reported(p) /\ (Loading(p) => Loading(p)')
    BY <2>1 DEF Reported, Loading, Listed
  <2>5. Going(p)'
    BY <2>1, <2>2, <2>3, <2>4 DEF Going, Reading, Saving, Deleting, At
  <2>6. QED
    BY <1>3, <2>1, <2>2, <2>5, GoesOn DEF Idle, Cut, Gone
<1>5. CASE Acquire(p, f)
  <2>1. /\ pc[p] = <<f, "lock">> /\ Goto(p, <<f, Inside(f)>>) /\ lock' = TRUE /\ dir
        /\ swept' = [swept EXCEPT ![p] = {}]
        /\ UNCHANGED <<dir, exists, staged, opened, kind, match, known, back, present, reported>>
    BY <1>5 DEF Acquire, At, listVars, command, world
  <2>2. pc'[p] = <<f, Inside(f)>> /\ \A q \in Processes : q # p => pc'[q] \in {Idle, Cut}
    BY <1>2, <2>1, Goes
  <2>3. \/ f = "load" /\ Loading(p)
        \/ f = "save" /\ known[p] # {} /\ Reported(p) = known[p]
        \/ f = "delete" /\ back[p] = Idle /\ Reported(p) = {}
    BY <1>3, <2>1 DEF Going, Reading, Finishing, Saving, Deleting, At
  <2>4. Reported(p)' = Reported(p) /\ (Loading(p) => Loading(p)')
    BY <2>1 DEF Reported, Loading, Listed
  <2>5. swept'[p] = {}
    BY <2>1 DEF TypeOK
  <2>6. Going(p)'
    BY <2>1, <2>2, <2>3, <2>4, <2>5 DEF Going, Reading, Saving, Deleting, At, Inside
  <2>7. <<f, Inside(f)>> \notin {Idle, Cut, Gone}
    BY DEF Idle, Cut, Gone
  <2>8. QED
    BY <1>3, <2>1, <2>2, <2>6, <2>7, GoesOn
<1>6. CASE Refused(p, f)
  <2>1. pc[p] = <<f, "lock">> /\ (lock \/ ~dir)
    BY <1>6 DEF Refused, At
  <2>2. ~lock /\ dir
    BY <1>3, <2>1 DEF Going, Reading, Finishing, Saving, Deleting, At
  <2>3. QED
    BY <2>1, <2>2
<1>7. CASE Release(p, f)
  <2>1. /\ pc[p] = <<f, "unlock">> /\ Goto(p, AfterRelease(p, f)) /\ lock' = FALSE
        /\ reported' = IF f = "save" THEN Reported(p) ELSE reported
        /\ UNCHANGED <<exists, staged, kind, match, known, back, present>>
    BY <1>7 DEF Release, Unlocked, At, listVars, command, world
  <2>2. pc'[p] = AfterRelease(p, f) /\ \A q \in Processes : q # p => pc'[q] \in {Idle, Cut}
    BY <1>2, <2>1, Goes
  <2>3. CASE f = "load"
    <3>1. Loading(p) /\ known[p] = staged
      BY <1>3, <2>1, <2>3 DEF Going, Reading, Finishing, Saving, Deleting, At
    <3>2. pc'[p] = <<"plan", "plan">>
      BY <2>2, <2>3 DEF AfterRelease
    <3>3. Going(p)'
      BY <2>1, <2>3, <3>1, <3>2 DEF Going, Reading, Loading, Listed, At
    <3>4. QED
      BY <1>3, <2>1, <2>2, <3>2, <3>3, GoesOn DEF Idle, Cut, Gone
  <2>4. CASE f = "save"
    <3>1. known[p] # {} /\ Reported(p) = known[p] /\ staged = known[p]
      BY <1>3, <2>1, <2>4 DEF Going, Reading, Finishing, Saving, Deleting, At
    <3>2. pc'[p] = Idle
      BY <2>2, <2>4 DEF AfterRelease
    <3>3. Settled'
      BY <2>1, <2>4, <3>1 DEF Settled, Listed
    <3>4. QED
      BY <1>3, <2>1, <2>2, <3>2, <3>3, GoesOn
  <2>5. CASE f = "delete"
    <3>1. back[p] = Idle /\ ~exists /\ reported = {}
      BY <1>3, <2>1, <2>5 DEF Going, Reading, Finishing, Saving, Deleting, At
    <3>2. staged = {}
      BY <3>1 DEF TypeOK
    <3>3. pc'[p] = Idle
      BY <2>2, <2>5, <3>1 DEF AfterRelease
    <3>4. Settled'
      BY <2>1, <2>5, <3>1, <3>2 DEF Settled, Listed
    <3>5. QED
      BY <1>3, <2>1, <2>2, <3>3, <3>4, GoesOn
  <2>6. QED
    BY <2>3, <2>4, <2>5
<1>8. QED
  BY <1>1, <1>4, <1>5, <1>6, <1>7

\* What the one command does to the list.
LEMMA FilesAlone ==
    ASSUME TypeOK, AloneInv, NEW p \in Processes, Files(p) PROVE AloneInv'
<1>1. pc[p] \notin {Idle, Cut}
  BY DEF Files, Read, Truncate, Write, RemoveDir, Sweep, At, Idle, Cut
<1>2. /\ Going(p) /\ present = Paths /\ (~At(p, "save", "write") => opened = {})
      /\ \A q \in Processes : q # p => pc[q] \in {Idle, Cut}
  BY <1>1, TheRunning DEF AloneInv
<1>3. CASE Read(p)
  <2>1. /\ pc[p] = <<"load", "read">>
        /\ known' = [known EXCEPT ![p] = IF exists THEN staged \cap present ELSE {}]
        /\ IF exists /\ known'[p] = {} THEN TRUE ELSE Goto(p, <<"load", "unlock">>)
        /\ UNCHANGED <<exists, staged, lock, kind, present, reported>>
    BY <1>3 DEF Read, At, area, listVars, world, history
  <2>2. Loading(p)
    BY <1>2, <2>1 DEF Going, Reading, Finishing, Saving, Deleting, At
  <2>3. known'[p] = staged
    <3>1. known'[p] = IF exists THEN staged \cap present ELSE {}
      BY <2>1 DEF TypeOK
    <3>2. staged \cap present = staged /\ (~exists => staged = {})
      BY <1>2 DEF TypeOK
    <3>3. QED
      BY <3>1, <3>2
  <2>4. Goto(p, <<"load", "unlock">>)
    BY <2>1, <2>2, <2>3 DEF Loading, Listed
  <2>5. pc'[p] = <<"load", "unlock">> /\ \A q \in Processes : q # p => pc'[q] \in {Idle, Cut}
    BY <1>1, <2>4, Goes
  <2>6. Going(p)'
    BY <2>1, <2>2, <2>3, <2>5 DEF Going, Reading, Loading, Listed, At
  <2>7. QED
    BY <1>2, <2>1, <2>5, <2>6, GoesOn DEF Idle, Cut, Gone
<1>4. CASE Truncate(p)
  <2>1. /\ pc[p] = <<"save", "truncate">> /\ staged' = {}
        /\ opened' = IF dir THEN opened \cup {p} ELSE opened
        /\ Goto(p, IF dir THEN <<"save", "write">> ELSE Gone)
        /\ UNCHANGED <<kind, match, known, present, reported>>
    BY <1>4 DEF Truncate, Truncated, At, command, world, history
  <2>2. dir /\ known[p] # {} /\ Reported(p) = known[p]
    BY <1>2, <2>1 DEF Going, Reading, Finishing, Saving, Deleting, At
  <2>3. pc'[p] = <<"save", "write">> /\ \A q \in Processes : q # p => pc'[q] \in {Idle, Cut}
    BY <1>1, <2>1, <2>2, Goes
  <2>4. Reported(p)' = Reported(p) /\ p \in opened'
    BY <2>1, <2>2 DEF Reported
  <2>5. Going(p)'
    BY <2>1, <2>2, <2>3, <2>4 DEF Going, Saving, At
  <2>6. QED
    BY <1>2, <2>1, <2>3, <2>5, GoesOn DEF Idle, Cut, Gone
<1>5. CASE Write(p)
  <2>1. /\ pc[p] = <<"save", "write">> /\ Goto(p, <<"save", "unlock">>)
        /\ p \in opened => \E tail \in SUBSET staged : staged' = known[p] \cup tail
        /\ UNCHANGED <<kind, match, known, present, reported>>
    BY <1>5 DEF Write, Flushed, At, command, world
  <2>2. known[p] # {} /\ Reported(p) = known[p] /\ p \in opened /\ staged = {}
    BY <1>2, <2>1 DEF Going, Reading, Finishing, Saving, Deleting, At
  <2>3. staged' = known[p]
    BY <2>1, <2>2
  <2>4. pc'[p] = <<"save", "unlock">> /\ \A q \in Processes : q # p => pc'[q] \in {Idle, Cut}
    BY <1>1, <2>1, Goes
  <2>5. Reported(p)' = Reported(p)
    BY <2>1 DEF Reported
  <2>6. Going(p)'
    BY <2>1, <2>2, <2>3, <2>4, <2>5 DEF Going, Saving, At
  <2>7. QED
    BY <1>2, <2>1, <2>4, <2>6, GoesOn DEF Idle, Cut, Gone
<1>6. CASE RemoveDir(p)
  <2>1. /\ pc[p] = <<"delete", "sweep">> /\ swept[p] = {"lock", "list"}
        /\ Goto(p, <<"delete", "unlock">>)
        /\ reported' = IF back[p] = Idle THEN Reported(p) ELSE reported
        /\ UNCHANGED <<exists, kind, match, known, back, present>>
    BY <1>6 DEF RemoveDir, At, listVars, command, world
  <2>2. back[p] = Idle /\ Reported(p) = {} /\ ~exists
    BY <1>2, <2>1 DEF Going, Reading, Finishing, Saving, Deleting, At
  <2>3. pc'[p] = <<"delete", "unlock">> /\ \A q \in Processes : q # p => pc'[q] \in {Idle, Cut}
    BY <1>1, <2>1, Goes
  <2>4. known \in [Processes -> SUBSET Paths] /\ reported' = {}
    BY <2>1, <2>2 DEF TypeOK
  <2>5. Reported(p)' = {}
    <3>1. kind[p] = "add" => known[p] \cap match[p] = {}
      BY <2>2 DEF Reported
    <3>2. QED
      BY <2>1, <2>4, <3>1 DEF Reported
  <2>6. Going(p)'
    BY <2>1, <2>2, <2>3, <2>4, <2>5 DEF Going, Deleting, At
  <2>7. QED
    BY <1>2, <2>1, <2>3, <2>6, GoesOn DEF Idle, Cut, Gone
<1>7. ASSUME NEW entry \in {"lock", "list"}, Sweep(p, entry) PROVE AloneInv'
  <2>1. /\ pc[p] = <<"delete", "sweep">> /\ swept' = [swept EXCEPT ![p] = swept[p] \cup {entry}]
        /\ IF entry = "lock" THEN UNCHANGED exists ELSE exists' = FALSE
        /\ UNCHANGED <<pc, kind, match, known, back, present, reported>>
    BY <1>7 DEF Sweep, At, listVars, command, world, history
  <2>2. back[p] = Idle /\ Reported(p) = {} /\ ("list" \in swept[p] => ~exists)
    BY <1>2, <2>1 DEF Going, Reading, Finishing, Saving, Deleting, At
  <2>3. swept'[p] = swept[p] \cup {entry}
    BY <2>1 DEF TypeOK
  <2>4. "list" \in swept'[p] => ~exists'
    BY <2>1, <2>2, <2>3
  <2>5. Reported(p)' = Reported(p)
    BY <2>1 DEF Reported
  <2>6. Going(p)'
    BY <2>1, <2>2, <2>4, <2>5 DEF Going, Deleting, At
  <2>7. QED
    BY <1>2, <2>1, <2>6, GoesOn DEF Idle, Cut, Gone
<1>8. QED
  BY <1>3, <1>4, <1>5, <1>6, <1>7 DEF Files

\* The work of the one command itself.
LEMMA CommandAlone ==
    ASSUME TypeOK, AloneInv, NEW p \in Processes, Command(p) PROVE AloneInv'
<1>1. pc[p] \notin {Idle, Cut}
  BY DEF Command, Add, Drop, List, Clear, Connect, Request, Transfer, At, Idle, Cut
<1>2. /\ Going(p) /\ present = Paths
      /\ \A q \in Processes : q # p => pc[q] \in {Idle, Cut}
  BY <1>1, TheRunning DEF AloneInv
<1>3. /\ known \in [Processes -> SUBSET Paths] /\ match[p] \subseteq Paths
      /\ back \in [Processes -> {Idle, <<"load", "unlock">>}]
      /\ kind \in [Processes -> Kinds \cup {"none", "request"}]
      /\ (~exists => staged = {})
  BY DEF TypeOK
<1>4. UNCHANGED <<exists, staged, lock, match, present>>
  BY DEF Command, Add, Drop, List, Clear, Connect, Request, Transfer, PlanUnchanged, area, listVars,
         world
<1>5. ASSUME Settled, Return(p) \/ Break(p), UNCHANGED reported PROVE AloneInv'
  <2>1. pc'[p] \in {Idle, Cut} /\ \A q \in Processes : q # p => pc'[q] \in {Idle, Cut}
    BY <1>1, <1>5, Goes DEF Return, Break
  <2>2. Settled'
    BY <1>4, <1>5 DEF Settled, Listed
  <2>3. QED
    BY <1>2, <1>4, <2>1, <2>2, GoesOn
<1>6. ASSUME NEW paths \in SUBSET Paths, paths # {}, SaveList(p, paths), UNCHANGED reported, ~lock,
             \/ kind[p] = "add" /\ paths = reported \cup (paths \cap match[p])
             \/ kind[p] = "drop" /\ paths = reported \ match[p]
      PROVE  AloneInv'
  <2>1. pc'[p] = <<"save", "mkdir">> /\ \A q \in Processes : q # p => pc'[q] \in {Idle, Cut}
    BY <1>1, <1>6, Goes DEF SaveList
  <2>2. known'[p] = paths /\ UNCHANGED kind
    BY <1>3, <1>6 DEF SaveList
  <2>3. Reported(p)' = paths
    BY <1>4, <1>6, <2>2 DEF Reported
  <2>4. Going(p)'
    BY <1>4, <1>6, <2>1, <2>2, <2>3 DEF Going, Saving, At
  <2>5. QED
    BY <1>2, <1>4, <2>1, <2>4, GoesOn DEF Idle, Cut, Gone
<1>7. ASSUME DeleteArea(p, {}), UNCHANGED reported, ~lock,
             \/ kind[p] \in {"add", "list", "request"} /\ reported = {}
             \/ kind[p] = "drop" /\ reported \ match[p] = {}
             \/ kind[p] = "clear"
      PROVE  AloneInv'
  <2>1. pc'[p] = <<"delete", "mkdir">> /\ \A q \in Processes : q # p => pc'[q] \in {Idle, Cut}
    BY <1>1, <1>7, Goes DEF DeleteArea
  <2>2. known'[p] = {} /\ back'[p] = Idle /\ UNCHANGED kind
    BY <1>3, <1>7 DEF DeleteArea
  <2>3. Reported(p)' = {}
    BY <1>4, <1>7, <2>2 DEF Reported
  <2>4. Going(p)'
    BY <1>4, <1>7, <2>1, <2>2, <2>3 DEF Going, Deleting, At
  <2>5. QED
    BY <1>2, <1>4, <2>1, <2>4, GoesOn DEF Idle, Cut, Gone
<1>8. ASSUME pc[p] = <<"plan", "plan">>
      PROVE  /\ Settled /\ Loading(p) /\ known[p] = staged /\ known[p] = reported /\ ~lock
             /\ (kind[p] = "request" => staged # {})
  <2>1. Loading(p) /\ known[p] = staged /\ ~lock
    BY <1>2, <1>8 DEF Going, Reading, Finishing, Saving, Deleting, At
  <2>2. QED
    BY <2>1 DEF Loading, Settled
<1>9. CASE Add(p)
  <2>1. /\ pc[p] = <<"plan", "plan">> /\ kind[p] = "add" /\ UNCHANGED reported
        /\ LET found == match[p] \cap present IN
           IF found = {} THEN IF known[p] = {} THEN DeleteArea(p, {}) ELSE Return(p)
           ELSE IF found \subseteq known[p] THEN Return(p) ELSE SaveList(p, known[p] \cup found)
    BY <1>9 DEF Add, At, PlanUnchanged, history
  <2>2. match[p] \cap present = match[p]
    BY <1>2, <1>3
  <2>3. \/ Return(p)
        \/ DeleteArea(p, {}) /\ known[p] = {}
        \/ SaveList(p, known[p] \cup match[p]) /\ match[p] # {}
    BY <2>1, <2>2
  <2>4. Settled /\ known[p] = reported /\ ~lock
    BY <1>8, <2>1
  <2>5. CASE SaveList(p, known[p] \cup match[p]) /\ match[p] # {}
    <3> DEFINE paths == known[p] \cup match[p]
    <3>1. paths \in SUBSET Paths /\ paths # {} /\ paths = reported \cup (paths \cap match[p])
      BY <1>3, <2>4, <2>5
    <3>2. SaveList(p, paths)
      BY <2>5
    <3> HIDE DEF paths
    <3>3. QED
      BY <1>6, <2>1, <2>4, <3>1, <3>2
  <2>6. QED
    BY <1>5, <1>7, <2>1, <2>3, <2>4, <2>5
<1>10. CASE Drop(p)
  <2> DEFINE kept == known[p] \ match[p]
  <2>1. /\ pc[p] = <<"plan", "plan">> /\ kind[p] = "drop" /\ UNCHANGED reported
        /\ \/ Return(p)
           \/ kept = {} /\ DeleteArea(p, {})
           \/ kept # {} /\ SaveList(p, kept)
    BY <1>10 DEF Drop, At, PlanUnchanged, history
  <2>2. Settled /\ known[p] = reported /\ ~lock
    BY <1>8, <2>1
  <2>3. kept \in SUBSET Paths /\ kept = reported \ match[p]
    BY <1>3, <2>2
  <2> HIDE DEF kept
  <2>4. QED
    BY <1>5, <1>6, <1>7, <2>1, <2>2, <2>3
<1>11. CASE List(p)
  <2>1. /\ pc[p] = <<"plan", "plan">> /\ kind[p] = "list" /\ UNCHANGED reported
        /\ Return(p) \/ (known[p] = {} /\ DeleteArea(p, {}))
    BY <1>11 DEF List, At, PlanUnchanged, history
  <2>2. QED
    BY <1>5, <1>7, <1>8, <2>1
<1>12. CASE Clear(p)
  <2>1. /\ pc[p] = <<"clear", "exists">> /\ UNCHANGED reported
        /\ IF exists THEN DeleteArea(p, {}) ELSE Return(p)
    BY <1>12 DEF Clear, At, PlanUnchanged, history
  <2>2. /\ ~lock /\ Listed
        /\ (kind[p] = "clear" /\ staged = reported) \/ (kind[p] = "request" /\ reported = {})
    BY <1>2, <2>1 DEF Going, Reading, Finishing, Saving, Deleting, At
  <2>3. CASE exists
    BY <1>7, <2>1, <2>2, <2>3
  <2>4. CASE ~exists
    <3>1. Settled
      BY <1>3, <2>2, <2>4 DEF Settled
    <3>2. QED
      BY <1>5, <2>1, <2>4, <3>1
  <2>5. QED
    BY <2>3, <2>4
<1>13. CASE Connect(p)
  <2>1. /\ pc[p] = <<"plan", "plan">> /\ UNCHANGED reported
        /\ \/ Return(p) \/ Break(p)
           \/ /\ known[p] # {} /\ kind' = [kind EXCEPT ![p] = "request"]
              /\ Goto(p, <<"load", "mkdir">>)
    BY <1>13 DEF Connect, At, PlanUnchanged, history
  <2>2. Settled /\ known[p] = staged /\ ~lock
    BY <1>8, <2>1
  <2>3. CASE /\ known[p] # {} /\ kind' = [kind EXCEPT ![p] = "request"]
             /\ Goto(p, <<"load", "mkdir">>)
    <3>1. pc'[p] = <<"load", "mkdir">> /\ \A q \in Processes : q # p => pc'[q] \in {Idle, Cut}
      BY <1>1, <2>3, Goes
    <3>2. Loading(p)'
      BY <1>4, <2>1, <2>2, <2>3 DEF Settled, Loading, Listed
    <3>3. Going(p)'
      BY <1>4, <2>2, <3>1, <3>2 DEF Going, Reading, At
    <3>4. QED
      BY <1>2, <1>4, <3>1, <3>3, GoesOn DEF Idle, Cut, Gone
  <2>4. QED
    BY <1>5, <2>1, <2>2, <2>3
<1>14. CASE Request(p)
  <2>1. /\ pc[p] = <<"plan", "plan">> /\ kind[p] = "request" /\ UNCHANGED <<reported, kind, known>>
        /\ Goto(p, IF known[p] # {} /\ known[p] \subseteq present
                   THEN <<"send", "transfer">> ELSE Gone)
    BY <1>14 DEF Request, At, PlanUnchanged, history
  <2>2. Settled /\ known[p] = staged /\ ~lock /\ staged # {}
    BY <1>8, <2>1
  <2>3. known[p] # {} /\ known[p] \subseteq present
    BY <1>2, <1>3, <2>2
  <2>4. pc'[p] = <<"send", "transfer">> /\ \A q \in Processes : q # p => pc'[q] \in {Idle, Cut}
    BY <1>1, <2>1, <2>3, Goes
  <2>5. Going(p)'
    BY <1>4, <2>1, <2>2, <2>4 DEF Going, Finishing, Settled, Listed, At
  <2>6. QED
    BY <1>2, <1>4, <2>4, <2>5, GoesOn DEF Idle, Cut, Gone
<1>15. CASE Transfer(p)
  <2>1. /\ pc[p] = <<"send", "transfer">>
        /\ \/ (Return(p) \/ Break(p)) /\ UNCHANGED reported
           \/ /\ Goto(p, <<"clear", "exists">>) /\ reported' = reported \ known[p]
              /\ UNCHANGED kind
    BY <1>15 DEF Transfer, At
  <2>2. /\ ~lock /\ Listed /\ staged = reported /\ known[p] = staged /\ kind[p] = "request"
    BY <1>2, <2>1 DEF Going, Reading, Finishing, Saving, Deleting, At
  <2>3. CASE /\ Goto(p, <<"clear", "exists">>) /\ reported' = reported \ known[p]
             /\ UNCHANGED kind
    <3>1. pc'[p] = <<"clear", "exists">> /\ \A q \in Processes : q # p => pc'[q] \in {Idle, Cut}
      BY <1>1, <2>3, Goes
    <3>2. reported' = {}
      BY <2>2, <2>3
    <3>3. Going(p)'
      BY <1>4, <2>2, <2>3, <3>1, <3>2 DEF Going, Finishing, Listed, At
    <3>4. QED
      BY <1>2, <1>4, <3>1, <3>3, GoesOn DEF Idle, Cut, Gone
  <2>4. Settled
    BY <2>2 DEF Settled
  <2>5. QED
    BY <1>5, <2>1, <2>3, <2>4
<1>16. QED
  BY <1>9, <1>10, <1>11, <1>12, <1>13, <1>14, <1>15 DEF Command

\* A command that is started when none runs.
LEMMA StartAlone ==
    ASSUME TypeOK, AloneInv, NEW p \in Processes, Start(p), alone' PROVE AloneInv'
<1>1. Quiet /\ UNCHANGED <<exists, staged, lock, reported, present>>
  BY DEF Start, area, listVars
<1>2. Settled /\ present = Paths /\ \A q \in Processes : pc[q] \in {Idle, Cut}
  <2>1. \A q \in Processes : pc[q] \in {Idle, Cut} \/ Going(q)
    BY DEF AloneInv
  <2>2. \A q \in Processes : Going(q) => Running(q)
    BY DEF Going, Reading, Finishing, Saving, Deleting, At, Running, Idle, Cut, Gone
  <2>3. QED
    BY <1>1, <2>1, <2>2 DEF AloneInv, Quiet
<1>3. PICK k \in Kinds :
         /\ kind' = [kind EXCEPT ![p] = k]
         /\ Goto(p, IF k = "clear" THEN <<"clear", "exists">> ELSE <<"load", "mkdir">>)
  BY DEF Start
<1>4. kind'[p] = k /\ k # "request"
  BY <1>3, StagingAssumption DEF TypeOK
<1>5. /\ pc'[p] = IF k = "clear" THEN <<"clear", "exists">> ELSE <<"load", "mkdir">>
      /\ \A q \in Processes : q # p => pc'[q] \in {Idle, Cut}
  BY <1>2, <1>3 DEF TypeOK, Goto
<1>6. Going(p)'
  <2>1. CASE k = "clear"
    BY <1>1, <1>2, <1>4, <1>5, <2>1 DEF Settled, Going, Finishing, Listed, At
  <2>2. CASE k # "clear"
    <3>1. Loading(p)'
      BY <1>1, <1>2, <1>4 DEF Settled, Loading, Listed
    <3>2. QED
      BY <1>1, <1>2, <1>5, <2>2, <3>1 DEF Settled, Going, Reading, At
  <2>3. QED
    BY <2>1, <2>2
<1>7. pc'[p] \notin {Idle, Cut, Gone}
  BY <1>5 DEF Idle, Cut, Gone
<1>8. QED
  BY <1>1, <1>2, <1>6, <1>5, <1>7, GoesOn

\* What holds while the commands run one after the other and nothing disturbs them.
LEMMA StaysUndisturbed == Spec => [](TypeOK /\ Undisturbed)
<1>1. Init => Undisturbed
  <2>1. SUFFICES ASSUME Init PROVE AloneInv
    BY DEF Undisturbed
  <2>2. \A p \in Processes : pc[p] = Idle
    BY <2>1 DEF Init
  <2>3. Settled /\ present = Paths
    BY <2>1 DEF Init, Settled, Listed
  <2>4. QED
    BY <2>2, <2>3 DEF AloneInv, Running
<1>2. TypeOK /\ Undisturbed /\ [Next]_vars => Undisturbed'
  <2>1. SUFFICES ASSUME TypeOK, Undisturbed, [Next]_vars, alone' PROVE AloneInv'
    BY DEF Undisturbed
  <2>2. CASE UNCHANGED vars
    <3>1. /\ UNCHANGED <<present, pc, exists, staged, lock, dir, opened, reported, kind, match,
                        known, back, swept, alone>>
      BY <2>2 DEF vars, area, listVars, command, world, history
    <3>2. AloneInv
      BY <2>1, <3>1 DEF Undisturbed
    <3>3. \A p \in Processes : Going(p) => Going(p)'
      BY <3>1 DEF Going, Reading, Finishing, Saving, Deleting, Loading, Listed, Reported, At
    <3>4. Settled => Settled'
      BY <3>1 DEF Settled, Listed
    <3>5. QED
      BY <3>1, <3>2, <3>3, <3>4 DEF AloneInv, Running, Quiet
  <2>3. CASE Vanish \/ \E p \in Processes : Kill(p)
    BY <2>1, <2>3 DEF Vanish, Kill
  <2>4. ASSUME NEW p \in Processes, Start(p) PROVE AloneInv'
    <3>1. alone
      BY <2>1, <2>4 DEF Start
    <3>2. QED
      BY <2>1, <2>4, <3>1, StartAlone DEF Undisturbed
  <2>5. ASSUME NEW p \in Processes, Step(p) PROVE AloneInv'
    <3>1. CASE Locking(p)
      <4>1. alone
        BY <2>1, <3>1 DEF Locking, MakeDir, Acquire, Refused, Release, history
      <4>2. QED
        BY <2>1, <3>1, <4>1, LockAlone DEF Undisturbed
    <3>2. CASE Files(p)
      <4>1. alone
        BY <2>1, <3>2 DEF Files, Read, Truncate, Write, RemoveDir, Sweep, history
      <4>2. QED
        BY <2>1, <3>2, <4>1, FilesAlone DEF Undisturbed
    <3>3. CASE Command(p)
      <4>1. alone
        BY <2>1, <3>3 DEF Command, Add, Drop, List, Clear, Connect, Request, Transfer,
                          PlanUnchanged, history
      <4>2. QED
        BY <2>1, <3>3, <4>1, CommandAlone DEF Undisturbed
    <3>4. QED
      BY <2>5, <3>1, <3>2, <3>3 DEF Step
  <2>6. QED
    BY <2>1, <2>2, <2>3, <2>4, <2>5 DEF Next
<1>3. QED
  BY <1>1, <1>2, TypeCorrect, PTL DEF Spec

\* Whatever sequence of commands the user gives: when they run one after the other and
\* undisturbed, what they have reported is what is staged.
THEOREM ListCorrect == Spec => []ListIsWhatWasReported
<1>1. Undisturbed => ListIsWhatWasReported
  BY DEF Undisturbed, AloneInv, Settled, ListIsWhatWasReported
<1>2. QED
  BY <1>1, StaysUndisturbed, PTL

\* Used like that, the staging area ends no command and its lock is free afterwards,
\* also after a send that its connection has ended.
THEOREM UndisturbedCommandsSurvive == Spec => []StagingKillsNobody
<1>1. Undisturbed => StagingKillsNobody
  <2>1. SUFFICES ASSUME Undisturbed, alone
                 PROVE  (\A p \in Processes : pc[p] # Gone) /\ (Quiet => ~lock)
    BY DEF StagingKillsNobody
  <2>2. AloneInv
    BY <2>1 DEF Undisturbed
  <2>3. \A p \in Processes : Going(p) => pc[p] # Gone
    BY DEF Going, Reading, Finishing, Saving, Deleting, At, Gone
  <2>4. QED
    BY <2>2, <2>3 DEF AloneInv, Settled, Idle, Cut, Gone
<1>2. QED
  BY <1>1, StaysUndisturbed, PTL
=============================================================================
