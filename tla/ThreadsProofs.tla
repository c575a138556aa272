--------------------------- MODULE ThreadsProofs ---------------------------
(* Machine-checked proofs about Threads, for every value of its constants. *)
EXTENDS Threads, FiniteSetTheorems, TLAPS

-----------------------------------------------------------------------------
(* Facts about the operations of Vectors.                                    *)

\* Erasing an entry leaves a sequence that is one shorter.
LEMMA EraseType ==
  ASSUME NEW S, NEW s \in Seq(S), NEW i \in DOMAIN s
  PROVE /\ Erase(s, i) \in Seq(S)
        /\ Len(Erase(s, i)) = Len(s) - 1
        /\ DOMAIN Erase(s, i) = 1..(Len(s) - 1)
  BY DEF Erase

\* The position found for a member is one where it is.
LEMMA IndexFound ==
  ASSUME NEW s, NEW x \in Members(s)
  PROVE IndexIn(s, x) \in DOMAIN s /\ s[IndexIn(s, x)] = x
  BY DEF Members, IndexIn

\* Erasing position i of a sequence of distinct values removes exactly the
\* value at i.
LEMMA EraseContents ==
  ASSUME NEW S, NEW s \in Seq(S), NEW i \in DOMAIN s, IsDistinct(s)
  PROVE /\ IsDistinct(Erase(s, i))
        /\ Members(Erase(s, i)) = Members(s) \ {s[i]}
<1> DEFINE e == Erase(s, i)
<1>1. DOMAIN e = 1..(Len(s) - 1) /\ DOMAIN s = 1..Len(s) /\ Len(s) \in Nat
  BY EraseType
<1>2. \A j \in DOMAIN e : e[j] = IF j < i THEN s[j] ELSE s[j + 1]
  BY <1>1 DEF Erase
<1>3. IsDistinct(e)
  BY <1>1, <1>2 DEF IsDistinct
<1>4. \A j \in DOMAIN e : e[j] \in Members(s) \ {s[i]}
  BY <1>1, <1>2 DEF IsDistinct, Members
<1>5. ASSUME NEW k \in DOMAIN s, k # i PROVE \E j \in DOMAIN e : e[j] = s[k]
  <2>1. CASE k < i
    BY <2>1, <1>1, <1>2
  <2>2. CASE k > i
    <3>1. k - 1 \in DOMAIN e /\ ~(k - 1 < i)
      BY <2>2, <1>1
    <3>2. e[k - 1] = s[(k - 1) + 1]
      BY <3>1, <1>2
    <3> QED BY <3>1, <3>2, <1>1
  <2> QED BY <2>1, <2>2, <1>5, <1>1
<1>6. Members(e) = Members(s) \ {s[i]}
  BY <1>4, <1>5 DEF Members
<1> QED BY <1>3, <1>6

\* Appending a new value adds exactly that value.
LEMMA AppendContents ==
  ASSUME NEW S, NEW s \in Seq(S), NEW x \in S, IsDistinct(s), x \notin Members(s)
  PROVE /\ IsDistinct(Append(s, x)) /\ Append(s, x) \in Seq(S)
        /\ Len(Append(s, x)) = Len(s) + 1
        /\ Members(Append(s, x)) = Members(s) \cup {x}
<1> DEFINE e == Append(s, x)
<1>1. /\ DOMAIN e = 1..(Len(s) + 1) /\ DOMAIN s = 1..Len(s) /\ Len(s) \in Nat
      /\ e \in Seq(S) /\ Len(e) = Len(s) + 1
  OBVIOUS
<1>2. \A j \in DOMAIN e : e[j] = IF j <= Len(s) THEN s[j] ELSE x
  OBVIOUS
<1>3. IsDistinct(e)
  BY <1>1, <1>2 DEF IsDistinct, Members
<1>4. \A j \in DOMAIN e : e[j] \in Members(s) \cup {x}
  BY <1>1, <1>2 DEF Members
<1>5. e[Len(s) + 1] = x /\ Len(s) + 1 \in DOMAIN e /\ \A j \in DOMAIN s : j \in DOMAIN e /\ e[j] = s[j]
  BY <1>1, <1>2
<1>6. Members(e) = Members(s) \cup {x}
  BY <1>4, <1>5 DEF Members
<1> QED BY <1>1, <1>3, <1>6


----------------------------------------------------------------------------
(* The inductive invariant.                                                *)

\* The TIDs whose stack the guest may not have back yet: those the signal
\* registry knows, and the one the reaper has detached and not yet released.
Held == attached \cup (IF reaper.pc = "release" THEN {reaper.tid} ELSE {})

\* What the reaper knows of the worker it took, from one unlocked step to the next.
ReaperHolds ==
  /\ reaper.pc \in {"join", "detach", "release", "record"} =>
       reaper.tid \in Members(active)
  /\ reaper.pc \in {"detach", "release", "record"} => worker[reaper.tid].phase = "ended"
  /\ reaper.pc \in {"join", "detach"} => reaper.tid \in attached
  /\ reaper.pc = "release" /\ reaper.tid \in attached => reaper.failed
  /\ reaper.pc = "exited" /\ life = "live" =>
       reaper.tid \in Members(active) \cap attached /\ error = 1

\* A worker is attached until the reaper detaches it, and active and attached
\* until its native thread has ended.
AttachedLong ==
  /\ \A t \in Members(active) :
       t \in attached \/ (reaper.pc \in {"release", "record"} /\ reaper.tid = t)
  /\ \A t \in DOMAIN worker :
       worker[t].phase # "ended" => t \in Members(active) \cap attached

\* A held stack is mapped and its TID word set.
HeldMapped ==
  \A t \in Held : stack[worker[t].stack] = "thread" /\ word[worker[t].stack] = t

\* The manager stops only without workers, and is deleted after its reaper.
StopsEmpty ==
  /\ life # "live" => active = <<>>
  /\ life = "deleted" => reaper.pc = "exited"

\* Each worker is active once or was reaped once.
Balanced ==
  /\ IsDistinct(active)
  /\ Members(active) \subseteq DOMAIN worker
  /\ reaped + Len(active) = Cardinality(DOMAIN worker)

IInv == TypeOK /\ Balanced /\ ReaperHolds /\ AttachedLong /\ HeldMapped /\ StopsEmpty
----------------------------------------------------------------------------
(* Facts about the parts of the state.                                     *)

\* A TID that is about to be given out is a TID, and no worker's yet.
LEMMA NextTidNew ==
  ASSUME TypeOK, Admitted
  PROVE next_tid \in Tids /\ next_tid \notin DOMAIN worker /\ next_tid # 0
  BY ThreadsAssumption DEF TypeOK, Admitted, Tids

LEMMA ExitsTyped ==
  ASSUME NEW x \in Exits
  PROVE /\ x.clear \in BOOLEAN /\ x.unmap \in BOOLEAN
        /\ x.failed \in BOOLEAN /\ x.bound \in BOOLEAN
  BY DEF Exits

\* What Start does to the table of workers.
LEMMA StartedWorker ==
  ASSUME TypeOK, NEW s \in Stacks, Start(s)
  PROVE /\ DOMAIN worker' = DOMAIN worker \cup {next_tid}
        /\ worker' \in [DOMAIN worker' -> Worker]
        /\ worker'[next_tid] = NewWorker(s)
        /\ \A t \in DOMAIN worker : worker'[t] = worker[t]
<1>1. NewWorker(s) \in Worker
  BY DEF NewWorker, Worker
<1>2. next_tid \notin DOMAIN worker
  BY NextTidNew DEF Start
<1> QED BY <1>1, <1>2 DEF Start, TypeOK

\* What the end of a run, and the end of its native thread, do to it: only the
\* worker itself changes, and it keeps its stack.
LEMMA EndedWorker ==
  ASSUME TypeOK, NEW t \in Tids, WorkerDone(t) \/ NativeEnd(t)
  PROVE /\ t \in DOMAIN worker /\ worker[t].phase # "ended"
        /\ DOMAIN worker' = DOMAIN worker
        /\ worker' \in [DOMAIN worker' -> Worker]
        /\ \A u \in DOMAIN worker :
             /\ worker'[u].stack = worker[u].stack
             /\ u # t => worker'[u] = worker[u]
<1>0. worker \in [DOMAIN worker -> Worker]
  BY DEF TypeOK
<1>1. CASE WorkerDone(t)
  <2>1. PICK x \in Exits :
          worker' = [worker EXCEPT ![t] =
            [stack |-> worker[t].stack, phase |-> "done", clear |-> x.clear,
             unmap |-> x.unmap, failed |-> x.failed, bound |-> x.bound]]
    BY <1>1 DEF WorkerDone
  <2>2. t \in DOMAIN worker /\ worker[t].phase = "running"
    BY <1>1 DEF WorkerDone
  <2>3. [stack |-> worker[t].stack, phase |-> "done", clear |-> x.clear,
         unmap |-> x.unmap, failed |-> x.failed, bound |-> x.bound] \in Worker
    BY <1>0, <2>2, ExitsTyped DEF Worker
  <2> QED BY <1>0, <2>1, <2>2, <2>3
<1>2. CASE NativeEnd(t)
  <2>1. /\ t \in DOMAIN worker /\ worker[t].phase = "done"
        /\ worker' = [worker EXCEPT ![t].phase = "ended"]
    BY <1>2 DEF NativeEnd
  <2>2. worker'[t] = [worker[t] EXCEPT !.phase = "ended"]
    BY <1>0, <2>1
  <2>3. worker[t] \in Worker
    BY <1>0, <2>1
  <2>4. worker'[t] \in Worker /\ worker'[t].stack = worker[t].stack
    BY <2>2, <2>3 DEF Worker
  <2> QED BY <1>0, <2>1, <2>4
<1> QED BY <1>1, <1>2

\* What Record does to the active workers.
LEMMA RecordedActive ==
  ASSUME TypeOK, Balanced, ReaperHolds, Record
  PROVE /\ active' \in Seq(Tids) /\ Len(active') = Len(active) - 1
        /\ IsDistinct(active') /\ Members(active') = Members(active) \ {reaper.tid}
<1>1. reaper.tid \in Members(active)
  BY DEF Record, ReaperHolds
<1>2. /\ IndexIn(active, reaper.tid) \in DOMAIN active
      /\ active[IndexIn(active, reaper.tid)] = reaper.tid
  BY <1>1, IndexFound
<1>3. active \in Seq(Tids) /\ IsDistinct(active)
  BY DEF TypeOK, Balanced
<1>4. active' = Erase(active, IndexIn(active, reaper.tid))
  BY DEF Record
<1> QED BY <1>2, <1>3, <1>4, EraseType, EraseContents

\* What Start does to them.
LEMMA StartedActive ==
  ASSUME TypeOK, Balanced, NEW s \in Stacks, Start(s)
  PROVE /\ active' \in Seq(Tids) /\ Len(active') = Len(active) + 1
        /\ IsDistinct(active') /\ Members(active') = Members(active) \cup {next_tid}
<1>1. active \in Seq(Tids) /\ IsDistinct(active) /\ active' = Append(active, next_tid)
  BY DEF TypeOK, Balanced, Start
<1>2. next_tid \in Tids /\ next_tid \notin Members(active)
  BY NextTidNew DEF Start, Balanced
<1> QED BY <1>1, <1>2, AppendContents

\* What Scan does: it takes an active worker that is done, or ends.
LEMMA ScanTakes ==
  ASSUME TypeOK, Scan
  PROVE \/ \E t \in Members(active) :
             reaper' = [pc |-> "join", tid |-> t, failed |-> FALSE]
        \/ life = "stopping" /\ reaper' = [pc |-> "exited", tid |-> 0, failed |-> FALSE]
<1>1. CASE \E i \in DoneAt : reaper' = [pc |-> "join", tid |-> active[i], failed |-> FALSE]
  BY <1>1 DEF DoneAt, Members
<1> QED BY <1>1 DEF Scan

\* The steps of the reaper that only move it on.
LEMMA ReaperMoves ==
  ASSUME TypeOK, Balanced, ReaperHolds
  PROVE /\ Join => /\ reaper'.pc = "detach" /\ reaper'.tid = reaper.tid
                   /\ worker[reaper.tid].phase = "ended"
        /\ JoinFails => reaper'.pc = "exited" /\ reaper'.tid = reaper.tid
        /\ Detach => /\ reaper'.pc = "release" /\ reaper'.tid = reaper.tid
                     /\ worker[reaper.tid].bound => reaper'.failed
        /\ Release => reaper'.pc = "record" /\ reaper'.tid = reaper.tid
<1>1. reaper \in Reaper
  BY DEF TypeOK
<1> QED BY <1>1 DEF Join, JoinFails, Detach, Release, Reaper

----------------------------------------------------------------------------
(* Every step keeps every variable in its type.                            *)

LEMMA TypeOKStep ==
  ASSUME TypeOK, Balanced, ReaperHolds, [Next]_vars
  PROVE TypeOK'
<1>1. ASSUME NEW s \in Stacks, MapStack(s) PROVE TypeOK'
  BY <1>1 DEF MapStack, TypeOK, managerVars, Tids
<1>2. ASSUME NEW s \in Stacks, Start(s) PROVE TypeOK'
  <2>1. active' \in Seq(Tids) /\ Len(active') <= Limit
    <3>1. Len(active) \in Nat /\ Len(active) < Limit
      BY <1>2 DEF Start, Admitted, TypeOK
    <3> QED BY <1>2, <3>1, StartedActive, ThreadsAssumption
  <2>2. next_tid' \in FirstTid..(LastTid + 1)
    BY <1>2, ThreadsAssumption DEF Start, Admitted, TypeOK
  <2>3. DOMAIN worker' \subseteq FirstTid..(next_tid' - 1) /\ worker' \in [DOMAIN worker' -> Worker]
    <3>1. DOMAIN worker' = DOMAIN worker \cup {next_tid} /\ worker' \in [DOMAIN worker' -> Worker]
      BY <1>2, StartedWorker
    <3>2. next_tid' = next_tid + 1 /\ FirstTid <= next_tid /\ next_tid \in Int /\ FirstTid \in Int
      BY <1>2, ThreadsAssumption DEF Start, TypeOK
    <3>3. DOMAIN worker \subseteq FirstTid..(next_tid - 1)
      BY DEF TypeOK
    <3> QED BY <3>1, <3>2, <3>3
  <2>4. attached' \subseteq DOMAIN worker'
    BY <1>2, StartedWorker DEF Start, TypeOK
  <2>5. /\ stack' \in [Stacks -> {"free", "mapped", "thread"}]
        /\ word' \in [Stacks -> Tids \cup {0}]
    BY <1>2, NextTidNew DEF Start, TypeOK
  <2> QED BY <1>2, <2>1, <2>2, <2>3, <2>4, <2>5 DEF Start, TypeOK, Reaper
<1>3. ASSUME NEW s \in Stacks, StartFails(s) PROVE TypeOK'
  <2>1. next_tid' = next_tid + 1 /\ next_tid' \in FirstTid..(LastTid + 1)
    BY <1>3, ThreadsAssumption DEF StartFails, Admitted, TypeOK
  <2>2. DOMAIN worker' \subseteq FirstTid..(next_tid' - 1)
    BY <1>3, <2>1, ThreadsAssumption DEF StartFails, TypeOK
  <2> QED BY <1>3, <2>1, <2>2 DEF StartFails, TypeOK, guestVars
<1>4. ASSUME NEW s \in Stacks, GuestJoin(s) PROVE TypeOK'
  BY <1>4 DEF GuestJoin, TypeOK, managerVars
<1>5. ASSUME NEW t \in Tids, WorkerDone(t) \/ NativeEnd(t) PROVE TypeOK'
  <2>1. UNCHANGED <<managerVars, reaper, attached, guestVars>>
    BY <1>5 DEF WorkerDone, NativeEnd
  <2> QED BY <1>5, <2>1, EndedWorker DEF TypeOK, managerVars, guestVars
<1>6. CASE Scan
  <2>1. reaper' \in Reaper
    <3>1. Members(active) \subseteq Tids
      BY DEF Members, TypeOK
    <3>2. CASE \E t \in Members(active) :
                 reaper' = [pc |-> "join", tid |-> t, failed |-> FALSE]
      <4>1. PICK t \in Tids : reaper' = [pc |-> "join", tid |-> t, failed |-> FALSE]
        BY <3>1, <3>2
      <4> QED BY <4>1 DEF Reaper
    <3>3. CASE reaper' = [pc |-> "exited", tid |-> 0, failed |-> FALSE]
      BY <3>3 DEF Reaper
    <3> QED BY <1>6, <3>2, <3>3, ScanTakes
  <2> QED BY <1>6, <2>1 DEF Scan, TypeOK, managerVars, guestVars
<1>7. CASE Join
  <2>1. worker[reaper.tid].failed \in BOOLEAN
    BY <1>7 DEF Join, ReaperHolds, Balanced, TypeOK, Worker
  <2>2. reaper' \in Reaper
    BY <1>7, <2>1 DEF Join, Reaper, TypeOK
  <2> QED BY <1>7, <2>2 DEF Join, TypeOK, managerVars, guestVars
<1>8. CASE JoinFails
  <2>1. reaper' \in Reaper
    BY <1>8 DEF JoinFails, Reaper, TypeOK
  <2> QED BY <1>8, <2>1 DEF JoinFails, TypeOK, guestVars
<1>9. CASE Detach
  <2>1. worker[reaper.tid].bound \in BOOLEAN
    BY <1>9 DEF Detach, ReaperHolds, Balanced, TypeOK, Worker
  <2>2. reaper' \in Reaper
    BY <1>9, <2>1 DEF Detach, Reaper, TypeOK
  <2> QED BY <1>9, <2>2 DEF Detach, TypeOK, managerVars, guestVars
<1>10. CASE Release
  <2>1. reaper' \in Reaper
    BY <1>10 DEF Release, Reaper, TypeOK
  <2>2. /\ stack' \in [Stacks -> {"free", "mapped", "thread"}]
        /\ word' \in [Stacks -> Tids \cup {0}]
    BY <1>10 DEF Release, TypeOK, guestVars
  <2> QED BY <1>10, <2>1, <2>2 DEF Release, TypeOK, managerVars
<1>11. CASE Record
  <2>1. active' \in Seq(Tids) /\ Len(active') <= Limit
    BY <1>11, RecordedActive, ThreadsAssumption DEF TypeOK
  <2>2. reaper' \in Reaper /\ reaped' \in Nat /\ error' \in {0, 1}
    BY <1>11 DEF Record, Reaper, TypeOK
  <2> QED BY <1>11, <2>1, <2>2 DEF Record, TypeOK, guestVars
<1>12. CASE Destroy
  BY <1>12 DEF Destroy, TypeOK, guestVars
<1>13. CASE Delete
  BY <1>13 DEF Delete, TypeOK, guestVars
<1>14. CASE UNCHANGED vars
  BY <1>14 DEF vars, TypeOK
<1> QED BY <1>1, <1>2, <1>3, <1>4, <1>5, <1>6, <1>7, <1>8, <1>9, <1>10, <1>11, <1>12,
           <1>13, <1>14 DEF Next, ReaperStep
----------------------------------------------------------------------------
(* Every worker is active once or was reaped once.                         *)

LEMMA BalancedStep ==
  ASSUME TypeOK, Balanced, ReaperHolds, [Next]_vars
  PROVE Balanced'
<1>1. CASE UNCHANGED <<active, reaped, worker>>
  BY <1>1 DEF Balanced
<1>2. ASSUME NEW s \in Stacks, Start(s) PROVE Balanced'
  <2>1. IsFiniteSet(DOMAIN worker)
    <3>1. IsFiniteSet(FirstTid..(next_tid - 1))
      BY ThreadsAssumption, FS_Interval DEF TypeOK
    <3> QED BY <3>1, FS_Subset DEF TypeOK
  <2>2. next_tid \notin DOMAIN worker
    BY <1>2, NextTidNew DEF Start
  <2>3. /\ Cardinality(DOMAIN worker') = Cardinality(DOMAIN worker) + 1
        /\ Cardinality(DOMAIN worker) \in Nat
    BY <1>2, <2>1, <2>2, StartedWorker, FS_AddElement, FS_CardinalityType
  <2>4. Members(active') \subseteq DOMAIN worker'
    BY <1>2, StartedActive, StartedWorker DEF Balanced
  <2>5. reaped' = reaped /\ reaped \in Nat /\ Len(active) \in Nat
    BY <1>2 DEF Start, TypeOK
  <2>6. reaped' + Len(active') = Cardinality(DOMAIN worker')
    BY <1>2, <2>3, <2>5, StartedActive DEF Balanced
  <2> QED BY <1>2, <2>4, <2>6, StartedActive DEF Balanced
<1>3. ASSUME NEW t \in Tids, WorkerDone(t) \/ NativeEnd(t) PROVE Balanced'
  <2>1. active' = active /\ reaped' = reaped
    BY <1>3 DEF WorkerDone, NativeEnd, managerVars
  <2> QED BY <1>3, <2>1, EndedWorker DEF Balanced
<1>4. CASE Record
  <2>1. worker' = worker /\ reaped' = reaped + 1 /\ reaped \in Nat /\ Len(active) \in Nat
    BY <1>4 DEF Record, TypeOK
  <2> QED BY <1>4, <2>1, RecordedActive DEF Balanced
<1> QED BY <1>1, <1>2, <1>3, <1>4 DEF Next, ReaperStep, MapStack, StartFails, GuestJoin,
      Scan, Join, JoinFails, Detach, Release, Destroy, Delete, managerVars, vars

----------------------------------------------------------------------------
(* What the reaper knows of its worker stays true while it holds no lock.  *)

LEMMA ReaperHoldsStep ==
  ASSUME TypeOK, Balanced, ReaperHolds, AttachedLong, StopsEmpty, [Next]_vars
  PROVE ReaperHolds'
<1>0. reaper.pc \in {"join", "detach", "release", "record"} =>
        reaper.tid \in DOMAIN worker
  BY DEF ReaperHolds, Balanced
<1>1. CASE UNCHANGED <<active, worker, reaper, attached, life, error>>
  BY <1>1 DEF ReaperHolds
<1>2. ASSUME NEW s \in Stacks, Start(s) PROVE ReaperHolds'
  <2>1. /\ Members(active') = Members(active) \cup {next_tid}
        /\ attached' = attached \cup {next_tid}
        /\ UNCHANGED <<reaper, life, error>>
    BY <1>2, StartedActive DEF Start
  <2>2. next_tid \notin DOMAIN worker /\ \A t \in DOMAIN worker : worker'[t] = worker[t]
    BY <1>2, NextTidNew, StartedWorker DEF Start
  <2> QED BY <1>0, <2>1, <2>2 DEF ReaperHolds
<1>3. ASSUME NEW t \in Tids, WorkerDone(t) \/ NativeEnd(t) PROVE ReaperHolds'
  <2>1. UNCHANGED <<active, reaper, attached, life, error>>
    BY <1>3 DEF WorkerDone, NativeEnd, managerVars
  <2>2. reaper.pc \in {"detach", "release", "record"} => reaper.tid # t
    BY <1>3, EndedWorker DEF ReaperHolds
  <2> QED BY <1>0, <1>3, <2>1, <2>2, EndedWorker DEF ReaperHolds
<1>4. CASE Scan
  <2>1. UNCHANGED <<active, worker, attached, life, error>> /\ reaper.pc = "scan"
    BY <1>4 DEF Scan, managerVars
  <2>2. \/ reaper'.pc = "join" /\ reaper'.tid \in Members(active)
        \/ reaper'.pc = "exited" /\ life = "stopping"
    BY <1>4, ScanTakes
  <2> QED BY <2>1, <2>2 DEF ReaperHolds, AttachedLong
<1>5. CASE Join
  BY <1>5, ReaperMoves DEF Join, ReaperHolds, managerVars
<1>6. CASE JoinFails
  BY <1>6, ReaperMoves DEF JoinFails, ReaperHolds
<1>7. CASE Detach
  <2>1. /\ UNCHANGED <<active, worker, life, error>> /\ reaper.pc = "detach"
        /\ reaper'.pc = "release" /\ reaper'.tid = reaper.tid
        /\ reaper.tid \in attached' => reaper'.failed
    BY <1>7, ReaperMoves DEF Detach, managerVars
  <2> QED BY <2>1 DEF ReaperHolds
<1>8. CASE Release
  <2>1. /\ UNCHANGED <<active, worker, life, error, attached>> /\ reaper.pc = "release"
        /\ reaper'.pc = "record" /\ reaper'.tid = reaper.tid
    BY <1>8, ReaperMoves DEF Release, managerVars
  <2> QED BY <2>1 DEF ReaperHolds
<1>9. CASE Record
  BY <1>9 DEF Record, ReaperHolds
<1>10. CASE Destroy
  <2>1. active = <<>> => Members(active) = {}
    BY DEF Members
  <2> QED BY <1>10, <2>1 DEF Destroy, ReaperHolds
<1>11. CASE Delete
  BY <1>11 DEF Delete, ReaperHolds
<1> QED BY <1>1, <1>2, <1>3, <1>4, <1>5, <1>6, <1>7, <1>8, <1>9, <1>10, <1>11
      DEF Next, ReaperStep, MapStack, StartFails, GuestJoin, managerVars, vars

----------------------------------------------------------------------------
(* A worker stays attached and active until its native thread has ended.   *)

LEMMA AttachedLongStep ==
  ASSUME TypeOK, Balanced, ReaperHolds, AttachedLong, [Next]_vars
  PROVE AttachedLong'
<1>1. CASE UNCHANGED <<active, worker, reaper, attached>>
  BY <1>1 DEF AttachedLong
<1>2. ASSUME NEW s \in Stacks, Start(s) PROVE AttachedLong'
  <2>1. /\ Members(active') = Members(active) \cup {next_tid}
        /\ attached' = attached \cup {next_tid} /\ reaper' = reaper
    BY <1>2, StartedActive DEF Start
  <2> QED BY <1>2, <2>1, StartedWorker DEF AttachedLong
<1>3. ASSUME NEW t \in Tids, WorkerDone(t) \/ NativeEnd(t) PROVE AttachedLong'
  <2>1. UNCHANGED <<active, reaper, attached>>
    BY <1>3 DEF WorkerDone, NativeEnd, managerVars
  <2> QED BY <1>3, <2>1, EndedWorker DEF AttachedLong
<1>4. CASE Scan \/ Join \/ JoinFails
  <2>1. UNCHANGED <<active, worker, attached>> /\ reaper.pc \notin {"release", "record"}
    BY <1>4 DEF Scan, Join, JoinFails, managerVars
  <2> QED BY <2>1 DEF AttachedLong
<1>5. CASE Detach
  <2>1. /\ UNCHANGED <<active, worker>> /\ reaper.pc = "detach"
        /\ reaper'.pc = "release" /\ reaper'.tid = reaper.tid
        /\ attached \ {reaper.tid} \subseteq attached'
    BY <1>5, ReaperMoves DEF Detach, managerVars
  <2>2. worker[reaper.tid].phase = "ended"
    BY <2>1 DEF ReaperHolds
  <2> QED BY <2>1, <2>2 DEF AttachedLong
<1>6. CASE Release
  BY <1>6, ReaperMoves DEF Release, AttachedLong, managerVars
<1>7. CASE Record
  <2>1. Members(active') = Members(active) \ {reaper.tid} /\ UNCHANGED <<worker, attached>>
    BY <1>7, RecordedActive DEF Record
  <2>2. reaper.pc = "record" /\ worker[reaper.tid].phase = "ended"
    BY <1>7 DEF Record, ReaperHolds
  <2> QED BY <2>1, <2>2 DEF AttachedLong
<1> QED BY <1>1, <1>2, <1>3, <1>4, <1>5, <1>6, <1>7
      DEF Next, ReaperStep, MapStack, StartFails, GuestJoin, Destroy, Delete, managerVars, vars
----------------------------------------------------------------------------
(* No step takes a held stack away.                                        *)

\* Two held TIDs have different stacks: a stack's word holds only one of them.
LEMMA HeldApart ==
  ASSUME HeldMapped, NEW t \in Held, NEW u \in Held, worker[t].stack = worker[u].stack
  PROVE t = u
  BY DEF HeldMapped

LEMMA HeldTyped ==
  ASSUME TypeOK, Balanced, ReaperHolds
  PROVE Held \subseteq DOMAIN worker /\ \A t \in Held : worker[t].stack \in Stacks /\ t # 0
<1>1. Held \subseteq DOMAIN worker
  BY DEF Held, TypeOK, ReaperHolds, Balanced
<1>2. \A t \in DOMAIN worker : worker[t].stack \in Stacks /\ t # 0
  BY ThreadsAssumption DEF TypeOK, Worker
<1> QED BY <1>1, <1>2

LEMMA HeldMappedStep ==
  ASSUME TypeOK, Balanced, ReaperHolds, HeldMapped, [Next]_vars
  PROVE HeldMapped'
<1>0. Held \subseteq DOMAIN worker /\ \A t \in Held : worker[t].stack \in Stacks /\ t # 0
  BY HeldTyped
<1>t. stack \in [Stacks -> {"free", "mapped", "thread"}] /\ word \in [Stacks -> Tids \cup {0}]
  BY DEF TypeOK
<1>1. CASE UNCHANGED <<worker, reaper, attached, stack, word>>
  BY <1>1 DEF HeldMapped, Held
<1>2. ASSUME NEW s \in Stacks, MapStack(s) PROVE HeldMapped'
  <2>1. Held' = Held /\ worker' = worker
    BY <1>2 DEF MapStack, Held
  <2>2. \A t \in Held : worker[t].stack # s
    BY <1>2 DEF MapStack, HeldMapped
  <2> QED BY <1>0, <1>t, <1>2, <2>1, <2>2 DEF MapStack, HeldMapped
<1>3. ASSUME NEW s \in Stacks, GuestJoin(s) PROVE HeldMapped'
  <2>1. Held' = Held /\ UNCHANGED <<worker, word>>
    BY <1>3 DEF GuestJoin, Held
  <2>2. \A t \in Held : worker[t].stack # s
    BY <1>0, <1>3 DEF GuestJoin, HeldMapped
  <2> QED BY <1>0, <1>t, <1>3, <2>1, <2>2 DEF GuestJoin, HeldMapped
<1>4. ASSUME NEW s \in Stacks, Start(s) PROVE HeldMapped'
  <2>1. Held' = Held \cup {next_tid} /\ next_tid \notin Held
    BY <1>0, <1>4, NextTidNew DEF Start, Held
  <2>2. /\ \A t \in Held : worker'[t] = worker[t]
        /\ worker'[next_tid].stack = s
    <3>1. worker'[next_tid] = NewWorker(s) /\ \A t \in DOMAIN worker : worker'[t] = worker[t]
      BY <1>4, StartedWorker
    <3> QED BY <1>0, <3>1 DEF NewWorker
  <2>3. \A t \in Held : worker[t].stack # s
    BY <1>4 DEF Start, HeldMapped
  <2> QED BY <1>0, <1>t, <1>4, <2>1, <2>2, <2>3 DEF Start, HeldMapped
<1>5. ASSUME NEW t \in Tids, WorkerDone(t) \/ NativeEnd(t) PROVE HeldMapped'
  <2>1. UNCHANGED <<reaper, attached, stack, word>>
    BY <1>5 DEF WorkerDone, NativeEnd, guestVars
  <2>2. Held' = Held
    BY <2>1 DEF Held
  <2> QED BY <1>0, <1>5, <2>1, <2>2, EndedWorker DEF HeldMapped
<1>6. CASE Scan \/ Join \/ JoinFails \/ Record
  <2>1. UNCHANGED <<worker, attached, stack, word>>
    BY <1>6 DEF Scan, Join, JoinFails, Record, guestVars
  <2>2. reaper'.pc # "release"
    BY <1>6, ScanTakes, ReaperMoves DEF Record
  <2> QED BY <2>1, <2>2 DEF HeldMapped, Held
<1>7. CASE Detach
  <2>1. /\ UNCHANGED <<worker, stack, word>> /\ reaper.pc = "detach"
        /\ reaper'.pc = "release" /\ reaper'.tid = reaper.tid
        /\ attached' \subseteq attached
    BY <1>7, ReaperMoves DEF Detach, guestVars
  <2>2. reaper.tid \in attached
    BY <2>1 DEF ReaperHolds
  <2> QED BY <2>1, <2>2 DEF HeldMapped, Held
<1>8. CASE Release
  <2> DEFINE s == worker[reaper.tid].stack
  <2>1. /\ reaper.pc = "release" /\ reaper'.pc = "record"
        /\ UNCHANGED <<worker, attached>>
    BY <1>8, ReaperMoves DEF Release
  <2>2. Held' = attached /\ attached \subseteq Held /\ reaper.tid \in Held
    BY <2>1 DEF Held
  <2>3. CASE stack' = stack /\ word' = word
    BY <2>1, <2>2, <2>3 DEF HeldMapped
  <2>4. CASE ~(stack' = stack /\ word' = word)
    <3>1. ~reaper.failed
      BY <1>8, <2>4 DEF Release, guestVars
    <3>2. reaper.tid \notin attached
      BY <2>1, <3>1 DEF ReaperHolds
    <3>3. \A t \in attached : worker[t].stack # s
      BY <2>2, <3>2, HeldApart
    <3>4. \A r \in Stacks \ {s} : stack'[r] = stack[r] /\ word'[r] = word[r]
      BY <1>t, <1>8 DEF Release, guestVars
    <3> QED BY <1>0, <2>1, <2>2, <3>3, <3>4 DEF HeldMapped
  <2> QED BY <2>3, <2>4
<1> QED BY <1>1, <1>2, <1>3, <1>4, <1>5, <1>6, <1>7, <1>8
      DEF Next, ReaperStep, StartFails, Destroy, Delete, guestVars, vars

----------------------------------------------------------------------------
(* The manager stops without workers.                                      *)

LEMMA StopsEmptyStep ==
  ASSUME TypeOK, Balanced, ReaperHolds, StopsEmpty, [Next]_vars
  PROVE StopsEmpty'
<1>1. CASE UNCHANGED <<active, life, reaper>>
  BY <1>1 DEF StopsEmpty
<1>2. ASSUME NEW s \in Stacks, Start(s) PROVE StopsEmpty'
  BY <1>2 DEF Start, Admitted, StopsEmpty
<1>3. CASE Scan \/ Join \/ JoinFails \/ Detach \/ Release
  <2>1. UNCHANGED <<active, life>>
    BY <1>3 DEF Scan, Join, JoinFails, Detach, Release, managerVars
  <2>2. reaper.pc # "exited"
    BY <1>3 DEF Scan, Join, JoinFails, Detach, Release
  <2> QED BY <2>1, <2>2 DEF StopsEmpty
<1>4. CASE Record
  <2>1. active # <<>>
    BY <1>4 DEF Record, ReaperHolds, Members
  <2> QED BY <1>4, <2>1 DEF Record, StopsEmpty, TypeOK
<1>5. CASE Destroy
  BY <1>5 DEF Destroy, StopsEmpty
<1>6. CASE Delete
  BY <1>6 DEF Delete, StopsEmpty
<1> QED BY <1>1, <1>2, <1>3, <1>4, <1>5, <1>6
      DEF Next, ReaperStep, MapStack, StartFails, GuestJoin, WorkerDone, NativeEnd,
          managerVars, vars

----------------------------------------------------------------------------
(* The theorems.                                                           *)

LEMMA InitIInv == Init => IInv
<1> SUFFICES ASSUME Init PROVE IInv
  OBVIOUS
<1>1. DOMAIN worker = {} /\ active = <<>> /\ Members(active) = {}
  BY DEF Init, Members
<1>2. TypeOK
  <2>1. worker \in [DOMAIN worker -> Worker]
    BY <1>1 DEF Init
  <2>2. reaper \in Reaper
    BY DEF Init, Reaper
  <2>3. active \in Seq(Tids) /\ Len(active) <= Limit
    BY <1>1, ThreadsAssumption
  <2>4. next_tid \in FirstTid..(LastTid + 1) /\ reaped \in Nat
    BY ThreadsAssumption DEF Init
  <2> QED BY <1>1, <2>1, <2>2, <2>3, <2>4 DEF Init, TypeOK
<1>3. Balanced
  BY <1>1, FS_EmptySet DEF Init, Balanced, IsDistinct
<1>4. ReaperHolds /\ AttachedLong /\ HeldMapped /\ StopsEmpty
  BY <1>1 DEF Init, ReaperHolds, AttachedLong, HeldMapped, Held, StopsEmpty
<1> QED BY <1>2, <1>3, <1>4 DEF IInv

\* IInv is inductive.
THEOREM Inductive == Spec => []IInv
<1>1. IInv /\ [Next]_vars => IInv'
  BY TypeOKStep, BalancedStep, ReaperHoldsStep, AttachedLongStep, HeldMappedStep,
     StopsEmptyStep DEF IInv
<1> QED BY InitIInv, <1>1, PTL DEF Spec

\* The reaper's accounting is exact whatever fails: every worker ever started is
\* active once or was reaped once, and at most Limit are active.
THEOREM ReaperAccounts == Spec => [](TypeOK /\ Accounted)
<1>1. IInv => TypeOK /\ Accounted
  BY DEF IInv, TypeOK, Balanced, Accounted
<1> QED BY <1>1, Inductive, PTL

\* No native thread ever loses the stack it runs on, and no two run on one.
THEOREM NoLiveStackReleased == Spec => []StackHeld
<1>1. IInv => StackHeld
  <2> SUFFICES ASSUME IInv, NEW t \in DOMAIN worker, worker[t].phase # "ended"
               PROVE /\ stack[worker[t].stack] = "thread" /\ word[worker[t].stack] = t
                     /\ \A u \in DOMAIN worker \ {t} :
                          worker[u].phase # "ended" => worker[u].stack # worker[t].stack
    BY DEF StackHeld
  <2>1. \A u \in DOMAIN worker : worker[u].phase # "ended" => u \in Held
    BY DEF IInv, AttachedLong, Held
  <2> QED BY <2>1, HeldApart DEF IInv, HeldMapped
<1> QED BY <1>1, Inductive, PTL

\* A TID leaves the signal registry before the guest can join its thread.
THEOREM DetachedBeforeJoined == Spec => []SignalsBeforeJoin
<1>1. IInv => SignalsBeforeJoin
  BY DEF IInv, HeldMapped, Held, SignalsBeforeJoin
<1> QED BY <1>1, Inductive, PTL

\* A failed native join keeps record, registry entry, mapping and TID word.
THEOREM UnknownLifetimeRetained == Spec => []FailedJoinRetained
<1>1. IInv => FailedJoinRetained
  BY DEF IInv, ReaperHolds, HeldMapped, Held, FailedJoinRetained
<1> QED BY <1>1, Inductive, PTL

\* The manager is deleted only when no native thread can refer to it.
THEOREM DeletedLast == Spec => []DeletedUnused
<1>1. IInv => DeletedUnused
  <2> SUFFICES ASSUME IInv, life = "deleted" PROVE DeletedUnused
    BY DEF DeletedUnused
  <2>1. active = <<>> /\ reaper.pc = "exited" /\ Members(active) = {}
    BY DEF IInv, StopsEmpty, Members
  <2> QED BY <2>1 DEF IInv, AttachedLong, DeletedUnused
<1> QED BY <1>1, Inductive, PTL

----------------------------------------------------------------------------
(* The signal registry and the records it points into.                     *)

\* Once the reaper is past its detach, the registry still knows a TID only if
\* the detach was refused, and then there is an error to record.
DetachRefused ==
  /\ reaper.pc \in {"release", "record"} /\ reaper.tid \in attached =>
       worker[reaper.tid].bound /\ reaper.failed
  /\ \A t \in attached \ Members(active) : worker[t].bound /\ error = 1

LEMMA DetachRefusedStep ==
  ASSUME IInv, DetachRefused, [Next]_vars
  PROVE DetachRefused'
<1>0. TypeOK /\ Balanced /\ ReaperHolds /\ AttachedLong
  BY DEF IInv
<1>1. CASE UNCHANGED <<active, worker, reaper, attached, error>>
  BY <1>1 DEF DetachRefused
<1>2. ASSUME NEW s \in Stacks, Start(s) PROVE DetachRefused'
  <2>1. /\ Members(active') = Members(active) \cup {next_tid}
        /\ attached' = attached \cup {next_tid} /\ UNCHANGED <<reaper, error>>
    BY <1>0, <1>2, StartedActive DEF Start
  <2>2. /\ next_tid \notin DOMAIN worker /\ attached \subseteq DOMAIN worker
        /\ \A t \in DOMAIN worker : worker'[t] = worker[t]
    BY <1>0, <1>2, NextTidNew, StartedWorker DEF Start, TypeOK
  <2>3. reaper.pc \in {"release", "record"} => reaper.tid \in DOMAIN worker
    BY <1>0 DEF ReaperHolds, Balanced
  <2> QED BY <2>1, <2>2, <2>3 DEF DetachRefused
<1>3. ASSUME NEW t \in Tids, WorkerDone(t) \/ NativeEnd(t) PROVE DetachRefused'
  <2>1. UNCHANGED <<active, reaper, attached, error>>
    BY <1>3 DEF WorkerDone, NativeEnd, managerVars
  <2>2. /\ worker[t].phase # "ended" /\ t \in DOMAIN worker
        /\ \A u \in DOMAIN worker : u # t => worker'[u] = worker[u]
    BY <1>0, <1>3, EndedWorker
  <2>3. t \in Members(active)
    BY <1>0, <2>2 DEF AttachedLong
  <2>4. reaper.pc \in {"release", "record"} => reaper.tid # t
    BY <1>0, <2>2 DEF ReaperHolds
  <2>5. attached \subseteq DOMAIN worker
    BY <1>0 DEF TypeOK
  <2> QED BY <2>1, <2>2, <2>3, <2>4, <2>5 DEF DetachRefused
<1>4. CASE Scan \/ Join \/ JoinFails
  <2>1. UNCHANGED <<active, worker, attached>> /\ (error' = error \/ error' = 1)
    BY <1>4 DEF Scan, Join, JoinFails, managerVars
  <2>2. reaper'.pc \notin {"release", "record"}
    BY <1>0, <1>4, ScanTakes, ReaperMoves
  <2> QED BY <2>1, <2>2 DEF DetachRefused
<1>5. CASE Detach
  <2>1. /\ UNCHANGED <<active, worker, error>> /\ reaper.pc = "detach"
        /\ reaper'.tid = reaper.tid /\ (worker[reaper.tid].bound => reaper'.failed)
        /\ attached' \subseteq attached
        /\ reaper.tid \in attached' => worker[reaper.tid].bound
    BY <1>0, <1>5, ReaperMoves DEF Detach, managerVars
  <2> QED BY <2>1 DEF DetachRefused
<1>6. CASE Release
  <2>1. /\ UNCHANGED <<active, worker, attached, error>> /\ reaper.pc = "release"
        /\ reaper'.tid = reaper.tid
    BY <1>0, <1>6, ReaperMoves DEF Release, managerVars
  <2>2. reaper \in Reaper
    BY <1>0 DEF TypeOK
  <2>3. reaper.failed => reaper'.failed
    BY <1>6, <2>2 DEF Release, Reaper
  <2> QED BY <2>1, <2>3 DEF DetachRefused
<1>7. CASE Record
  <2>1. /\ Members(active') = Members(active) \ {reaper.tid}
        /\ UNCHANGED <<worker, attached>> /\ reaper.pc = "record"
        /\ reaper'.pc = "scan" /\ error' = IF reaper.failed THEN 1 ELSE error
    BY <1>0, <1>7, RecordedActive DEF Record
  <2> QED BY <2>1 DEF DetachRefused
<1> QED BY <1>1, <1>2, <1>3, <1>4, <1>5, <1>6, <1>7
      DEF Next, ReaperStep, MapStack, StartFails, GuestJoin, Destroy, Delete, managerVars, vars

\* The signal registry never points into a deleted record, unless a run broke its
\* contract to unbind; then the manager has recorded the error.
THEOREM RegistryOwned == Spec => []DescriptorOwned
<1>1. Init => DetachRefused
  BY DEF Init, DetachRefused
<1>2. IInv /\ DetachRefused /\ [Next]_vars => DetachRefused'
  BY DetachRefusedStep
<1>3. DetachRefused => DescriptorOwned
  BY DEF DetachRefused, DescriptorOwned
<1> QED BY <1>1, <1>2, <1>3, Inductive, PTL DEF Spec

\* Whatever fails and in whatever order the workers, the reaper, the guest and the
\* owner act, nothing is released, reused or deleted while someone may use it.
THEOREM NothingReleasedEarly == Spec => []Lifetimes
<1>1. StackHeld /\ SignalsBeforeJoin /\ FailedJoinRetained /\ DeletedUnused
        /\ DescriptorOwned => Lifetimes
  BY DEF Lifetimes
<1> QED BY <1>1, NoLiveStackReleased, DetachedBeforeJoined, UnknownLifetimeRetained,
           DeletedLast, RegistryOwned, PTL
=============================================================================
