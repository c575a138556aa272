------------------------------ MODULE Threads ------------------------------
(***************************************************************************)
(* The guest thread manager of core/src/threads.cpp: native workers that   *)
(* run on guest-mapped stacks, and the reaper thread that joins them,      *)
(* detaches their signal state and only then tells the guest (by clearing  *)
(* the TID word, or by unmapping a detached stack) that the stack is free. *)
(*                                                                         *)
(* `lock' makes each of Start, WorkerDone, Scan, Record and Destroy one    *)
(* step; the reaper holds no lock between Scan and Record, and each of the *)
(* calls it makes there is a step of its own.                              *)
(***************************************************************************)
EXTENDS Integers, Sequences, FiniteSets, Vectors

CONSTANTS
  Stacks,             \* guest stack mappings, each with its thread's TID word
  FirstTid, LastTid,  \* first_tid, and INT32_MAX
  Limit,              \* the most workers that are active at once
  Faults              \* what may go wrong in this instance

FaultKinds == {"start",  \* a start fails after it has taken its TID
               "exit",   \* a worker's run ends with an error
               "bound",  \* a run returns with its interrupt binding in place
               "clear",  \* a detached exit leaves the clear-TID address set
               "join",   \* the native join fails
               "vm"}     \* the VM is poisoned

ASSUME ThreadsAssumption ==
  /\ FirstTid \in Nat \ {0} /\ LastTid \in Nat /\ FirstTid <= LastTid
  /\ Limit \in Nat \ {0}
  /\ Faults \subseteq FaultKinds

Tids == FirstTid..LastTid

VARIABLES
  active,    \* the active workers, by TID, in the order they started
  worker,    \* every worker there ever was, by TID
  next_tid,
  reaped,
  life,      \* "live", "stopping", "deleted"
  error,     \* the first error, 0 if none
  reaper,    \* the reaper thread: where it is, its worker, its local `error'
  attached,  \* the TIDs the signal registry knows
  stack,     \* what the guest does with each stack
  word       \* the TID word in each stack's mapping

vars == <<active, worker, next_tid, reaped, life, error, reaper, attached, stack, word>>
managerVars == <<active, next_tid, reaped, life, error>>
guestVars == <<stack, word>>

\* phase: "running" guest code, "done" but still on its native stack, "ended".
Worker == [stack : Stacks, phase : {"running", "done", "ended"},
           clear : BOOLEAN, unmap : BOOLEAN, failed : BOOLEAN, bound : BOOLEAN]
Reaper == [pc : {"scan", "join", "detach", "release", "record", "exited"},
           tid : Tids \cup {0}, failed : BOOLEAN]

Init ==
  /\ active = <<>> /\ worker = <<>> /\ next_tid = FirstTid /\ reaped = 0
  /\ life = "live" /\ error = 0
  /\ reaper = [pc |-> "scan", tid |-> 0, failed |-> FALSE]
  /\ attached = {}
  /\ stack = [s \in Stacks |-> "free"] /\ word = [s \in Stacks |-> 0]

----------------------------------------------------------------------------
(* Starting a worker.                                                      *)

\* The guest maps a stack for a thread it is going to start.
MapStack(s) ==
  /\ stack[s] = "free"
  /\ stack' = [stack EXCEPT ![s] = "mapped"] /\ word' = [word EXCEPT ![s] = 0]
  /\ UNCHANGED <<managerVars, worker, reaper, attached>>

Admitted == /\ life = "live" /\ error = 0
            /\ Len(active) < Limit /\ next_tid <= LastTid

NewWorker(s) == [stack |-> s, phase |-> "running", clear |-> TRUE, unmap |-> FALSE,
                 failed |-> FALSE, bound |-> FALSE]

\* artbox_threads_start: the TID is stored in the word before the worker, which
\* waits for `lock', executes anything.
Start(s) ==
  /\ stack[s] = "mapped" /\ Admitted
  /\ next_tid' = next_tid + 1
  /\ worker' = [t \in DOMAIN worker \cup {next_tid} |->
                  IF t = next_tid THEN NewWorker(s) ELSE worker[t]]
  /\ active' = Append(active, next_tid)
  /\ attached' = attached \cup {next_tid}
  /\ stack' = [stack EXCEPT ![s] = "thread"]
  /\ word' = [word EXCEPT ![s] = next_tid]
  /\ UNCHANGED <<reaped, life, error, reaper>>

\* Initialisation, signal inheritance or the native start failed: the TID is
\* lost, nothing else remains.
StartFails(s) ==
  /\ "start" \in Faults /\ stack[s] = "mapped" /\ Admitted
  /\ next_tid' = next_tid + 1
  /\ UNCHANGED <<active, worker, reaped, life, error, reaper, attached, guestVars>>

----------------------------------------------------------------------------
(* The end of a worker.                                                    *)

\* How a run may end: what is left of clear_tid_address and `finish', and of the
\* interrupt binding.  A thread is joinable, or detached with a stack to unmap, or
\* detached on a stack of its own.
Exits ==
  {x \in [clear : BOOLEAN, unmap : BOOLEAN, failed : BOOLEAN, bound : BOOLEAN] :
     /\ x.clear /\ x.unmap => "clear" \in Faults
     /\ x.failed => "exit" \in Faults
     /\ x.bound => "bound" \in Faults}

\* worker_entry after `run' has returned; the native thread is still there.
WorkerDone(t) ==
  /\ t \in DOMAIN worker /\ worker[t].phase = "running"
  /\ \E x \in Exits :
       worker' = [worker EXCEPT ![t] =
         [stack |-> worker[t].stack, phase |-> "done", clear |-> x.clear,
          unmap |-> x.unmap, failed |-> x.failed, bound |-> x.bound]]
  /\ UNCHANGED <<managerVars, reaper, attached, guestVars>>

\* The native thread leaves its stack for good.
NativeEnd(t) ==
  /\ t \in DOMAIN worker /\ worker[t].phase = "done"
  /\ worker' = [worker EXCEPT ![t].phase = "ended"]
  /\ UNCHANGED <<managerVars, reaper, attached, guestVars>>

----------------------------------------------------------------------------
(* The reaper.                                                             *)

DoneAt == {i \in DOMAIN active : worker[active[i]].phase # "running"}

\* A faulty scan: takes the last worker whether it is done or not.
ScanAny ==
  /\ reaper.pc = "scan" /\ life # "deleted"
  /\ \/ /\ active # <<>>
        /\ reaper' = [pc |-> "join", tid |-> active[Len(active)], failed |-> FALSE]
     \/ /\ active = <<>> /\ life = "stopping"
        /\ reaper' = [pc |-> "exited", tid |-> 0, failed |-> FALSE]
  /\ UNCHANGED <<managerVars, worker, attached, guestVars>>

\* The top of the loop: the first worker that is done, else stop or wait.
Scan ==
  /\ reaper.pc = "scan" /\ life # "deleted"
  /\ \/ \E i \in DoneAt :
          /\ \A j \in DoneAt : i <= j
          /\ reaper' = [pc |-> "join", tid |-> active[i], failed |-> FALSE]
     \/ /\ DoneAt = {} /\ life = "stopping"
        /\ reaper' = [pc |-> "exited", tid |-> 0, failed |-> FALSE]
  /\ UNCHANGED <<managerVars, worker, attached, guestVars>>

\* A faulty join: trusts `done'.
JoinDone ==
  /\ reaper.pc = "join"
  /\ reaper' = [reaper EXCEPT !.pc = "detach", !.failed = worker[reaper.tid].failed]
  /\ UNCHANGED <<managerVars, worker, attached, guestVars>>

\* native.join returns once the native thread has really ended.
Join ==
  /\ reaper.pc = "join" /\ worker[reaper.tid].phase = "ended"
  /\ reaper' = [reaper EXCEPT !.pc = "detach", !.failed = worker[reaper.tid].failed]
  /\ UNCHANGED <<managerVars, worker, attached, guestVars>>

\* The join fails: record and mapping are retained and the reaper ends.
JoinFails ==
  /\ "join" \in Faults /\ reaper.pc = "join"
  /\ error' = 1 /\ reaper' = [reaper EXCEPT !.pc = "exited"]
  /\ UNCHANGED <<active, next_tid, reaped, life, worker, attached, guestVars>>

\* artbox_signals_detach refuses (EBUSY) a thread that is still bound.
Detach ==
  /\ reaper.pc = "detach"
  /\ attached' = IF worker[reaper.tid].bound THEN attached ELSE attached \ {reaper.tid}
  /\ reaper' = [reaper EXCEPT !.pc = "release",
                              !.failed = @ \/ worker[reaper.tid].bound]
  /\ UNCHANGED <<managerVars, worker, guestVars>>

\* The guest is told, unless there was an error: a detached stack is unmapped,
\* which must have disabled its clear-TID address; else the TID word is cleared,
\* if it is still accessible.
Release ==
  LET w == worker[reaper.tid]
      told == ~reaper.failed /\ ~(w.unmap /\ w.clear)
  IN /\ reaper.pc = "release"
     /\ \/ /\ told /\ w.unmap
           /\ stack' = [stack EXCEPT ![w.stack] = "free"] /\ UNCHANGED word
           /\ reaper' = [reaper EXCEPT !.pc = "record"]
        \/ /\ told /\ ~w.unmap
           /\ word' = IF w.clear /\ stack[w.stack] # "free"
                      THEN [word EXCEPT ![w.stack] = 0] ELSE word
           /\ UNCHANGED stack
           /\ reaper' = [reaper EXCEPT !.pc = "record"]
        \/ /\ ~told \/ ("vm" \in Faults /\ (w.unmap \/ w.clear))
           /\ reaper' = [reaper EXCEPT !.pc = "record", !.failed = TRUE]
           /\ UNCHANGED guestVars
     /\ UNCHANGED <<managerVars, worker, attached>>

\* A faulty record: a worker that ended in an error is not counted.
RecordUncounted ==
  /\ reaper.pc = "record"
  /\ error' = IF reaper.failed THEN 1 ELSE error
  /\ active' = Erase(active, IndexIn(active, reaper.tid))
  /\ reaped' = IF reaper.failed THEN reaped ELSE reaped + 1
  /\ reaper' = [pc |-> "scan", tid |-> 0, failed |-> FALSE]
  /\ UNCHANGED <<next_tid, life, worker, attached, guestVars>>

\* Back under `lock': the first error is kept, the record is deleted.
Record ==
  /\ reaper.pc = "record"
  /\ error' = IF reaper.failed THEN 1 ELSE error
  /\ active' = Erase(active, IndexIn(active, reaper.tid))
  /\ reaped' = reaped + 1
  /\ reaper' = [pc |-> "scan", tid |-> 0, failed |-> FALSE]
  /\ UNCHANGED <<next_tid, life, worker, attached, guestVars>>

----------------------------------------------------------------------------
(* The guest's join and the owner's shutdown.                              *)

\* pthread_join has seen the word cleared: the guest unmaps the stack.
GuestJoin(s) ==
  /\ stack[s] = "thread" /\ word[s] = 0
  /\ stack' = [stack EXCEPT ![s] = "free"]
  /\ UNCHANGED <<managerVars, worker, reaper, attached, word>>

\* artbox_threads_destroy: EBUSY while workers are active, else stop the reaper,
Destroy ==
  /\ life = "live" /\ active = <<>>
  /\ life' = "stopping"
  /\ UNCHANGED <<active, next_tid, reaped, error, worker, reaper, attached, guestVars>>

\* wait for it to end, and delete the manager.
Delete ==
  /\ life = "stopping" /\ reaper.pc = "exited"
  /\ life' = "deleted"
  /\ UNCHANGED <<active, next_tid, reaped, error, worker, reaper, attached, guestVars>>

ReaperStep == Scan \/ Join \/ JoinFails \/ Detach \/ Release \/ Record

Next ==
  \/ \E s \in Stacks : MapStack(s) \/ Start(s) \/ StartFails(s) \/ GuestJoin(s)
  \/ \E t \in Tids : WorkerDone(t) \/ NativeEnd(t)
  \/ ReaperStep
  \/ Destroy \/ Delete

Spec == Init /\ [][Next]_vars

\* The reaper is a running thread; native threads that are done end; the owner
\* that began to destroy the manager goes on.  Nothing is assumed of the guest.
Fairness ==
  /\ WF_vars(Scan \/ Join \/ Detach \/ Release \/ Record)
  /\ \A t \in Tids : WF_vars(NativeEnd(t))
  /\ WF_vars(Delete)
FairSpec == Spec /\ Fairness

----------------------------------------------------------------------------
(* Properties.                                                             *)

\* Every variable has its type; reaped workers and active ones are all there
\* ever were, and the admission limit holds.
TypeOK ==
  /\ active \in Seq(Tids) /\ Len(active) <= Limit
  /\ DOMAIN worker \subseteq FirstTid..(next_tid - 1)
  /\ worker \in [DOMAIN worker -> Worker]
  /\ next_tid \in FirstTid..(LastTid + 1) /\ reaped \in Nat
  /\ life \in {"live", "stopping", "deleted"} /\ error \in {0, 1}
  /\ reaper \in Reaper /\ attached \subseteq DOMAIN worker
  /\ stack \in [Stacks -> {"free", "mapped", "thread"}]
  /\ word \in [Stacks -> Tids \cup {0}]

\* The reaper's accounting: each worker is active once or was reaped once, and
\* no more are active than the table was reserved for.
Accounted ==
  /\ Len(active) <= Limit
  /\ IsDistinct(active)
  /\ Members(active) \subseteq DOMAIN worker
  /\ reaped + Len(active) = Cardinality(DOMAIN worker)

\* A native thread that has not ended still runs on its stack ("never clear a
\* TID or release a potentially live native stack"): the stack is mapped, holds
\* this thread's TID word, and no other native thread runs on it.
StackHeld ==
  \A t \in DOMAIN worker : worker[t].phase # "ended" =>
    /\ stack[worker[t].stack] = "thread" /\ word[worker[t].stack] = t
    /\ \A u \in DOMAIN worker \ {t} :
         worker[u].phase # "ended" => worker[u].stack # worker[t].stack

\* "Remove the TID from signal lookup before waking pthread_join's guest
\* clear-TID waiter": as long as the signal registry knows a TID, the guest sees
\* its thread as running, so that no signal is aimed at a thread that was joined.
SignalsBeforeJoin ==
  \A t \in attached : stack[worker[t].stack] = "thread" /\ word[worker[t].stack] = t

\* "Its lifetime is now unknown. Retain both record and mapping": after a failed
\* join the worker stays active and attached, its stack stays mapped and its TID
\* word set, and the manager can neither start another nor be destroyed.
FailedJoinRetained ==
  reaper.pc = "exited" /\ life = "live" =>
    /\ reaper.tid \in Members(active) \cap attached /\ error # 0
    /\ stack[worker[reaper.tid].stack] = "thread"
    /\ word[worker[reaper.tid].stack] = reaper.tid

\* A deleted manager is referred to by no one: every native worker, whose entry
\* function uses the manager until it returns, has ended.
DeletedUnused ==
  life = "deleted" => /\ \A t \in DOMAIN worker : worker[t].phase = "ended"
                      /\ reaper.pc = "exited" /\ active = <<>>

\* "Caller owns each kernel descriptor until detach" (signals.h): the descriptor
\* is part of the record that Record deletes, so the signal registry knows active
\* workers only.  A run that returned without unbinding, against its contract,
\* is the one exception: its error is on record and no worker starts after it.
DescriptorOwned ==
  \A t \in attached \ Members(active) : worker[t].bound /\ error # 0

\* What a thread, the signal registry or the guest may still use outlives that
\* use, whatever order exits, joins, failures and destruction come in.
Lifetimes ==
  /\ StackHeld /\ SignalsBeforeJoin /\ FailedJoinRetained
  /\ DeletedUnused /\ DescriptorOwned

\* A worker that is done is reaped, unless a native join failed, after which the
\* reaper exits and retains what is left.
DoneReaped ==
  \A t \in Tids :
    t \in DOMAIN worker /\ worker[t].phase = "done" ~>
      t \notin Members(active) \/ reaper.pc = "exited"

\* A guest waiting to join a worker that ends well sees its TID word cleared, unless
\* the manager has recorded an error.
JoinerFreed ==
  \A t \in Tids :
    /\ t \in DOMAIN worker /\ worker[t].phase = "done"
    /\ worker[t].clear /\ ~worker[t].unmap /\ ~worker[t].failed /\ ~worker[t].bound
    ~> (t \in DOMAIN worker => word[worker[t].stack] # t) \/ error # 0

\* A manager that is being destroyed is destroyed.
DestroyEnds == life = "stopping" ~> life = "deleted"

\* Whatever ends is cleaned up: the reaper neither starves a worker, nor leaves a
\* guest in its join, nor keeps the owner of the manager waiting.
Finishes == DoneReaped /\ JoinerFreed /\ DestroyEnds
=============================================================================
