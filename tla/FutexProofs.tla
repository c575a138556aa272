---------------------------- MODULE FutexProofs ----------------------------
(* Machine-checked proofs about Futex, for every value of its constants.   *)
EXTENDS Futex, FiniteSetTheorems, SequenceTheorems, TLAPS

-----------------------------------------------------------------------------
(* Facts about the operations of Vectors.                                    *)

\* Erasing an entry leaves a sequence that is one shorter.
LEMMA EraseType ==
  ASSUME NEW S, NEW s \in Seq(S), NEW i \in DOMAIN s
  PROVE /\ Erase(s, i) \in Seq(S)
        /\ Len(Erase(s, i)) = Len(s) - 1
        /\ DOMAIN Erase(s, i) = 1..(Len(s) - 1)
  BY DEF Erase

\* The position found for a member is one where it is.
LEMMA IndexFound ==
  ASSUME NEW s, NEW x \in Members(s)
  PROVE IndexIn(s, x) \in DOMAIN s /\ s[IndexIn(s, x)] = x
  BY DEF Members, IndexIn

\* Erasing position i of a sequence of distinct values removes exactly the
\* value at i.
LEMMA EraseContents ==
  ASSUME NEW S, NEW s \in Seq(S), NEW i \in DOMAIN s, IsDistinct(s)
  PROVE /\ IsDistinct(Erase(s, i))
        /\ Members(Erase(s, i)) = Members(s) \ {s[i]}
<1> DEFINE e == Erase(s, i)
<1>1. DOMAIN e = 1..(Len(s) - 1) /\ DOMAIN s = 1..Len(s) /\ Len(s) \in Nat
  BY EraseType
<1>2. \A j \in DOMAIN e : e[j] = IF j < i THEN s[j] ELSE s[j + 1]
  BY <1>1 DEF Erase
<1>3. IsDistinct(e)
  BY <1>1, <1>2 DEF IsDistinct
<1>4. \A j \in DOMAIN e : e[j] \in Members(s) \ {s[i]}
  BY <1>1, <1>2 DEF IsDistinct, Members
<1>5. ASSUME NEW k \in DOMAIN s, k # i PROVE \E j \in DOMAIN e : e[j] = s[k]
  <2>1. CASE k < i
    BY <2>1, <1>1, <1>2
  <2>2. CASE k > i
    <3>1. k - 1 \in DOMAIN e /\ ~(k - 1 < i)
      BY <2>2, <1>1
    <3>2. e[k - 1] = s[(k - 1) + 1]
      BY <3>1, <1>2
    <3> QED BY <3>1, <3>2, <1>1
  <2> QED BY <2>1, <2>2, <1>5, <1>1
<1>6. Members(e) = Members(s) \ {s[i]}
  BY <1>4, <1>5 DEF Members
<1> QED BY <1>3, <1>6


-----------------------------------------------------------------------------
(* What the helpers return.                                                  *)

\* The helpers return members of their types.
LEMMA MaskType == ASSUME NEW r \in Request PROVE MaskOf(r) \in SUBSET Bits
  BY DEF MaskOf, Request

LEMMA ErrorTypes ==
  ASSUME NEW r \in Request
  PROVE /\ CallError(r) \in Errors /\ RequeueError(r) \in Errors
        /\ TimeoutErrors(r) \in SUBSET Errors
        /\ RefusedError(r) \in Errors
        /\ EnqueueError(r) \in Errors
  BY DEF CallError, RequeueError, TimeoutErrors, RefusedError, EnqueueError,
         AddressError, Errors

\* An address that passes the checks is a word of the guest.
LEMMA CheckedAddress ==
  ASSUME NEW r \in Request
  PROVE /\ CallError(r) = "OK" => r.address \in Addresses
        /\ RequeueError(r) = "OK" => r.address \in Addresses /\ r.address2 \in Addresses
  BY FutexAssumption DEF CallError, RequeueError, AddressError, Request

LEMMA DeadlineType ==
  ASSUME NEW r \in Request, NEW now \in 0..ClockLimit
  PROVE Deadline(r, now) \in Timeouts
  BY FutexAssumption DEF Deadline, Request, Timeouts, Times

LEMMA LoopExitType ==
  ASSUME NEW t, NEW woken \in BOOLEAN
  PROVE LoopExit(t, woken) \in SUBSET (Errors \cup {"sleep"})
  BY DEF LoopExit, Errors

\* The position found for a queued thread is one where it is.
LEMMA PositionFound ==
  ASSUME NEW t \in Queued
  PROVE PositionOf(t) \in DOMAIN active /\ active[PositionOf(t)] = t
  BY IndexFound DEF Queued, Members, PositionOf

\* What a WAKE chooses: waiters of the queue that are not woken yet.
LEMMA ChosenAreAsleep ==
  ASSUME TypeOK, NEW a, NEW p, NEW m, NEW n
  PROVE /\ Chosen(a, p, m, n) \subseteq {t \in Queued : ~waiter[t].woken}
        /\ Chosen(a, p, m, n) \subseteq Threads
        /\ IsFiniteSet(Chosen(a, p, m, n))
<1>1. Chosen(a, p, m, n) \subseteq {t \in Queued : ~waiter[t].woken}
  BY DEF Chosen, Oldest, Matching
<1>2. Queued \subseteq Threads
  BY DEF TypeOK, Queued, Members
<1> QED BY <1>1, <1>2, FutexAssumption, FS_Subset

LEMMA MovableAreAsleep ==
  ASSUME TypeOK, NEW a, NEW n, NEW M \in SUBSET Movable(a)
  PROVE /\ Oldest(M, n) \subseteq {t \in Queued : ~waiter[t].woken}
        /\ Oldest(M, n) \subseteq Threads
        /\ IsFiniteSet(Oldest(M, n))
<1>1. Oldest(M, n) \subseteq {t \in Queued : ~waiter[t].woken}
  BY DEF Oldest, Movable
<1>2. Queued \subseteq Threads
  BY DEF TypeOK, Queued, Members
<1> QED BY <1>1, <1>2, FutexAssumption, FS_Subset

LEMMA NoValues == NoWaiter \in Waiter /\ NoFrame \in Frame
  BY FutexAssumption DEF NoWaiter, NoFrame, Waiter, Frame, Timeouts, NoTimeout

----------------------------------------------------------------------------
(* Type correctness.                                                       *)

LEMMA InitTypeOK == Init => TypeOK
  BY NoValues, FutexAssumption DEF Init, TypeOK, Errors, NoReturn

LEMMA WakeUpType ==
  ASSUME TypeOK, NEW S \in SUBSET Threads, IsFiniteSet(S), WakeUp(S)
  PROVE waiter' \in [Threads -> Waiter] /\ credit' \in Int
<1>1. Cardinality(S) \in Nat
  BY FS_CardinalityType
<1>2. \A t \in Threads : WokenUp(waiter[t]) \in Waiter
  BY DEF TypeOK, WokenUp, Waiter
<1> QED BY <1>1, <1>2 DEF TypeOK, WakeUp

\* Every step preserves the types of the variables.
LEMMA NextTypeOK == TypeOK /\ QueueExact /\ [Next]_vars => TypeOK'
<1> SUFFICES ASSUME TypeOK, QueueExact, [Next]_vars PROVE TypeOK'
  OBVIOUS
<1> USE DEF TypeOK
<1>1. ASSUME NEW t \in Threads, NEW r \in Requests, WaitEnter(t, r) PROVE TypeOK'
  <2>1. r \in Request /\ clock["monotonic"] \in 0..ClockLimit
    BY FutexAssumption
  <2>2. ret' \in Errors \cup {NoReturn}
    BY <1>1, <2>1, ErrorTypes DEF WaitEnter
  <2>3. frame' \in [Threads -> Frame]
    <3>1. Deadline(r, clock["monotonic"]) \in Timeouts
      BY <2>1, DeadlineType
    <3>2. [at |-> "entered", request |-> r, interrupted |-> FALSE,
           deadline |-> Deadline(r, clock["monotonic"]),
           began |-> clock["monotonic"]] \in Frame
      BY <2>1, <3>1 DEF Frame
    <3> QED BY <1>1, <3>2 DEF WaitEnter
  <2> QED BY <1>1, <2>2, <2>3 DEF WaitEnter, guestVars
<1>2. ASSUME NEW t \in Threads, NEW r \in Requests, Refused(t, r) PROVE TypeOK'
  BY <1>2, ErrorTypes, FutexAssumption DEF Refused, guestVars
<1>3. ASSUME NEW t \in Threads, NEW r \in Requests, Wake(t, r) PROVE TypeOK'
  <2>1. r \in Request
    BY FutexAssumption
  <2>2. r.address \in Addresses
    BY <1>3, <2>1, CheckedAddress DEF Wake, RefusedError, WakeCommands
  <2>3. waiter' \in [Threads -> Waiter] /\ credit' \in Int
    BY <1>3, ChosenAreAsleep, WakeUpType DEF Wake
  <2> QED BY <1>3, <2>2, <2>3 DEF Wake, guestVars, Errors
<1>4. ASSUME NEW t \in Threads, NEW r \in Requests, Requeue(t, r) PROVE TypeOK'
  <2> DEFINE S == Oldest(Movable(r.address), r.value)
             V == Oldest(Movable(r.address) \ S, r.moves)
  <2>1. r \in Request
    BY FutexAssumption
  <2>2. r.address2 \in Addresses
    BY <1>4, <2>1, CheckedAddress DEF Requeue, RefusedError
  <2>3. Cardinality(S) \in Nat
    BY MovableAreAsleep, FS_CardinalityType
  <2>4. \A u \in Threads : /\ WokenUp(waiter[u]) \in Waiter
                           /\ [waiter[u] EXCEPT !.address = r.address2] \in Waiter
    BY <2>2 DEF WokenUp, Waiter
  <2>5. waiter' \in [Threads -> Waiter]
    BY <1>4, <2>4 DEF Requeue
  <2>6. credit' \in Int
    BY <1>4, <2>3 DEF Requeue
  <2> QED BY <1>4, <2>5, <2>6 DEF Requeue, guestVars, Errors
<1>5. ASSUME NEW t \in Threads, WaitEnqueue(t) PROVE TypeOK'
  <2> DEFINE r == frame[t].request
  <2>1. r \in Request
    BY DEF Frame
  <2>2. PICK exit \in IF EnqueueError(r) = "OK" THEN LoopExit(t, FALSE) ELSE {EnqueueError(r)} :
          IF exit = "sleep"
          THEN /\ active' = Append(active, t)
               /\ waiter' = [waiter EXCEPT ![t] =
                    [address |-> r.address, mask |-> MaskOf(r),
                     private |-> r.private, woken |-> FALSE, notified |-> FALSE]]
               /\ frame' = [frame EXCEPT ![t].at = "waiting"]
               /\ ret' = NoReturn
          ELSE /\ frame' = [frame EXCEPT ![t] = NoFrame]
               /\ ret' = exit
               /\ UNCHANGED <<active, waiter>>
    BY <1>5 DEF WaitEnqueue
  <2>3. exit \in Errors \cup {"sleep"}
    BY <2>1, <2>2, ErrorTypes, LoopExitType
  <2>4. CASE exit = "sleep"
    <3>1. r.address \in Addresses
      BY <2>1, <2>2, <2>4, ErrorTypes DEF EnqueueError, Errors
    <3>2. [address |-> r.address, mask |-> MaskOf(r), private |-> r.private,
           woken |-> FALSE, notified |-> FALSE] \in Waiter
      BY <3>1, <2>1, MaskType DEF Waiter, Request
    <3>3. [frame[t] EXCEPT !.at = "waiting"] \in Frame
      BY DEF Frame
    <3>4. active' \in Seq(Threads)
      <4>1. active' = Append(active, t)
        BY <2>2, <2>4
      <4> QED BY <4>1
    <3>5. waiter' \in [Threads -> Waiter]
      BY <2>2, <2>4, <3>2
    <3>6. frame' \in [Threads -> Frame]
      BY <2>2, <2>4, <3>3
    <3> QED BY <1>5, <2>2, <2>4, <3>4, <3>5, <3>6 DEF WaitEnqueue, guestVars
  <2>5. CASE exit # "sleep"
    BY <1>5, <2>2, <2>3, <2>5, NoValues DEF WaitEnqueue, guestVars
  <2> QED BY <2>4, <2>5
<1>6. ASSUME NEW t \in Threads, Recheck(t) PROVE TypeOK'
  <2>1. t \in Queued
    BY <1>6 DEF Recheck, QueueExact, IsDistinct
  <2>2. LeaveQueue(t) \in Seq(Threads)
    BY <2>1, PositionFound, EraseType DEF LeaveQueue
  <2>3. waiter[t].woken \in BOOLEAN
    BY DEF Waiter
  <2>4. active' \in Seq(Threads)
    BY <1>6, <2>2 DEF Recheck
  <2>5. waiter' \in [Threads -> Waiter]
    <3>1. [waiter[t] EXCEPT !.notified = FALSE] \in Waiter
      BY DEF Waiter
    <3> QED BY <1>6, <3>1, NoValues DEF Recheck
  <2>6. ret' \in Errors \cup {NoReturn} /\ credit' \in Int /\ frame' \in [Threads -> Frame]
    BY <1>6, <2>3, LoopExitType, NoValues DEF Recheck
  <2> QED BY <1>6, <2>4, <2>5, <2>6 DEF Recheck, guestVars
<1>7. ASSUME NEW a \in Addresses, ClearTid(a) PROVE TypeOK'
  <2>1. waiter' \in [Threads -> Waiter] /\ credit' \in Int
    BY <1>7, ChosenAreAsleep, WakeUpType DEF ClearTid
  <2>2. word' \in [Addresses -> Values] /\ quiet' \in SUBSET Addresses
    <3>1. 0 \in Values /\ word \in [Addresses -> Values] /\ quiet \in SUBSET Addresses
      BY FutexAssumption DEF TypeOK
    <3>2. \/ word' = [word EXCEPT ![a] = 0] /\ quiet' = quiet \ {a}
          \/ word' = word /\ quiet' = quiet
      BY <1>7 DEF ClearTid
    <3> HIDE DEF TypeOK
    <3> QED BY <3>1, <3>2
  <2>3. ret' \in Errors
    BY <1>7 DEF ClearTid, Errors
  <2> QED BY <1>7, <2>1, <2>2, <2>3 DEF ClearTid
<1>8. CASE Destroy
  BY <1>8 DEF Destroy, guestVars, Errors
<1>9. CASE Environment
  <2>1. ASSUME NEW a \in Addresses, NEW v \in Values, Store(a, v) PROVE TypeOK'
    BY <2>1 DEF Store
  <2>2. ASSUME NEW a \in Addresses, Remap(a) PROVE TypeOK'
    BY <2>2, FutexAssumption DEF Remap
  <2>3. ASSUME NEW t \in Threads, Interrupt(t) PROVE TypeOK'
    <3>1. [frame[t] EXCEPT !.interrupted = TRUE] \in Frame
      BY DEF Frame
    <3>2. frame' \in [Threads -> Frame]
      BY <2>3, <3>1 DEF Interrupt
    <3> QED BY <2>3, <3>2 DEF Interrupt, guestVars
  <2>4. CASE Tick
    BY <2>4, FutexAssumption DEF Tick, guestVars
  <2>5. ASSUME NEW v \in 0..ClockLimit, SetRealtime(v) PROVE TypeOK'
    BY <2>5 DEF SetRealtime, guestVars
  <2> QED BY <1>9, <2>1, <2>2, <2>3, <2>4, <2>5 DEF Environment
<1>10. CASE UNCHANGED vars
  BY <1>10 DEF vars, guestVars
<1> QED BY <1>1, <1>2, <1>3, <1>4, <1>5, <1>6, <1>7, <1>8, <1>9, <1>10 DEF Next, Call

----------------------------------------------------------------------------
(* The queue holds exactly the threads that wait.                          *)

\* A step that changes neither the queue nor where the threads are.
LEMMA QueueUntouched ==
  ASSUME QueueExact, active' = active, alive' = alive,
         \A t \in Threads : frame'[t].at = frame[t].at
  PROVE QueueExact'
  BY DEF QueueExact, IsDistinct, Queued, Members, At

LEMMA NextQueueExact == TypeOK /\ QueueExact /\ [Next]_vars => QueueExact'
<1> SUFFICES ASSUME TypeOK, QueueExact, [Next]_vars PROVE QueueExact'
  OBVIOUS
<1>1. ASSUME NEW t \in Threads, NEW r \in Requests, WaitEnter(t, r) PROVE QueueExact'
  <2>1. Queued' = Queued /\ active' = active /\ alive' = alive
    BY <1>1 DEF WaitEnter, Queued, Members
  <2>2. \A u \in Threads : At(u, "waiting")' <=> At(u, "waiting")
    BY <1>1 DEF WaitEnter, At, TypeOK
  <2>3. alive
    BY <1>1 DEF WaitEnter
  <2> QED BY <2>1, <2>2, <2>3 DEF QueueExact, IsDistinct
<1>2. ASSUME NEW t \in Threads, NEW r \in Requests,
             Refused(t, r) \/ Wake(t, r) \/ Requeue(t, r) PROVE QueueExact'
  BY <1>2, QueueUntouched DEF Refused, Wake, Requeue
<1>3. ASSUME NEW t \in Threads, WaitEnqueue(t) PROVE QueueExact'
  <2>1. CASE active' = active
    <3>1. \A u \in Threads : At(u, "waiting")' <=> At(u, "waiting")
      <4>1. active # Append(active, t)
        BY DEF TypeOK
      <4>2. frame' = [frame EXCEPT ![t] = NoFrame]
        BY <1>3, <2>1, <4>1 DEF WaitEnqueue
      <4> QED BY <1>3, <4>2 DEF WaitEnqueue, At, TypeOK, NoFrame
    <3>2. Queued' = Queued /\ alive' /\ alive
      BY <1>3, <2>1 DEF WaitEnqueue, Queued, Members, QueueExact, IsDistinct, At
    <3> QED BY <2>1, <3>1, <3>2 DEF QueueExact, IsDistinct
  <2>2. CASE active' # active
    <3>1. /\ active' = Append(active, t)
          /\ frame' = [frame EXCEPT ![t].at = "waiting"]
          /\ EnqueueError(frame[t].request) = "OK"
      BY <1>3, <2>2, ErrorTypes DEF WaitEnqueue, TypeOK, Frame, Errors
    <3>2. Len(active) # WaiterLimit
      BY <3>1 DEF EnqueueError
    <3>3. Len(active) < WaiterLimit /\ Len(active') = Len(active) + 1
      BY <3>1, <3>2, FutexAssumption DEF QueueExact, IsDistinct, TypeOK
    <3>4. t \notin Queued
      BY <1>3 DEF QueueExact, IsDistinct, WaitEnqueue, At
    <3>5. /\ DOMAIN active = 1..Len(active) /\ DOMAIN active' = 1..(Len(active) + 1)
          /\ \A i \in DOMAIN active : active'[i] = active[i] /\ active[i] # t
          /\ active'[Len(active) + 1] = t
      BY <3>1, <3>4 DEF TypeOK, Queued, Members
    <3>6. \A i, j \in DOMAIN active' : active'[i] = active'[j] => i = j
      BY <3>5 DEF QueueExact, IsDistinct, TypeOK
    <3>7. Queued' = Queued \cup {t}
      BY <3>5 DEF Queued, Members, TypeOK
    <3>8. {u \in Threads : At(u, "waiting")}' = {u \in Threads : At(u, "waiting")} \cup {t}
      BY <3>1 DEF At, TypeOK, Frame
    <3>9. alive' /\ alive
      BY <1>3 DEF WaitEnqueue, QueueExact, IsDistinct, At
    <3> QED BY <3>3, <3>6, <3>7, <3>8, <3>9, FutexAssumption DEF QueueExact, IsDistinct, TypeOK
  <2> QED BY <2>1, <2>2
<1>4. ASSUME NEW t \in Threads, Recheck(t) PROVE QueueExact'
  <2>1. CASE frame' = frame /\ active' = active
    BY <1>4, <2>1, QueueUntouched DEF Recheck
  <2>2. CASE active' = LeaveQueue(t) /\ frame' = [frame EXCEPT ![t] = NoFrame]
    <3> DEFINE i == PositionOf(t)
    <3>1. t \in Queued
      BY <1>4 DEF Recheck, QueueExact, IsDistinct
    <3>2. i \in DOMAIN active /\ active[i] = t /\ active \in Seq(Threads)
      BY <3>1, PositionFound DEF TypeOK
    <3>3. IsDistinct(active') /\ Queued' = Queued \ {t}
      <4>1. IsDistinct(active)
        BY DEF QueueExact
      <4>2. active' = Erase(active, i)
        BY <2>2 DEF LeaveQueue
      <4> HIDE DEF i
      <4> QED BY <3>2, <4>1, <4>2, EraseContents DEF Queued
    <3>4. Len(active') = Len(active) - 1
      BY <2>2, <3>2, EraseType DEF LeaveQueue
    <3>5. {u \in Threads : At(u, "waiting")}' = {u \in Threads : At(u, "waiting")} \ {t}
      BY <2>2 DEF At, TypeOK, NoFrame
    <3>6. alive' /\ alive
      BY <1>4 DEF Recheck, QueueExact, IsDistinct, At
    <3> QED BY <3>2, <3>3, <3>4, <3>5, <3>6, FutexAssumption DEF QueueExact
  <2> QED BY <1>4, <2>1, <2>2 DEF Recheck
<1>5. ASSUME NEW a \in Addresses, ClearTid(a) PROVE QueueExact'
  BY <1>5, QueueUntouched DEF ClearTid
<1>6. CASE Destroy
  <2>1. Queued' = Queued /\ active' = active /\ frame' = frame
    BY <1>6 DEF Destroy, Queued, Members
  <2>2. active = <<>> => \A t \in Threads : ~At(t, "waiting")
    BY DEF QueueExact, IsDistinct, Queued, Members
  <2>3. active = <<>> => \A t \in Threads : At(t, "outside")
    BY <1>6, <2>2 DEF Destroy, At, TypeOK, Frame
  <2> QED BY <1>6, <2>1, <2>3 DEF Destroy, QueueExact, IsDistinct, At
<1>7. ASSUME NEW t \in Threads, Interrupt(t) PROVE QueueExact'
  <2>1. \A u \in Threads : frame'[u].at = frame[u].at
    BY <1>7 DEF Interrupt, TypeOK, Frame
  <2> QED BY <1>7, <2>1, QueueUntouched DEF Interrupt
<1>8. CASE Environment
  BY <1>7, <1>8, QueueUntouched DEF Environment, Store, Remap, Tick, SetRealtime
<1>9. CASE UNCHANGED vars
  BY <1>9, QueueUntouched DEF vars
<1> QED BY <1>1, <1>2, <1>3, <1>4, <1>5, <1>6, <1>8, <1>9 DEF Next, Call

\* In every reachable state, for any number of threads, words and requests, the
\* variables have their types and the queue of futex.cpp holds exactly the live
\* waiters, within its limit and while its domain lives.
THEOREM QueueCorrect == Spec => [](TypeOK /\ QueueExact)
<1>1. Init => TypeOK /\ QueueExact
  BY InitTypeOK, FutexAssumption DEF Init, QueueExact, IsDistinct, Queued, Members, At, NoFrame
<1>2. TypeOK /\ QueueExact /\ [Next]_vars => (TypeOK /\ QueueExact)'
  BY NextTypeOK, NextQueueExact
<1> QED BY <1>1, <1>2, PTL DEF Spec

----------------------------------------------------------------------------
(* No counted wake is lost.                                                *)

LEMMA WokenFinite == ASSUME TypeOK PROVE IsFiniteSet(Woken) /\ Cardinality(Woken) \in Nat
  BY FutexAssumption, FS_Subset, FS_CardinalityType DEF Woken

\* Waking sleeping waiters adds exactly them to the woken ones.
LEMMA WakeAdds ==
  ASSUME TypeOK, QueueExact, WakeAccounting, WokenNotified, TypeOK',
         NEW S \in SUBSET {t \in Queued : ~waiter[t].woken},
         frame' = frame, credit' = credit + Cardinality(S),
         \A t \in S : waiter'[t] = WokenUp(waiter[t]),
         \A t \in Threads \ S : /\ waiter'[t].woken = waiter[t].woken
                                /\ waiter'[t].notified = waiter[t].notified
  PROVE WakeAccounting' /\ WokenNotified'
<1>1. S \subseteq {t \in Threads : At(t, "waiting")} /\ S \cap Woken = {}
  BY DEF QueueExact, IsDistinct, Woken
<1>2. \A t \in S : waiter'[t].woken /\ waiter'[t].notified
  <2> SUFFICES ASSUME NEW t \in S PROVE waiter'[t].woken /\ waiter'[t].notified
    OBVIOUS
  <2>1. waiter[t] \in Waiter /\ waiter'[t] = WokenUp(waiter[t])
    BY <1>1 DEF TypeOK
  <2> QED BY <2>1 DEF WokenUp, Waiter
<1>3. Woken' = Woken \cup S
  BY <1>1, <1>2 DEF Woken, At
<1>4. IsFiniteSet(S) /\ Cardinality(S) \in Nat
  BY <1>1, FutexAssumption, FS_Subset, FS_CardinalityType
<1>5. Cardinality(Woken') = Cardinality(Woken) + Cardinality(S)
  <2>1. Cardinality(Woken \cap S) = 0
    BY <1>1, FS_EmptySet
  <2>2. Cardinality(Woken \cup S)
          = Cardinality(Woken) + Cardinality(S) - Cardinality(Woken \cap S)
    BY <1>4, WokenFinite, FS_Union
  <2> QED BY <1>3, <1>4, <2>1, <2>2, WokenFinite
<1>6. WokenNotified'
  BY <1>2, <1>3 DEF WokenNotified, Woken
<1> QED BY <1>5, <1>6 DEF WakeAccounting

\* A step that touches no woken flag and moves no waiting thread.
LEMMA WakeUntouched ==
  ASSUME WakeAccounting, WokenNotified, credit' = credit,
         Woken' = Woken, \A t \in Woken : waiter'[t].notified = waiter[t].notified
  PROVE WakeAccounting' /\ WokenNotified'
  BY DEF WakeAccounting, WokenNotified

WakeInv == WakeAccounting /\ WokenNotified

LEMMA NextWakeInv ==
  TypeOK /\ TypeOK' /\ QueueExact /\ WakeInv /\ [Next]_vars => WakeInv'
<1> SUFFICES ASSUME TypeOK, TypeOK', QueueExact, WakeAccounting, WokenNotified, [Next]_vars
             PROVE WakeAccounting' /\ WokenNotified'
  BY DEF WakeInv
<1>1. ASSUME NEW t \in Threads, NEW r \in Requests, WaitEnter(t, r)
      PROVE WakeAccounting' /\ WokenNotified'
  <2>1. /\ waiter' = waiter /\ frame[t].at # "waiting" /\ frame'[t].at # "waiting"
        /\ \A u \in Threads \ {t} : frame'[u] = frame[u]
    BY <1>1 DEF WaitEnter, At, TypeOK
  <2>2. Woken' = Woken
    BY <2>1 DEF Woken, At
  <2> QED BY <1>1, <2>2, WakeUntouched DEF WaitEnter
<1>2. ASSUME NEW t \in Threads, NEW r \in Requests, Wake(t, r)
      PROVE WakeAccounting' /\ WokenNotified'
  <2> DEFINE S == Chosen(r.address, r.private, MaskOf(r), r.value)
  <2>1. S \subseteq {u \in Queued : ~waiter[u].woken} /\ S \subseteq Threads
    BY ChosenAreAsleep
  <2>2. WakeUp(S) /\ frame' = frame
    BY <1>2 DEF Wake
  <2> HIDE DEF S
  <2>3. \A u \in Threads : waiter'[u] = IF u \in S THEN WokenUp(waiter[u]) ELSE waiter[u]
    BY <2>2 DEF WakeUp
  <2> QED BY <2>1, <2>2, <2>3, WakeAdds DEF WakeUp
<1>3. ASSUME NEW t \in Threads, NEW r \in Requests, Requeue(t, r)
      PROVE WakeAccounting' /\ WokenNotified'
  <2> DEFINE S == Oldest(Movable(r.address), r.value)
             V == Oldest(Movable(r.address) \ S, r.moves)
  <2>1. S \subseteq {u \in Queued : ~waiter[u].woken} /\ S \subseteq Threads
    BY MovableAreAsleep
  <2>2. /\ waiter' = [u \in Threads |->
             IF u \in S THEN WokenUp(waiter[u])
             ELSE IF u \in V THEN [waiter[u] EXCEPT !.address = r.address2]
             ELSE waiter[u]]
        /\ credit' = credit + Cardinality(S) /\ frame' = frame
    BY <1>3 DEF Requeue
  <2> HIDE DEF S, V
  <2>3. \A u \in S : waiter'[u] = WokenUp(waiter[u])
    BY <2>1, <2>2
  <2>4. ASSUME NEW u \in Threads \ S
        PROVE waiter'[u].woken = waiter[u].woken /\ waiter'[u].notified = waiter[u].notified
    BY <2>2 DEF TypeOK, Waiter
  <2> QED BY <2>1, <2>2, <2>3, <2>4, WakeAdds
<1>4. ASSUME NEW t \in Threads, WaitEnqueue(t) PROVE WakeAccounting' /\ WokenNotified'
  <2>1. Woken' = Woken
    <3>1. \A u \in Threads \ {t} : waiter'[u] = waiter[u] /\ frame'[u] = frame[u]
      BY <1>4 DEF WaitEnqueue, TypeOK
    <3>2. t \notin Woken
      BY <1>4 DEF WaitEnqueue, Woken, At
    <3>3. CASE frame' = [frame EXCEPT ![t] = NoFrame]
      BY <3>1, <3>2, <3>3 DEF Woken, At, TypeOK, NoFrame
    <3>4. CASE ~waiter'[t].woken
      BY <3>1, <3>2, <3>4 DEF Woken, At
    <3>5. frame' = [frame EXCEPT ![t] = NoFrame] \/ ~waiter'[t].woken
      BY <1>4 DEF WaitEnqueue, TypeOK
    <3> QED BY <3>3, <3>4, <3>5
  <2>2. \A u \in Woken : waiter'[u] = waiter[u]
    BY <1>4 DEF WaitEnqueue, Woken, At, TypeOK
  <2> QED BY <1>4, <2>1, <2>2, WakeUntouched DEF WaitEnqueue
<1>5. ASSUME NEW t \in Threads, Recheck(t) PROVE WakeAccounting' /\ WokenNotified'
  <2>1. PICK exit \in LoopExit(t, waiter[t].woken) :
          IF exit = "sleep"
          THEN /\ waiter' = [waiter EXCEPT ![t].notified = FALSE]
               /\ UNCHANGED <<frame, credit>>
          ELSE /\ waiter' = [waiter EXCEPT ![t] = NoWaiter]
               /\ frame' = [frame EXCEPT ![t] = NoFrame]
               /\ credit' = IF exit = "OK" THEN credit - 1 ELSE credit
    BY <1>5 DEF Recheck
  <2>2. exit = "OK" <=> waiter[t].woken
    BY <2>1 DEF LoopExit
  <2>3. t \in Woken <=> exit = "OK"
    BY <1>5, <2>2 DEF Recheck, Woken
  <2>4. CASE exit = "sleep"
    <3>1. \A u \in Threads : waiter'[u].woken = waiter[u].woken
      BY <2>1, <2>4 DEF TypeOK, Waiter
    <3>2. Woken' = Woken
      BY <2>1, <2>4, <3>1 DEF Woken, At
    <3>3. \A u \in Woken : waiter'[u].notified = waiter[u].notified
      BY <2>1, <2>3, <2>4 DEF TypeOK, Woken
    <3> QED BY <2>1, <2>4, <3>2, <3>3, WakeUntouched
  <2>5. CASE exit # "sleep"
    <3>1. Woken' = Woken \ {t}
      BY <2>1, <2>5 DEF Woken, At, TypeOK, NoFrame
    <3>2. \A u \in Woken' : waiter'[u] = waiter[u]
      BY <2>1, <2>5, <3>1 DEF TypeOK, Woken
    <3>3. Cardinality(Woken') = IF exit = "OK" THEN Cardinality(Woken) - 1 ELSE Cardinality(Woken)
      BY <2>3, <3>1, WokenFinite, FS_RemoveElement
    <3> QED BY <2>1, <2>5, <3>1, <3>2, <3>3 DEF WakeAccounting, WokenNotified
  <2> QED BY <2>4, <2>5
<1>6. ASSUME NEW a \in Addresses, ClearTid(a) PROVE WakeAccounting' /\ WokenNotified'
  <2> DEFINE S == Chosen(a, FALSE, Bits, 1)
  <2>1. CASE a \notin mapped
    BY <1>6, <2>1, WakeUntouched DEF ClearTid, Woken, At
  <2>2. CASE a \in mapped
    <3>1. S \subseteq {u \in Queued : ~waiter[u].woken} /\ S \subseteq Threads
      BY ChosenAreAsleep
    <3>2. WakeUp(S) /\ frame' = frame
      BY <1>6, <2>2 DEF ClearTid
    <3> HIDE DEF S
    <3>3. \A u \in Threads : waiter'[u] = IF u \in S THEN WokenUp(waiter[u]) ELSE waiter[u]
      BY <3>2 DEF WakeUp
    <3> QED BY <3>1, <3>2, <3>3, WakeAdds DEF WakeUp
  <2> QED BY <2>1, <2>2
<1>7. ASSUME NEW t \in Threads, Interrupt(t) PROVE WakeAccounting' /\ WokenNotified'
  <2>1. Woken' = Woken
    BY <1>7 DEF Interrupt, Woken, At, TypeOK, Frame
  <2> QED BY <1>7, <2>1, WakeUntouched DEF Interrupt
<1>8. CASE UNCHANGED <<waiter, frame, credit>>
  BY <1>8, WakeUntouched DEF Woken, At
<1> QED
  BY <1>1, <1>2, <1>3, <1>4, <1>5, <1>6, <1>7, <1>8
     DEF Next, Call, Refused, Destroy, Environment, Store, Remap, Tick, SetRealtime, vars

\* In every reachable state every wake that was counted belongs to a waiter that
\* is about to return 0, with its notification pending: no timeout, signal or
\* clock failure can swallow it.
THEOREM NoWakeLost == Spec => [](WakeAccounting /\ WokenNotified)
<1>1. Init => WakeInv
  <2>1. ASSUME Init PROVE Woken = {}
    BY <2>1 DEF Init, Woken, At, NoFrame
  <2> QED BY <2>1, FS_EmptySet DEF Init, WakeInv, WakeAccounting, WokenNotified
<1>2. TypeOK /\ QueueExact /\ TypeOK' /\ WakeInv /\ [Next]_vars => WakeInv'
  BY NextWakeInv
<1> QED BY <1>1, <1>2, QueueCorrect, PTL DEF Spec, WakeInv
----------------------------------------------------------------------------
(* What call() established before a thread reached the mutex.              *)

\* A thread inside WAIT carries a request that passed every check of call(),
\* with the deadline computed from it when the call began.
Admitted(t) ==
  LET r == frame[t].request IN
  /\ r.command \in WaitCommands
  /\ CallError(r) = "OK"
  /\ r.timeout \in Times \cup {NoTimeout}
  /\ frame[t].deadline = Deadline(r, frame[t].began)
  /\ frame[t].began <= clock["monotonic"]

\* ... and once it is queued, a waiter with the mask of that request.
CallsAdmitted ==
  \A t \in Threads :
    /\ ~At(t, "outside") => Admitted(t)
    /\ At(t, "waiting") => waiter[t].mask = MaskOf(frame[t].request)

\* A thread whose call, place and mask a step leaves alone, while the monotonic
\* clock does not run backwards.
LEMMA AdmittedStays ==
  ASSUME TypeOK, TypeOK', CallsAdmitted, NEW t \in Threads,
         frame'[t].at = "outside" \/ frame'[t].at = frame[t].at,
         frame'[t].request = frame[t].request, frame'[t].deadline = frame[t].deadline,
         frame'[t].began = frame[t].began, waiter'[t].mask = waiter[t].mask,
         clock'["monotonic"] >= clock["monotonic"]
  PROVE /\ ~At(t, "outside")' => Admitted(t)'
        /\ At(t, "waiting")' => waiter'[t].mask = MaskOf(frame'[t].request)
<1>1. ASSUME ~At(t, "outside")' PROVE Admitted(t)'
  <2>1. Admitted(t)
    BY <1>1 DEF CallsAdmitted, At
  <2>2. /\ frame[t].began \in Int /\ clock["monotonic"] \in Int
        /\ clock'["monotonic"] \in Int
    BY DEF TypeOK, Frame
  <2> QED BY <2>1, <2>2 DEF Admitted
<1>2. ASSUME At(t, "waiting")' PROVE waiter'[t].mask = MaskOf(frame'[t].request)
  BY <1>2 DEF CallsAdmitted, At
<1> QED BY <1>1, <1>2

\* The steps that change no field of a call: they may wake or move waiters, and
\* advance the monotonic clock.
LEMMA CallsUntouched ==
  ASSUME TypeOK, TypeOK', CallsAdmitted, frame' = frame,
         \A t \in Threads : waiter'[t].mask = waiter[t].mask,
         clock'["monotonic"] >= clock["monotonic"]
  PROVE CallsAdmitted'
  BY AdmittedStays DEF CallsAdmitted

LEMMA MasksKept ==
  ASSUME TypeOK
  PROVE /\ \A t \in Threads : WokenUp(waiter[t]).mask = waiter[t].mask
        /\ \A t \in Threads : \A a : [waiter[t] EXCEPT !.address = a].mask = waiter[t].mask
        /\ clock["monotonic"] \in Int
  BY DEF TypeOK, WokenUp, Waiter

LEMMA NextCallsAdmitted ==
  TypeOK /\ TypeOK' /\ CallsAdmitted /\ [Next]_vars => CallsAdmitted'
<1> SUFFICES ASSUME TypeOK, TypeOK', CallsAdmitted, [Next]_vars PROVE CallsAdmitted'
  OBVIOUS
<1>0. clock["monotonic"] >= clock["monotonic"]
  BY MasksKept
<1>1. ASSUME NEW t \in Threads, NEW r \in Requests, WaitEnter(t, r) PROVE CallsAdmitted'
  <2>1. CASE frame' = frame
    BY <1>0, <1>1, <2>1, CallsUntouched DEF WaitEnter
  <2>2. CASE frame' # frame
    <3>1. /\ frame' = [frame EXCEPT ![t] =
               [at |-> "entered", request |-> r, interrupted |-> FALSE,
                deadline |-> Deadline(r, clock["monotonic"]),
                began |-> clock["monotonic"]]]
          /\ "OK" \in TimeoutErrors(r) /\ CallError(r) = "OK"
          /\ r.command \in WaitCommands /\ clock' = clock /\ waiter' = waiter
      BY <1>1, <2>2 DEF WaitEnter
    <3>2. r.timeout \in Times \cup {NoTimeout}
      <4>1. r.timeout \in Timeouts /\ TimeMax \in Nat
        BY FutexAssumption DEF Request
      <4> QED BY <3>1, <4>1 DEF TimeoutErrors, Timeouts, Times, NoTimeout,
                                UnreadableTimeout, InvalidTimeout
    <3>3. Admitted(t)' /\ At(t, "entered")'
      BY <1>0, <3>1, <3>2 DEF Admitted, At, TypeOK
    <3>4. \A u \in Threads \ {t} : frame'[u] = frame[u]
      BY <3>1 DEF TypeOK
    <3>5. ASSUME NEW u \in Threads \ {t}
          PROVE /\ ~At(u, "outside")' => Admitted(u)'
                /\ At(u, "waiting")' => waiter'[u].mask = MaskOf(frame'[u].request)
      BY <1>0, <3>1, <3>4, AdmittedStays
    <3> QED BY <3>3, <3>5 DEF CallsAdmitted, At
  <2> QED BY <2>1, <2>2
<1>2. ASSUME NEW t \in Threads, NEW r \in Requests, Wake(t, r) PROVE CallsAdmitted'
  BY <1>0, <1>2, MasksKept, CallsUntouched DEF Wake, WakeUp
<1>3. ASSUME NEW t \in Threads, NEW r \in Requests, Requeue(t, r) PROVE CallsAdmitted'
  <2>1. \A u \in Threads : \/ waiter'[u] = WokenUp(waiter[u])
                           \/ waiter'[u] = [waiter[u] EXCEPT !.address = r.address2]
                           \/ waiter'[u] = waiter[u]
    BY <1>3 DEF Requeue
  <2> QED BY <1>0, <1>3, <2>1, MasksKept, CallsUntouched DEF Requeue
<1>4. ASSUME NEW t \in Threads, WaitEnqueue(t) PROVE CallsAdmitted'
  <2> DEFINE r == frame[t].request
  <2>1. \A u \in Threads \ {t} : frame'[u] = frame[u] /\ waiter'[u] = waiter[u]
    BY <1>4 DEF WaitEnqueue, TypeOK
  <2>2. clock' = clock
    BY <1>4 DEF WaitEnqueue
  <2>3. ASSUME NEW u \in Threads \ {t}
        PROVE /\ ~At(u, "outside")' => Admitted(u)'
              /\ At(u, "waiting")' => waiter'[u].mask = MaskOf(frame'[u].request)
    BY <1>0, <2>1, <2>2, AdmittedStays
  <2>4. CASE frame' = [frame EXCEPT ![t] = NoFrame]
    <3>1. At(t, "outside")'
      BY <2>4 DEF At, TypeOK, NoFrame
    <3> QED BY <2>3, <3>1 DEF CallsAdmitted, At
  <2>5. CASE /\ frame' = [frame EXCEPT ![t].at = "waiting"]
             /\ waiter' = [waiter EXCEPT ![t] =
                    [address |-> r.address, mask |-> MaskOf(r),
                     private |-> r.private, woken |-> FALSE, notified |-> FALSE]]
    <3>1. /\ frame'[t].request = frame[t].request /\ frame'[t].deadline = frame[t].deadline
          /\ frame'[t].began = frame[t].began
      BY <2>5 DEF TypeOK, Frame
    <3>2. waiter'[t].mask = MaskOf(frame'[t].request)
      BY <2>5, <3>1 DEF TypeOK
    <3>3. Admitted(t)
      BY <1>4 DEF WaitEnqueue, CallsAdmitted, At
    <3>4. Admitted(t)'
      BY <2>2, <3>1, <3>3 DEF Admitted
    <3> QED BY <2>3, <3>2, <3>4 DEF CallsAdmitted
  <2> QED BY <1>4, <2>4, <2>5 DEF WaitEnqueue
<1>5. ASSUME NEW t \in Threads, Recheck(t) PROVE CallsAdmitted'
  <2>1. CASE frame' = frame /\ waiter' = [waiter EXCEPT ![t].notified = FALSE]
    <3>1. \A u \in Threads : waiter'[u].mask = waiter[u].mask
      BY <2>1 DEF TypeOK, Waiter
    <3> QED BY <1>0, <1>5, <2>1, <3>1, CallsUntouched DEF Recheck
  <2>2. CASE frame' = [frame EXCEPT ![t] = NoFrame] /\ waiter' = [waiter EXCEPT ![t] = NoWaiter]
    <3>1. At(t, "outside")'
      BY <2>2 DEF At, TypeOK, NoFrame
    <3>2. \A u \in Threads \ {t} : frame'[u] = frame[u] /\ waiter'[u] = waiter[u]
      BY <2>2 DEF TypeOK
    <3>3. clock' = clock
      BY <1>5 DEF Recheck
    <3>4. ASSUME NEW u \in Threads \ {t}
          PROVE /\ ~At(u, "outside")' => Admitted(u)'
                /\ At(u, "waiting")' => waiter'[u].mask = MaskOf(frame'[u].request)
      BY <1>0, <3>2, <3>3, AdmittedStays
    <3> QED BY <3>1, <3>4 DEF CallsAdmitted, At
  <2> QED BY <1>5, <2>1, <2>2 DEF Recheck
<1>6. ASSUME NEW a \in Addresses, ClearTid(a) PROVE CallsAdmitted'
  BY <1>0, <1>6, MasksKept, CallsUntouched DEF ClearTid, WakeUp
<1>7. ASSUME NEW t \in Threads, Interrupt(t) PROVE CallsAdmitted'
  <2>1. \A u \in Threads :
          /\ frame'[u].at = frame[u].at /\ frame'[u].request = frame[u].request
          /\ frame'[u].deadline = frame[u].deadline /\ frame'[u].began = frame[u].began
    BY <1>7 DEF Interrupt, TypeOK, Frame
  <2>2. waiter' = waiter /\ clock' = clock
    BY <1>7 DEF Interrupt
  <2> QED BY <1>0, <2>1, <2>2, AdmittedStays DEF CallsAdmitted
<1>8. CASE Tick
  <2>1. clock'["monotonic"] >= clock["monotonic"]
    BY <1>8 DEF Tick, TypeOK
  <2> QED BY <1>8, <2>1, CallsUntouched DEF Tick
<1>9. ASSUME NEW v \in 0..ClockLimit, SetRealtime(v) PROVE CallsAdmitted'
  <2>1. clock'["monotonic"] = clock["monotonic"]
    BY <1>9 DEF SetRealtime, TypeOK
  <2> QED BY <1>0, <1>9, <2>1, CallsUntouched DEF SetRealtime
<1>10. CASE UNCHANGED <<waiter, frame, clock>>
  BY <1>0, <1>10, CallsUntouched
<1> QED
  BY <1>1, <1>2, <1>3, <1>4, <1>5, <1>6, <1>7, <1>8, <1>9, <1>10
     DEF Next, Call, Refused, Destroy, Environment, Store, Remap, vars

LEMMA CallsCorrect == Spec => [](TypeOK /\ QueueExact /\ CallsAdmitted)
<1>1. Init => CallsAdmitted
  BY DEF Init, CallsAdmitted, At, NoFrame
<1> QED BY <1>1, NextCallsAdmitted, QueueCorrect, PTL DEF Spec

----------------------------------------------------------------------------
(* No timeout is early.                                                    *)

\* When the wait loop can report a timeout.
LEMMA TimeoutReason ==
  ASSUME NEW t \in Threads, NEW woken \in BOOLEAN, "ETIMEDOUT" \in LoopExit(t, woken)
  PROVE /\ frame[t].deadline # NoTimeout
        /\ clock[ClockOf(frame[t].request)] >= frame[t].deadline
  BY DEF LoopExit

\* A step in which a thread's WAIT returns ETIMEDOUT is one of its own
\* evaluations of the loop.
LEMMA TimeoutStep ==
  ASSUME TypeOK, [Next]_vars, NEW t \in Threads,
         ~At(t, "outside"), At(t, "outside")', ret' = "ETIMEDOUT"
  PROVE \E woken \in BOOLEAN : "ETIMEDOUT" \in LoopExit(t, woken)
<1>1. frame'[t] # frame[t]
  BY DEF At
<1>2. ASSUME NEW u \in Threads, NEW r \in Requests, WaitEnter(u, r) PROVE FALSE
  <2>1. u = t
    BY <1>1, <1>2 DEF WaitEnter, TypeOK
  <2> QED BY <1>2, <2>1 DEF WaitEnter
<1>3. ASSUME NEW u \in Threads, WaitEnqueue(u)
      PROVE \E woken \in BOOLEAN : "ETIMEDOUT" \in LoopExit(t, woken)
  <2>1. u = t
    BY <1>1, <1>3 DEF WaitEnqueue, TypeOK
  <2>2. EnqueueError(frame[t].request) # "ETIMEDOUT"
    BY DEF EnqueueError
  <2>3. "ETIMEDOUT" \in LoopExit(t, FALSE)
    BY <1>3, <2>1, <2>2 DEF WaitEnqueue, NoReturn
  <2> QED BY <2>3
<1>4. ASSUME NEW u \in Threads, Recheck(u)
      PROVE \E woken \in BOOLEAN : "ETIMEDOUT" \in LoopExit(t, woken)
  <2>1. u = t
    BY <1>1, <1>4 DEF Recheck, TypeOK
  <2>2. "ETIMEDOUT" \in LoopExit(t, waiter[t].woken) /\ waiter[t].woken \in BOOLEAN
    BY <1>4, <2>1 DEF Recheck, NoReturn, TypeOK, Waiter
  <2> QED BY <2>2
<1>5. ASSUME NEW u \in Threads, Interrupt(u) PROVE FALSE
  BY <1>5 DEF Interrupt, NoReturn
<1> QED
  BY <1>1, <1>2, <1>3, <1>4, <1>5
     DEF Next, Call, Refused, Wake, Requeue, ClearTid, Destroy, Environment, Store,
         Remap, Tick, SetRealtime, vars

\* A WAIT of futex.cpp reports ETIMEDOUT only when its whole relative timeout has
\* passed on the monotonic clock, or its absolute deadline on the clock it named,
\* whatever the timeouts, the clock readings and the threads that race with it; a
\* deadline that timeout_value saturated never expires.
THEOREM TimeoutsAreDue == Spec => NoEarlyTimeout
<1> DEFINE Elapsed(t) ==
      LET r == frame[t].request IN
      IF r.command = "WAIT"
      THEN clock["monotonic"] - frame[t].began >= r.timeout
      ELSE clock[ClockOf(r)] >= r.timeout
    OnTime(t) == (~At(t, "outside") /\ At(t, "outside")' /\ ret' = "ETIMEDOUT") => Elapsed(t)
<1>1. ASSUME TypeOK, CallsAdmitted, [Next]_vars, NEW t \in Threads PROVE OnTime(t)
  <2> SUFFICES ASSUME ~At(t, "outside"), At(t, "outside")', ret' = "ETIMEDOUT"
               PROVE Elapsed(t)
    OBVIOUS
  <2> DEFINE r == frame[t].request
  <2>1. /\ frame[t].deadline # NoTimeout
        /\ clock[ClockOf(r)] >= frame[t].deadline
    BY <1>1, TimeoutStep, TimeoutReason
  <2>2. Admitted(t)
    BY <1>1 DEF CallsAdmitted
  <2>3. /\ r \in Request /\ frame[t].began \in 0..ClockLimit
        /\ clock[ClockOf(r)] \in 0..ClockLimit
    BY <1>1 DEF TypeOK, Frame, ClockOf
  <2>4. r.timeout \in Times
    BY <2>1, <2>2 DEF Admitted, Deadline
  <2>5. CASE r.command = "WAIT"
    <3>1. ClockOf(r) = "monotonic"
      BY <2>2, <2>5 DEF Admitted, CallError, ClockOf
    <3>2. frame[t].deadline
            = IF r.timeout > TimeMax - frame[t].began THEN TimeMax
              ELSE r.timeout + frame[t].began
      BY <2>2, <2>4, <2>5 DEF Admitted, Deadline
    <3> QED BY <2>1, <2>3, <2>4, <2>5, <3>1, <3>2, FutexAssumption DEF Times
  <2>6. CASE r.command # "WAIT"
    BY <2>1, <2>2, <2>6 DEF Admitted, Deadline
  <2> QED BY <2>5, <2>6
<1>2. TypeOK /\ QueueExact /\ CallsAdmitted /\ [Next]_vars => [\A t \in Threads : OnTime(t)]_vars
  BY <1>1
<1> QED BY <1>2, CallsCorrect, PTL DEF Spec, NoEarlyTimeout

----------------------------------------------------------------------------
(* Nobody sleeps on a stale value.                                         *)

\* The waiters the invariant is about.
Sleeper(t) == /\ At(t, "waiting") /\ ~waiter[t].woken /\ waiter[t].private
              /\ waiter[t].address \in quiet

\* What it says of one of them.
UpToDate(t) == LET r == frame[t].request IN
               r.address = waiter[t].address /\ r.value = word[r.address]

LEMMA NextNoStaleSleeper ==
  TypeOK /\ TypeOK' /\ QueueExact /\ CallsAdmitted /\ NoStaleSleeper /\ [Next]_vars
    => NoStaleSleeper'
<1> SUFFICES ASSUME TypeOK, TypeOK', QueueExact, CallsAdmitted, [Next]_vars,
                    NoStaleSleeper, NEW s \in Threads, Sleeper(s)'
             PROVE UpToDate(s)'
  BY DEF NoStaleSleeper, Sleeper, UpToDate
<1>0. Sleeper(s) => UpToDate(s)
  BY DEF NoStaleSleeper, Sleeper, UpToDate
\* A step after which the waiter is as it was, and its word is unchanged.
<1>a. ASSUME frame'[s].at = frame[s].at, frame'[s].request = frame[s].request,
             waiter'[s].address = waiter[s].address, waiter'[s].private = waiter[s].private,
             waiter'[s].woken = waiter[s].woken,
             waiter[s].address \in quiet => word'[waiter[s].address] = word[waiter[s].address],
             waiter[s].address \in quiet
      PROVE UpToDate(s)'
  BY <1>0, <1>a DEF Sleeper, UpToDate, At
<1>1. ASSUME NEW t \in Threads, NEW r \in Requests, WaitEnter(t, r) PROVE UpToDate(s)'
  <2>1. frame'[s] = frame[s]
    BY <1>1 DEF WaitEnter, Sleeper, At, TypeOK
  <2> QED BY <1>1, <2>1, <1>a DEF WaitEnter, guestVars, Sleeper
<1>2. ASSUME NEW t \in Threads, NEW r \in Requests, Wake(t, r) PROVE UpToDate(s)'
  <2> DEFINE S == Chosen(r.address, r.private, MaskOf(r), r.value)
  <2>1. /\ waiter' = [u \in Threads |-> IF u \in S THEN WokenUp(waiter[u]) ELSE waiter[u]]
        /\ frame' = frame /\ word' = word
        /\ quiet' = IF r.private /\ MaskOf(r) = Bits /\ S = Matching(r.address, TRUE, Bits)
                    THEN quiet \cup {r.address} ELSE quiet
    BY <1>2 DEF Wake, WakeUp, guestVars
  <2>2. \A u \in Threads : WokenUp(waiter[u]).woken
    BY DEF TypeOK, Waiter, WokenUp
  <2>3. s \notin S /\ waiter'[s] = waiter[s]
    BY <2>1, <2>2 DEF Sleeper
  <2>4. waiter[s].mask \cap Bits # {}
    <3>1. Admitted(s) /\ waiter[s].mask = MaskOf(frame[s].request)
      BY <2>1 DEF Sleeper, CallsAdmitted, At
    <3>2. MaskOf(frame[s].request) # {}
      BY <3>1 DEF Admitted, CallError
    <3> QED BY <3>1, <3>2 DEF TypeOK, Waiter
  <2>5. s \in Queued
    BY <2>1 DEF Sleeper, QueueExact, At
  <2>6. waiter[s].address = r.address => s \in Matching(r.address, TRUE, Bits)
    BY <2>3, <2>4, <2>5 DEF Matching, Sleeper, TypeOK, Waiter
  <2>7. waiter[s].address \in quiet
    BY <2>1, <2>3, <2>6 DEF Sleeper
  <2> QED BY <2>1, <2>3, <2>7, <1>a
<1>3. ASSUME NEW t \in Threads, NEW r \in Requests, Requeue(t, r) PROVE UpToDate(s)'
  <2> DEFINE S == Oldest(Movable(r.address), r.value)
             V == Oldest(Movable(r.address) \ S, r.moves)
  <2>1. /\ waiter' = [u \in Threads |->
             IF u \in S THEN WokenUp(waiter[u])
             ELSE IF u \in V THEN [waiter[u] EXCEPT !.address = r.address2]
             ELSE waiter[u]]
        /\ frame' = frame /\ word' = word
        /\ quiet' = IF V = {} THEN quiet ELSE quiet \ {r.address2}
    BY <1>3 DEF Requeue, guestVars
  <2> HIDE DEF S, V
  <2>2. \A u \in Threads : WokenUp(waiter[u]).woken
    BY DEF TypeOK, Waiter, WokenUp
  <2>3. s \notin S
    BY <2>1, <2>2 DEF Sleeper
  <2>4. s \notin V
    <3> SUFFICES ASSUME s \in V PROVE FALSE
      OBVIOUS
    <3>1. waiter'[s].address = r.address2
      BY <2>1, <2>3 DEF TypeOK, Waiter
    <3> QED BY <2>1, <3>1 DEF Sleeper
  <2>5. waiter'[s] = waiter[s]
    BY <2>1, <2>3, <2>4
  <2>6. waiter[s].address \in quiet
    BY <2>1, <2>5 DEF Sleeper
  <2> QED BY <2>1, <2>5, <2>6, <1>a
<1>4. ASSUME NEW t \in Threads, WaitEnqueue(t) PROVE UpToDate(s)'
  <2>1. CASE s # t
    <3>1. frame'[s] = frame[s] /\ waiter'[s] = waiter[s]
      BY <1>4, <2>1 DEF WaitEnqueue, TypeOK
    <3> QED BY <1>4, <3>1, <1>a DEF WaitEnqueue, guestVars, Sleeper
  <2>2. CASE s = t
    <3> DEFINE r == frame[t].request
    <3>1. /\ waiter' = [waiter EXCEPT ![t] =
                    [address |-> r.address, mask |-> MaskOf(r),
                     private |-> r.private, woken |-> FALSE, notified |-> FALSE]]
          /\ frame' = [frame EXCEPT ![t].at = "waiting"]
          /\ EnqueueError(r) = "OK" /\ word' = word
      <4>1. frame' # [frame EXCEPT ![t] = NoFrame]
        BY <2>2 DEF Sleeper, At, NoFrame, TypeOK
      <4>2. EnqueueError(r) # "sleep"
        BY DEF EnqueueError
      <4> QED BY <1>4, <4>1, <4>2 DEF WaitEnqueue, guestVars
    <3>2. r.value = word[r.address]
      BY <3>1 DEF EnqueueError
    <3>3. frame'[t].request = r /\ waiter'[t].address = r.address
      BY <3>1 DEF TypeOK, Frame
    <3> QED BY <2>2, <3>1, <3>2, <3>3 DEF UpToDate
  <2> QED BY <2>1, <2>2
<1>5. ASSUME NEW t \in Threads, Recheck(t) PROVE UpToDate(s)'
  <2>1. frame'[s] = frame[s]
    BY <1>5 DEF Recheck, Sleeper, At, TypeOK, NoFrame
  <2>2. /\ waiter'[s].address = waiter[s].address /\ waiter'[s].private = waiter[s].private
        /\ waiter'[s].woken = waiter[s].woken
    <3>1. CASE waiter' = [waiter EXCEPT ![t].notified = FALSE]
      BY <3>1 DEF TypeOK, Waiter
    <3>2. CASE /\ waiter' = [waiter EXCEPT ![t] = NoWaiter]
               /\ frame' = [frame EXCEPT ![t] = NoFrame]
      <4>1. s # t
        BY <3>2 DEF Sleeper, At, TypeOK, NoFrame
      <4> QED BY <3>2, <4>1 DEF TypeOK
    <3> QED BY <1>5, <3>1, <3>2 DEF Recheck
  <2> QED BY <1>5, <2>1, <2>2, <1>a DEF Recheck, guestVars, Sleeper
<1>6. ASSUME NEW a \in Addresses, ClearTid(a) PROVE UpToDate(s)'
  <2>1. CASE a \notin mapped
    <3>1. UNCHANGED <<frame, waiter, word, quiet>>
      BY <1>6, <2>1 DEF ClearTid
    <3>2. waiter[s].address \in quiet
      BY <3>1 DEF Sleeper
    <3> QED BY <3>1, <3>2, <1>a
  <2>2. CASE a \in mapped
    <3> DEFINE S == Chosen(a, FALSE, Bits, 1)
    <3>1. /\ waiter' = [u \in Threads |-> IF u \in S THEN WokenUp(waiter[u]) ELSE waiter[u]]
          /\ frame' = frame /\ word' = [word EXCEPT ![a] = 0] /\ quiet' = quiet \ {a}
      BY <1>6, <2>2 DEF ClearTid, WakeUp
    <3> HIDE DEF S
    <3>2. \A u \in Threads : WokenUp(waiter[u]).woken
      BY DEF TypeOK, Waiter, WokenUp
    <3>3. waiter'[s] = waiter[s]
      BY <3>1, <3>2 DEF Sleeper
    <3>4. waiter[s].address # a /\ waiter[s].address \in quiet
      BY <3>1, <3>3 DEF Sleeper
    <3> QED BY <3>1, <3>3, <3>4, <1>a DEF TypeOK
  <2> QED BY <2>1, <2>2
<1>7. ASSUME NEW a \in Addresses, NEW v \in Values, Store(a, v) PROVE UpToDate(s)'
  BY <1>7, <1>a DEF Store, Sleeper, TypeOK
<1>8. ASSUME NEW a \in Addresses, Remap(a) PROVE UpToDate(s)'
  BY <1>8, <1>a DEF Remap, Sleeper, TypeOK
<1>9. ASSUME NEW t \in Threads, Interrupt(t) PROVE UpToDate(s)'
  <2>1. frame'[s].at = frame[s].at /\ frame'[s].request = frame[s].request
    BY <1>9 DEF Interrupt, TypeOK, Frame
  <2> QED BY <1>9, <2>1, <1>a DEF Interrupt, guestVars, Sleeper
<1>10. CASE UNCHANGED <<waiter, frame, quiet, word>>
  BY <1>10, <1>a DEF Sleeper
<1> QED
  BY <1>1, <1>2, <1>3, <1>4, <1>5, <1>6, <1>7, <1>8, <1>9, <1>10
     DEF Next, Call, Refused, Destroy, Environment, Tick, SetRealtime, vars, guestVars

\* futex.cpp compares the word and enqueues the waiter in one critical section,
\* so no interleaving of stores, wakes, requeues and remappings leaves a private
\* waiter asleep on a word that holds another value than it expects, once
\* everyone on that word has been woken after its last change.
THEOREM NobodySleepsOnStaleValue == Spec => []NoStaleSleeper
<1>1. Init => NoStaleSleeper
  BY DEF Init, NoStaleSleeper
<1> QED BY <1>1, NextNoStaleSleeper, CallsCorrect, PTL DEF Spec

----------------------------------------------------------------------------
(* Waiters are served in queue order.                                      *)

\* The oldest n of M are closed under older members of M.
LEMMA OldestDownward ==
  ASSUME NEW M, IsFiniteSet(M), NEW n \in Int, NEW u \in Oldest(M, n), NEW t \in M,
         \A x \in M : PositionOf(x) \in Int, PositionOf(t) < PositionOf(u)
  PROVE t \in Oldest(M, n)
<1> DEFINE B(x) == {y \in M : PositionOf(y) < PositionOf(x)}
<1>1. u \in M /\ Cardinality(B(u)) < n
  BY DEF Oldest
<1>2. B(t) \subseteq B(u) /\ B(u) \subseteq M
  BY <1>1
<1>3. Cardinality(B(t)) <= Cardinality(B(u))
  BY <1>2, FS_Subset
<1>4. Cardinality(B(t)) \in Nat /\ Cardinality(B(u)) \in Nat
  BY <1>2, FS_Subset, FS_CardinalityType
<1>5. Cardinality(B(t)) < n
  BY <1>1, <1>3, <1>4
<1> QED BY <1>5 DEF Oldest

LEMMA QueueFinite ==
  ASSUME TypeOK, NEW M \in SUBSET Queued
  PROVE IsFiniteSet(M) /\ \A x \in M : PositionOf(x) \in Int
<1>1. Queued \subseteq Threads
  BY DEF TypeOK, Queued, Members
<1>2. \A x \in M : PositionOf(x) \in DOMAIN active
  BY PositionFound
<1> QED BY <1>1, <1>2, FutexAssumption, FS_Subset DEF TypeOK

\* A WAKE that chooses a waiter chooses every older one it could have chosen.
LEMMA ChosenDownward ==
  ASSUME TypeOK, NEW a, NEW p, NEW m, NEW n \in Int, NEW t, NEW u, Ahead(t, u),
         u \in Chosen(a, p, m, n)
  PROVE t \in Chosen(a, p, m, n)
<1> DEFINE M == Matching(a, p, m)
           k == IF n > 0 THEN n ELSE 1
<1>1. u \in M /\ M \subseteq Queued /\ k \in Int
  BY DEF Chosen, Oldest, Matching
<1>2. t \in M
  BY <1>1 DEF Matching, Ahead
<1>3. IsFiniteSet(M) /\ \A x \in M : PositionOf(x) \in Int
  BY <1>1, QueueFinite
<1>4. u \in Oldest(M, k) /\ PositionOf(t) < PositionOf(u)
  BY DEF Chosen, Ahead
<1> HIDE DEF M, k
<1>5. t \in Oldest(M, k)
  BY <1>1, <1>2, <1>3, <1>4, OldestDownward
<1> QED BY <1>5 DEF Chosen, M, k

\* What a step does to two waiters of one key, the first ahead of the second.
Served(t, u) ==
  Ahead(t, u) /\ At(t, "waiting")' /\ At(u, "waiting")' =>
    /\ waiter'[u].woken => waiter'[t].woken
    /\ waiter'[u].address # waiter[u].address =>
         waiter'[t].woken \/ waiter'[t].address = waiter'[u].address

LEMMA NextServed ==
  ASSUME TypeOK, QueueExact, [Next]_vars, NEW t \in Threads, NEW u \in Threads
  PROVE Served(t, u)
<1> SUFFICES ASSUME Ahead(t, u), At(t, "waiting")', At(u, "waiting")'
             PROVE /\ waiter'[u].woken => waiter'[t].woken
                   /\ waiter'[u].address # waiter[u].address =>
                        waiter'[t].woken \/ waiter'[t].address = waiter'[u].address
  BY DEF Served
<1>0. /\ ~waiter[u].woken /\ ~waiter[t].woken
      /\ waiter[t] \in Waiter /\ waiter[u] \in Waiter
      /\ At(t, "waiting") /\ At(u, "waiting") /\ t \in Queued /\ u \in Queued
  BY DEF Ahead, TypeOK, QueueExact
<1>1. CASE waiter'[u].woken = waiter[u].woken /\ waiter'[u].address = waiter[u].address
  BY <1>0, <1>1
<1>2. ASSUME NEW a, NEW p, NEW m, NEW n \in Int, WakeUp(Chosen(a, p, m, n))
      PROVE /\ waiter'[u].woken => waiter'[t].woken
            /\ waiter'[u].address = waiter[u].address
  <2> DEFINE S == Chosen(a, p, m, n)
  <2>1. \A x \in Threads : waiter'[x] = IF x \in S THEN WokenUp(waiter[x]) ELSE waiter[x]
    BY <1>2 DEF WakeUp
  <2>2. u \in S => t \in S
    BY <1>2, ChosenDownward
  <2> HIDE DEF S
  <2> QED BY <1>0, <2>1, <2>2 DEF WokenUp, Waiter
<1>3. ASSUME NEW x \in Threads, NEW r \in Requests, Wake(x, r)
      PROVE /\ waiter'[u].woken => waiter'[t].woken
            /\ waiter'[u].address = waiter[u].address
  <2>1. r.value \in Int
    BY FutexAssumption DEF Request
  <2> QED BY <1>2, <1>3, <2>1 DEF Wake
<1>4. ASSUME NEW x \in Threads, NEW r \in Requests, Requeue(x, r)
      PROVE /\ waiter'[u].woken => waiter'[t].woken
            /\ waiter'[u].address # waiter[u].address =>
                 waiter'[t].woken \/ waiter'[t].address = waiter'[u].address
  <2> DEFINE M == Movable(r.address)
             S == Oldest(M, r.value)
             V == Oldest(M \ S, r.moves)
  <2>1. waiter' = [y \in Threads |->
             IF y \in S THEN WokenUp(waiter[y])
             ELSE IF y \in V THEN [waiter[y] EXCEPT !.address = r.address2]
             ELSE waiter[y]]
    BY <1>4 DEF Requeue
  <2>2. r.value \in Int /\ r.moves \in Int
    BY FutexAssumption DEF Request
  <2>3. M \subseteq Queued /\ (u \in M => t \in M)
    BY <1>0 DEF Movable, Ahead
  <2>4. /\ IsFiniteSet(M) /\ \A y \in M : PositionOf(y) \in Int
        /\ IsFiniteSet(M \ S)
    BY <2>3, QueueFinite
  <2>5. S \subseteq M /\ V \subseteq M \ S /\ PositionOf(t) < PositionOf(u)
    BY DEF Oldest, Ahead
  <2>6. u \in S => t \in S
    BY <2>2, <2>3, <2>4, <2>5, OldestDownward
  <2>7. u \in V => t \in S \/ t \in V
    <3> SUFFICES ASSUME u \in V, t \notin S PROVE t \in V
      OBVIOUS
    <3>1. t \in M \ S /\ \A y \in M \ S : PositionOf(y) \in Int
      BY <2>3, <2>4, <2>5
    <3> QED BY <3>1, <2>2, <2>4, <2>5, OldestDownward
  <2> HIDE DEF S, V, M
  <2>8. /\ waiter'[u].woken => u \in S
        /\ waiter'[u].address # waiter[u].address => u \in V \/ u \in S
        /\ t \in S => waiter'[t].woken
        /\ t \in V => waiter'[t].woken \/ waiter'[t].address = r.address2
        /\ u \in V /\ u \notin S => waiter'[u].address = r.address2
        /\ u \in S => waiter'[u].address = waiter[u].address
    BY <1>0, <2>1 DEF WokenUp, Waiter
  <2> QED BY <2>6, <2>7, <2>8
<1>5. ASSUME NEW a \in Addresses, ClearTid(a)
      PROVE /\ waiter'[u].woken => waiter'[t].woken
            /\ waiter'[u].address = waiter[u].address
  <2>1. CASE a \in mapped
    <3>1. WakeUp(Chosen(a, FALSE, Bits, 1))
      BY <1>5, <2>1 DEF ClearTid
    <3>2. 1 \in Int
      OBVIOUS
    <3> QED BY <1>2, <3>1, <3>2
  <2>2. CASE a \notin mapped
    BY <1>0, <1>5, <2>2 DEF ClearTid
  <2> QED BY <2>1, <2>2
<1>6. ASSUME NEW x \in Threads, WaitEnqueue(x)
      PROVE waiter'[u] = waiter[u]
  <2>1. x # u
    BY <1>0, <1>6 DEF WaitEnqueue, At
  <2> QED BY <1>6, <2>1 DEF WaitEnqueue, TypeOK
<1>7. ASSUME NEW x \in Threads, Recheck(x)
      PROVE waiter'[u].woken = waiter[u].woken /\ waiter'[u].address = waiter[u].address
  <2>1. CASE waiter' = [waiter EXCEPT ![x].notified = FALSE]
    BY <2>1 DEF TypeOK, Waiter
  <2>2. CASE /\ waiter' = [waiter EXCEPT ![x] = NoWaiter]
             /\ frame' = [frame EXCEPT ![x] = NoFrame]
    <3>1. x # u
      BY <2>2 DEF At, TypeOK, NoFrame
    <3> QED BY <2>2, <3>1 DEF TypeOK
  <2> QED BY <1>7, <2>1, <2>2 DEF Recheck
<1>8. CASE waiter' = waiter
  BY <1>1, <1>8
<1> QED
  BY <1>1, <1>3, <1>4, <1>5, <1>6, <1>7, <1>8
     DEF Next, Call, WaitEnter, Refused, Destroy, Environment, Store, Remap, Interrupt,
         Tick, SetRealtime, vars

\* The scans of artbox_futex::wake and of REQUEUE serve the waiters of one key
\* in queue order, for any queue, count and mask: no step wakes or moves a waiter
\* past an older one that it could have served.
THEOREM OldestServedFirst == Spec => ServesOldestFirst
<1>1. TypeOK /\ QueueExact /\ [Next]_vars => [\A t, u \in Threads : Served(t, u)]_vars
  BY NextServed
<1>2. Spec => [][\A t, u \in Threads : Served(t, u)]_vars
  BY <1>1, QueueCorrect, PTL DEF Spec
<1> QED BY <1>2 DEF ServesOldestFirst, Served
=============================================================================
