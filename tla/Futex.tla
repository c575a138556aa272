------------------------------- MODULE Futex -------------------------------
(***************************************************************************)
(* The user-mode futex domain of core/src/futex.cpp.                       *)
(*                                                                         *)
(* One mutex (artbox_futex::lock) serialises every queue operation, so an  *)
(* action is one critical section.  A WAIT takes several: it reads the     *)
(* thread's interrupt epoch and its clock before the mutex (WaitEnter),    *)
(* compares and enqueues under it (WaitEnqueue), and then sleeps on its    *)
(* own condition variable, with the mutex released, between two            *)
(* evaluations of the wait loop (Recheck).                                 *)
(***************************************************************************)
EXTENDS Integers, Sequences, FiniteSets, Vectors

CONSTANTS
  Threads,       \* guest threads that issue futex calls
  Interruptible, \* those attached with an interrupt signal configured
  Addresses,     \* aligned guest words of the user address range
  BadAddresses,  \* misaligned ("Odd") or out-of-range ("High") addresses
  Values,        \* contents of a guest word; 0 is one of them
  Bits,          \* bits of a wait/wake mask; the full set is UINT32_MAX
  Requests,      \* the calls the guest may issue
  WaiterLimit,   \* artbox_futex::limit
  ClockLimit,    \* last reading of either clock (a bound of the model)
  TimeMax        \* the largest representable time (INT64_MAX seconds)

\* The timeout argument: absent, at an unreadable address, out of range, or a
\* time.
NoTimeout == -1
UnreadableTimeout == -2
InvalidTimeout == -3
Times == 0..TimeMax
Timeouts == -3..TimeMax

WaitCommands == {"WAIT", "WAIT_BITSET"}
WakeCommands == {"WAKE", "WAKE_BITSET"}
Commands == WaitCommands \cup WakeCommands \cup {"REQUEUE", "OTHER"}

\* The six syscall arguments, decoded: `value' is the expected word of a WAIT
\* and the signed count of a WAKE or REQUEUE, `moves' the fourth argument of a
\* REQUEUE, `timeout' the fourth argument of the others.
Request == [command : Commands, private : BOOLEAN, realtime : BOOLEAN,
            address : Addresses \cup BadAddresses,
            address2 : Addresses \cup BadAddresses,
            value : Int, moves : Int, mask : SUBSET Bits, timeout : Timeouts]

ASSUME FutexAssumption ==
  /\ IsFiniteSet(Threads) /\ Interruptible \subseteq Threads
  /\ WaiterLimit \in Nat \ {0}
  /\ ClockLimit \in Nat /\ TimeMax \in Nat /\ ClockLimit < TimeMax
  /\ 0 \in Values /\ Values \subseteq Int
  /\ Addresses \cap BadAddresses = {}
  /\ BadAddresses \subseteq {"Odd", "High"}
  /\ {"Odd", "High"} \cap Addresses = {}
  /\ Bits # {} /\ Addresses # {}
  /\ Requests # {} /\ Requests \subseteq Request

VARIABLES
  alive,   \* the domain has not been destroyed
  word,    \* the guest words
  mapped,  \* the words that are mapped in the guest's VM
  active,  \* artbox_futex::active, the queue of waiters, oldest first
  waiter,  \* the Waiter each thread has on its stack while it waits
  frame,   \* the other locals of call() in each thread
  clock,   \* the two clocks of artbox_system_ops
  ret,     \* the error of the call that returned in the last step
  credit,  \* waiters counted as woken so far, less WAITs that returned 0
  quiet    \* words all of whose private waiters were woken since the word last
           \* changed or waiters were last moved to it

guestVars == <<word, mapped>>
vars == <<alive, guestVars, active, waiter, frame, clock, ret, credit, quiet>>

Errors == {"OK", "EAGAIN", "EBUSY", "EFAULT", "EINTR", "EINVAL", "EIO",
           "ENOMEM", "ENOSYS", "ETIMEDOUT"}
NoReturn == "none"

\* The queue entry; `notified' is a notification that is pending on its
\* condition variable.
Waiter == [address : Addresses, mask : SUBSET Bits, private : BOOLEAN,
           woken : BOOLEAN, notified : BOOLEAN]

\* `at' is the place in call(), `began' the monotonic time at which the deadline
\* was computed, `interrupted' whether the thread's interrupt epoch differs from
\* the one call() read.
Frame == [at : {"outside", "entered", "waiting"}, request : Request,
          deadline : Timeouts, began : 0..ClockLimit, interrupted : BOOLEAN]

NoWaiter == [address |-> CHOOSE a \in Addresses : TRUE, mask |-> {},
             private |-> FALSE, woken |-> FALSE, notified |-> FALSE]
NoFrame == [at |-> "outside", request |-> CHOOSE r \in Requests : TRUE,
            deadline |-> NoTimeout, began |-> 0, interrupted |-> FALSE]

At(t, place) == frame[t].at = place

\* The mask call() uses: the plain commands ignore their bitset argument.
MaskOf(r) == IF r.command \in {"WAIT", "WAKE"} THEN Bits ELSE r.mask

ClockOf(r) == IF r.realtime THEN "realtime" ELSE "monotonic"

----------------------------------------------------------------------------
(* Argument checks, in the order of the code.                              *)

AddressError(a) ==
  IF a = "Odd" THEN "EINVAL" ELSE IF a = "High" THEN "EFAULT" ELSE "OK"

\* timeout_value, for the timeout a wait command supplies.  Reading the
\* monotonic clock for a relative timeout may fail.
TimeoutErrors(r) ==
  IF r.command \notin WaitCommands \/ r.timeout = NoTimeout THEN {"OK"}
  ELSE IF r.timeout = UnreadableTimeout THEN {"EFAULT"}
  ELSE IF r.timeout = InvalidTimeout THEN {"EINVAL"}
  ELSE IF r.command = "WAIT" THEN {"OK", "EIO"} ELSE {"OK"}

\* A faulty timeout_value: the sum wraps around.
DeadlineWraps(r, now) ==
  IF r.timeout \notin Times \/ r.command # "WAIT" THEN r.timeout
  ELSE (r.timeout + now) % (TimeMax + 1)

\* timeout_value: WAIT's timeout is relative to the monotonic clock and the sum
\* saturates; WAIT_BITSET's is absolute.
Deadline(r, now) ==
  IF r.timeout \notin Times \/ r.command # "WAIT" THEN r.timeout
  ELSE IF r.timeout > TimeMax - now THEN TimeMax ELSE r.timeout + now

\* The checks of call() between the timeout and the mutex.
CallError(r) ==
  IF (r.realtime /\ r.command # "WAIT_BITSET")
     \/ r.command \notin WaitCommands \cup WakeCommands THEN "ENOSYS"
  ELSE IF MaskOf(r) = {} THEN "EINVAL"
  ELSE AddressError(r.address)

RequeueError(r) ==
  IF ~r.private \/ r.realtime THEN "ENOSYS"
  ELSE IF r.value < 0 \/ r.moves < 0 THEN "EINVAL"
  ELSE IF AddressError(r.address) # "OK" THEN AddressError(r.address)
  ELSE AddressError(r.address2)

----------------------------------------------------------------------------
(* The queue.                                                              *)

PositionOf(t) == IndexIn(active, t)

Queued == Members(active)

\* A faulty scan of the queue: from its end.
Newest(M, n) ==
  {t \in M : Cardinality({u \in M : PositionOf(u) > PositionOf(t)}) < n}

\* The first n waiters of the set M in queue order.
Oldest(M, n) ==
  {t \in M : Cardinality({u \in M : PositionOf(u) < PositionOf(t)}) < n}

\* The waiters a WAKE of this key and mask applies to.
Matching(address, private, mask) ==
  {t \in Queued : /\ ~waiter[t].woken
                  /\ waiter[t].address = address
                  /\ waiter[t].private = private
                  /\ waiter[t].mask \cap mask # {}}

\* artbox_futex::wake: a nonpositive count wakes one waiter.
Chosen(address, private, mask, count) ==
  Oldest(Matching(address, private, mask), IF count > 0 THEN count ELSE 1)

\* A faulty wake: waiters are marked and not notified.
WokenSilently(w) == [w EXCEPT !.woken = TRUE]

\* A waiter marked woken, its condition variable notified.
WokenUp(w) == [w EXCEPT !.woken = TRUE, !.notified = TRUE]

\* The body of artbox_futex::wake.
WakeUp(S) ==
  /\ waiter' = [t \in Threads |-> IF t \in S THEN WokenUp(waiter[t]) ELSE waiter[t]]
  /\ credit' = credit + Cardinality(S)

----------------------------------------------------------------------------
(* The state before the first call.                                        *)

Init ==
  /\ alive = TRUE
  /\ word = [a \in Addresses |-> 0]
  /\ mapped = Addresses
  /\ active = <<>>
  /\ waiter = [t \in Threads |-> NoWaiter]
  /\ frame = [t \in Threads |-> NoFrame]
  /\ clock = [c \in {"realtime", "monotonic"} |-> 0]
  /\ ret = NoReturn
  /\ credit = 0
  /\ quiet = {}

----------------------------------------------------------------------------
(* WAIT and WAIT_BITSET.                                                   *)

\* call() up to the mutex: the epoch is read first, then the timeout and its
\* deadline, then the other arguments are checked.
WaitEnter(t, r) ==
  /\ alive /\ At(t, "outside") /\ r.command \in WaitCommands
  /\ \E e \in TimeoutErrors(r) :
       LET error == IF e = "OK" THEN CallError(r) ELSE e IN
       IF error = "OK"
       THEN /\ frame' = [frame EXCEPT ![t] =
                 [at |-> "entered", request |-> r, interrupted |-> FALSE,
                  deadline |-> Deadline(r, clock["monotonic"]),
                  began |-> clock["monotonic"]]]
            /\ ret' = NoReturn
       ELSE ret' = error /\ UNCHANGED frame
  /\ UNCHANGED <<alive, guestVars, active, waiter, clock, credit, quiet>>

\* A faulty loop: the interrupt epoch is tested before the woken flag.
LoopExitInterruptFirst(t, woken) ==
  LET f == frame[t] IN
  IF t \in Interruptible /\ f.interrupted THEN {"EINTR"}
  ELSE IF woken THEN {"OK"}
  ELSE IF f.deadline = NoTimeout THEN {"sleep"}
  ELSE IF clock[ClockOf(f.request)] >= f.deadline THEN {"ETIMEDOUT", "EIO"}
  ELSE {"sleep", "EIO"}

\* One evaluation of the wait loop: how it may leave the loop, or "sleep".
\* Reading the clock may fail.
LoopExit(t, woken) ==
  LET f == frame[t] IN
  IF woken THEN {"OK"}
  ELSE IF t \in Interruptible /\ f.interrupted THEN {"EINTR"}
  ELSE IF f.deadline = NoTimeout THEN {"sleep"}
  ELSE IF clock[ClockOf(f.request)] >= f.deadline THEN {"ETIMEDOUT", "EIO"}
  ELSE {"sleep", "EIO"}

\* A faulty compare: the word is not looked at under the mutex.
EnqueueErrorNoCompare(r) ==
  IF r.address \notin mapped THEN "EFAULT"
  ELSE IF Len(active) = WaiterLimit THEN "ENOMEM"
  ELSE "OK"

\* What the critical section checks before it enqueues.
EnqueueError(r) ==
  IF r.address \notin mapped THEN "EFAULT"
  ELSE IF word[r.address] # r.value THEN "EAGAIN"
  ELSE IF Len(active) = WaiterLimit THEN "ENOMEM"
  ELSE "OK"

\* The mutex is taken: compare, enqueue, and evaluate the loop once before the
\* mutex is released by the first wait.  A loop that ends at once erases the
\* entry it has just pushed.
WaitEnqueue(t) ==
  /\ At(t, "entered")
  /\ LET r == frame[t].request
         error == EnqueueError(r)
     IN \E exit \in IF error = "OK" THEN LoopExit(t, FALSE) ELSE {error} :
          IF exit = "sleep"
          THEN /\ active' = Append(active, t)
               /\ waiter' = [waiter EXCEPT ![t] =
                    [address |-> r.address, mask |-> MaskOf(r),
                     private |-> r.private, woken |-> FALSE, notified |-> FALSE]]
               /\ frame' = [frame EXCEPT ![t].at = "waiting"]
               /\ ret' = NoReturn
          ELSE /\ frame' = [frame EXCEPT ![t] = NoFrame]
               /\ ret' = exit
               /\ UNCHANGED <<active, waiter>>
  /\ UNCHANGED <<alive, guestVars, clock, credit, quiet>>

\* A faulty exit: the entry of a wait that failed stays in the queue.
LeaveQueueIfWoken(t) == IF waiter[t].woken THEN Erase(active, PositionOf(t)) ELSE active

\* The queue once the thread has erased its entry.
LeaveQueue(t) == Erase(active, PositionOf(t))

\* The condition variable returns, on a notification, at the end of a slice or
\* spuriously, and the loop is evaluated again.
Recheck(t) ==
  /\ At(t, "waiting")
  /\ \E exit \in LoopExit(t, waiter[t].woken) :
       IF exit = "sleep"
       THEN /\ waiter' = [waiter EXCEPT ![t].notified = FALSE]
            /\ ret' = NoReturn
            /\ UNCHANGED <<active, frame, credit>>
       ELSE /\ active' = LeaveQueue(t)
            /\ waiter' = [waiter EXCEPT ![t] = NoWaiter]
            /\ frame' = [frame EXCEPT ![t] = NoFrame]
            /\ ret' = exit
            /\ credit' = IF exit = "OK" THEN credit - 1 ELSE credit
  /\ UNCHANGED <<alive, guestVars, clock, quiet>>

----------------------------------------------------------------------------
(* WAKE, REQUEUE and the calls call() refuses.                             *)

\* Why a call that is not a wait never reaches the queue: an argument error, or
\* a shared key that is not mapped.
RefusedError(r) ==
  IF r.command = "REQUEUE" THEN RequeueError(r)
  ELSE IF CallError(r) # "OK" THEN CallError(r)
  ELSE IF ~r.private /\ r.address \notin mapped THEN "EFAULT"
  ELSE "OK"

Refused(t, r) ==
  /\ alive /\ At(t, "outside") /\ r.command \notin WaitCommands
  /\ RefusedError(r) # "OK"
  /\ ret' = RefusedError(r)
  /\ UNCHANGED <<alive, guestVars, active, waiter, frame, clock, credit, quiet>>

Wake(t, r) ==
  /\ alive /\ At(t, "outside") /\ r.command \in WakeCommands
  /\ RefusedError(r) = "OK"
  /\ LET S == Chosen(r.address, r.private, MaskOf(r), r.value) IN
     /\ WakeUp(S)
     /\ quiet' = IF r.private /\ MaskOf(r) = Bits
                    /\ S = Matching(r.address, TRUE, Bits)
                 THEN quiet \cup {r.address} ELSE quiet
  /\ ret' = "OK"
  /\ UNCHANGED <<alive, guestVars, active, frame, clock>>

\* The private waiters of the key that are not woken yet, whatever their mask.
Movable(address) == {t \in Queued : /\ ~waiter[t].woken
                                    /\ waiter[t].private
                                    /\ waiter[t].address = address}

\* Wake the oldest waiters of the first key and move the next ones, in place, to
\* the second.
Requeue(t, r) ==
  /\ alive /\ At(t, "outside") /\ r.command = "REQUEUE"
  /\ RefusedError(r) = "OK"
  /\ LET M == Movable(r.address)
         S == Oldest(M, r.value)
         V == Oldest(M \ S, r.moves)
     IN /\ waiter' = [u \in Threads |->
             IF u \in S THEN WokenUp(waiter[u])
             ELSE IF u \in V THEN [waiter[u] EXCEPT !.address = r.address2]
             ELSE waiter[u]]
        /\ credit' = credit + Cardinality(S)
        /\ quiet' = IF V = {} THEN quiet ELSE quiet \ {r.address2}
  /\ ret' = "OK"
  /\ UNCHANGED <<alive, guestVars, active, frame, clock>>

\* artbox_futex_clear_tid, called by the thread reaper.
ClearTid(a) ==
  /\ alive
  /\ IF a \in mapped
     THEN /\ word' = [word EXCEPT ![a] = 0]
          /\ WakeUp(Chosen(a, FALSE, Bits, 1))
          /\ quiet' = quiet \ {a}
          /\ ret' = "OK"
     ELSE ret' = "EFAULT" /\ UNCHANGED <<word, waiter, credit, quiet>>
  /\ UNCHANGED <<alive, mapped, active, frame, clock>>

\* artbox_futex_destroy.  Its contract: the owner has stopped the callers, so
\* no thread is between its arguments and the mutex.
Destroy ==
  /\ alive /\ \A t \in Threads : ~At(t, "entered")
  /\ alive' = (active # <<>>)
  /\ ret' = IF active # <<>> THEN "EBUSY" ELSE "OK"
  /\ UNCHANGED <<guestVars, active, waiter, frame, clock, credit, quiet>>

----------------------------------------------------------------------------
(* The rest of the guest: stores, mappings, signals and clocks.            *)

\* A guest store to a mapped word.
Store(a, v) ==
  /\ a \in mapped /\ word[a] # v
  /\ word' = [word EXCEPT ![a] = v]
  /\ quiet' = quiet \ {a}
  /\ ret' = NoReturn
  /\ UNCHANGED <<alive, mapped, active, waiter, frame, clock, credit>>

\* munmap, and mmap of fresh zeroed memory at the same address.
Remap(a) ==
  /\ IF a \in mapped
     THEN mapped' = mapped \ {a} /\ UNCHANGED word
     ELSE mapped' = mapped \cup {a} /\ word' = [word EXCEPT ![a] = 0]
  /\ quiet' = quiet \ {a}
  /\ ret' = NoReturn
  /\ UNCHANGED <<alive, active, waiter, frame, clock, credit>>

\* A signal is taken by a thread inside call(): its interrupt epoch advances.
Interrupt(t) ==
  /\ t \in Interruptible /\ ~At(t, "outside")
  /\ frame' = [frame EXCEPT ![t].interrupted = TRUE]
  /\ ret' = NoReturn
  /\ UNCHANGED <<alive, guestVars, active, waiter, clock, credit, quiet>>

Tick ==
  /\ clock["monotonic"] < ClockLimit
  /\ clock' = [clock EXCEPT !["monotonic"] = @ + 1]
  /\ ret' = NoReturn
  /\ UNCHANGED <<alive, guestVars, active, waiter, frame, credit, quiet>>

\* The realtime clock may be set, forwards or backwards.
SetRealtime(v) ==
  /\ clock["realtime"] # v
  /\ clock' = [clock EXCEPT !["realtime"] = v]
  /\ ret' = NoReturn
  /\ UNCHANGED <<alive, guestVars, active, waiter, frame, credit, quiet>>

----------------------------------------------------------------------------

Call(t, r) == WaitEnter(t, r) \/ Refused(t, r) \/ Wake(t, r) \/ Requeue(t, r)

Environment ==
  \/ \E a \in Addresses : Remap(a) \/ \E v \in Values : Store(a, v)
  \/ \E t \in Threads : Interrupt(t)
  \/ Tick
  \/ \E v \in 0..ClockLimit : SetRealtime(v)

Next ==
  \/ \E t \in Threads : \/ \E r \in Requests : Call(t, r)
                        \/ WaitEnqueue(t)
                        \/ Recheck(t)
  \/ \E a \in Addresses : ClearTid(a)
  \/ Destroy
  \/ Environment

Spec == Init /\ [][Next]_vars

\* A wait that has a notification pending returns from its condition variable;
\* one that uses wait_for does so at the end of its slice as well.
MustReturn(t) ==
  waiter[t].notified \/ frame[t].deadline # NoTimeout \/ t \in Interruptible

\* The mutex is fair enough for every entered WAIT to get it, and the condition
\* variables deliver notifications and end their slices.
Fairness == \A t \in Threads : /\ WF_vars(WaitEnqueue(t))
                               /\ WF_vars(MustReturn(t) /\ Recheck(t))

FairSpec == Spec /\ Fairness

----------------------------------------------------------------------------
(* Properties.                                                             *)

\* Every variable has its type.
TypeOK ==
  /\ alive \in BOOLEAN
  /\ word \in [Addresses -> Values]
  /\ mapped \in SUBSET Addresses
  /\ active \in Seq(Threads)
  /\ waiter \in [Threads -> Waiter]
  /\ frame \in [Threads -> Frame]
  /\ clock \in [{"realtime", "monotonic"} -> 0..ClockLimit]
  /\ ret \in Errors \cup {NoReturn}
  /\ credit \in Int
  /\ quiet \in SUBSET Addresses

\* The queue holds exactly the waiters that live on the stacks of threads that
\* are inside WAIT, each once: no return, by whatever path, leaves behind a
\* pointer to a dead stack frame.  The queue never outgrows its reservation (the
\* push_back under the mutex never reallocates), and nobody is inside a domain
\* that was destroyed.
QueueExact ==
  /\ IsDistinct(active)
  /\ Queued = {t \in Threads : At(t, "waiting")}
  /\ Len(active) <= WaiterLimit
  /\ alive \/ \A t \in Threads : At(t, "outside")

Woken == {t \in Threads : At(t, "waiting") /\ waiter[t].woken}

\* Every wake that WAKE, REQUEUE or clear_tid counted is consumed by exactly one
\* WAIT that returns 0: a timeout, a signal or a clock failure that races with
\* it never swallows it.
WakeAccounting == credit = Cardinality(Woken)

\* A waiter that was woken and has not left yet has its notification pending:
\* it cannot sleep through its own wake.
WokenNotified == \A t \in Woken : waiter[t].notified

\* A private waiter that still sleeps on a word, although everyone on that word
\* was woken after its last change, waits for that word and expects the value
\* the word has: the comparison and the push are one step against every
\* store-then-wake.
NoStaleSleeper ==
  \A t \in Threads :
    (/\ At(t, "waiting") /\ ~waiter[t].woken /\ waiter[t].private
     /\ waiter[t].address \in quiet)
      => LET r == frame[t].request IN
         r.address = waiter[t].address /\ r.value = word[r.address]

\* A WAIT reports ETIMEDOUT only when its whole relative timeout has passed on
\* the monotonic clock, or its absolute deadline on the clock it names: a
\* timeout too large to be represented never expires.
NoEarlyTimeout ==
  [][\A t \in Threads :
       (~At(t, "outside") /\ At(t, "outside")' /\ ret' = "ETIMEDOUT") =>
         LET r == frame[t].request IN
         IF r.command = "WAIT"
         THEN clock["monotonic"] - frame[t].began >= r.timeout
         ELSE clock[ClockOf(r)] >= r.timeout]_vars

\* Two unwoken waiters t, u of one key, t the older and with no narrower a mask.
Ahead(t, u) ==
  /\ t \in Queued /\ u \in Queued /\ PositionOf(t) < PositionOf(u)
  /\ ~waiter[t].woken /\ ~waiter[u].woken
  /\ waiter[t].address = waiter[u].address
  /\ waiter[t].private = waiter[u].private
  /\ waiter[u].mask \subseteq waiter[t].mask

\* WAKE and REQUEUE serve the waiters of a key oldest first: no step wakes or
\* moves a waiter past an older one that it could have served.
ServesOldestFirst ==
  [][\A t, u \in Threads :
       Ahead(t, u) /\ At(t, "waiting")' /\ At(u, "waiting")' =>
         /\ waiter'[u].woken => waiter'[t].woken
         /\ waiter'[u].address # waiter[u].address =>
              waiter'[t].woken \/ waiter'[t].address = waiter'[u].address]_vars

\* The reasons for which a wait must end.
Due(t) == /\ At(t, "waiting")
          /\ \/ waiter[t].woken
             \/ t \in Interruptible /\ frame[t].interrupted
             \/ /\ frame[t].deadline # NoTimeout /\ ~frame[t].request.realtime
                /\ clock["monotonic"] >= frame[t].deadline

\* A waiter that was woken or interrupted, or whose monotonic deadline has
\* passed, returns; and an interruption that arrives between the epoch read and
\* the mutex is not lost: the call returns although nobody wakes it.
DueReturns ==
  \A t \in Threads :
    /\ Due(t) ~> ~At(t, "waiting")
    /\ (At(t, "entered") /\ frame[t].interrupted) ~> At(t, "outside")
=============================================================================
