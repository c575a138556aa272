------------------------------ MODULE Signals ------------------------------
(***************************************************************************)
(* The signal registry of core/src/signals.cpp with the interrupt and      *)
(* fault delivery of platform/apple/native_signal_delivery.c.              *)
(*                                                                         *)
(* The mask and the pending signals of a thread are one atomic value       *)
(* (SignalState).  Senders and waiters serialise on the registry's mutex;  *)
(* the thread that owns the value also changes it, without the mutex, in   *)
(* its mask calls and in host signal handlers that interrupt it anywhere,  *)
(* also where it holds the mutex.  Every change is a load (old) followed   *)
(* by a compare-exchange, here two steps.                                  *)
(***************************************************************************)
EXTENDS Integers, FiniteSets

CONSTANTS
  Threads,        \* guest threads
  Standard,       \* standard signals, numbers below 32
  Unmaskable,     \* SIGKILL and SIGSTOP
  Interrupt,      \* the realtime interruption signal
  Faults,         \* signals of synchronous faults
  Capacity,       \* interrupt_capacity
  DrainLimit,     \* handler calls per native wake, 64 in the code
  ActionMask,     \* the mask of the installed actions
  Masks,          \* the masks that guests pass
  Waits,          \* the sets of signals that they wait for
  May,            \* the operations each thread performs in this instance
  WaitUnblocked   \* guests wait for signals that they do not block, too

Signals == Standard \cup {Interrupt}
None == 0
Operations == {"send", "mask", "handler mask", "wait", "bind", "unbind", "fault",
               "inherit", "detach"}

ASSUME SignalsAssumption ==
  /\ IsFiniteSet(Threads) /\ None \notin Threads
  /\ Standard \subseteq 1..31 /\ Interrupt \in 32..64
  /\ Unmaskable \subseteq Standard /\ Faults \subseteq Standard \ Unmaskable
  /\ Capacity \in Nat \ {0} /\ DrainLimit \in Nat \ {0}
  /\ ActionMask \subseteq Signals
  /\ Masks # {} /\ Masks \subseteq SUBSET Signals /\ Waits \subseteq SUBSET Signals
  /\ May \in [Threads -> SUBSET Operations] /\ WaitUnblocked \in BOOLEAN

VARIABLES
  life,       \* the process is "live", has "failed", its registry is "destroyed"
  attached,   \* artbox_signals::threads
  bits,       \* SignalState: the mask, standard signals pending, interrupt count
  bound,      \* the threads with an interrupt binding (notify)
  wait_mask,  \* what each waiting thread waits for
  lock,       \* the thread that holds artbox_signals::lock
  main,       \* what each thread is doing
  handler,    \* what the host signal handler that interrupted it is doing
  wake,       \* the threads with the native transport (SIGUSR1) pending
  changed,    \* those with a notification of their condition variable pending
  owed        \* signals accepted for each thread and not consumed yet

vars == <<life, attached, bits, bound, wait_mask, lock, main, handler, wake, changed, owed>>

Bits == [mask : SUBSET Signals, std : SUBSET Standard, count : 0..Capacity]
Clear == [mask |-> {}, std |-> {}, count |-> 0]

\* `set' is the mask passed or the set waited for; `stale' tells that the interrupt
\* epoch is no longer the one wait() read.
Main == [pc : {"guest", "send", "kick", "mask", "tell", "entered", "asleep", "consume"},
         old : Bits, set : SUBSET Signals, how : {"block", "unblock", "set"},
         target : Threads \cup {None}, signal : Signals \cup {None},
         timeout : {"none", "zero", "finite"}, stale : BOOLEAN]
InGuest == [pc |-> "guest", old |-> Clear, set |-> {}, how |-> "block", target |-> None,
            signal |-> None, timeout |-> "none", stale |-> FALSE]

\* `goal' is what a mask change is for: a call of the handler, the mask of the
\* action, or the return; `entry' is the mask of the interrupted code.
Handler == [pc : {"idle", "take", "taking", "guest", "mask", "tell"},
            kind : {"interrupt", "fault"}, goal : {"call", "enter", "restore"},
            old : Bits, set : SUBSET Signals, how : {"block", "unblock", "set"},
            saved : SUBSET Signals, entry : SUBSET Signals, drained : 0..DrainLimit]
Idle == [pc |-> "idle", kind |-> "interrupt", goal |-> "call", old |-> Clear, set |-> {},
         how |-> "block", saved |-> {}, entry |-> {}, drained |-> 0]

Init ==
  /\ life = "live" /\ attached = {} /\ bound = {} /\ lock = None
  /\ wake = {} /\ changed = {}
  /\ bits = [t \in Threads |-> Clear]
  /\ wait_mask = [t \in Threads |-> {}]
  /\ main = [t \in Threads |-> InGuest] /\ handler = [t \in Threads |-> Idle]
  /\ owed = [t \in Threads |-> [std |-> {}, count |-> 0]]

----------------------------------------------------------------------------
(* The signal state.                                                       *)

pending_set(b) == b.std \cup (IF b.count > 0 THEN {Interrupt} ELSE {})

\* What a change of mask would leave pending and unblocked.
Exposed(b) == pending_set(b) \ b.mask

Enqueued(b, n) == IF n = Interrupt THEN [b EXCEPT !.count = @ + 1]
                  ELSE [b EXCEPT !.std = @ \cup {n}]
Dequeued(b, n) == IF n = Interrupt THEN [b EXCEPT !.count = @ - 1]
                  ELSE [b EXCEPT !.std = @ \ {n}]

Masked(b, how, set) ==
  [b EXCEPT !.mask = IF how = "block" THEN @ \cup (set \ Unmaskable)
                     ELSE IF how = "unblock" THEN @ \ set
                     ELSE set \ Unmaskable]

\* A faulty compare-exchange: a plain store.
CanStore(t, old) == TRUE

\* The compare-exchange succeeds if the state is the one that was loaded.
CanExchange(t, old) == bits[t] = old

\* What is owed for accepting or consuming a signal.
Owing(t, n) == [owed EXCEPT ![t] = Enqueued(@, n)]
Settling(t, n) == [owed EXCEPT ![t] = Dequeued(@, n)]

\* A thread executes its main code only while no handler interrupts it.
Runs(t, pc) ==
  life = "live" /\ t \in attached /\ handler[t].pc = "idle" /\ main[t].pc = pc
Handles(t, pc) == life = "live" /\ t \in attached /\ handler[t].pc = pc
Does(t, op) == op \in May[t]

----------------------------------------------------------------------------
(* tgkill.  A refused send changes nothing.                                *)

\* The target blocks or awaits the signal, or it is an interrupt that can be
\* delivered; and an interrupt finds room.
Accepts(t, n, b) ==
  /\ n \in b.mask \cup wait_mask[t] \/ (n = Interrupt /\ t \in bound)
  /\ n = Interrupt => b.count < Capacity

\* send() up to its first load.  The mutex is kept until the send is over.
SendLoad(s, t, n) ==
  /\ Runs(s, "guest") /\ Does(s, "send") /\ lock = None
  /\ t \in attached /\ n \in Signals \ Unmaskable /\ Accepts(t, n, bits[t])
  /\ lock' = s
  /\ main' = [main EXCEPT ![s] =
       [InGuest EXCEPT !.pc = "send", !.target = t, !.signal = n, !.old = bits[t]]]
  /\ UNCHANGED <<life, attached, bits, bound, wait_mask, handler, wake, changed, owed>>

\* A faulty send: the waiter is not notified.
NotifiedNever(t) == changed

\* changed.notify_one, which only a sleeping thread observes.
Notified(t) == IF main[t].pc = "asleep" THEN changed \cup {t} ELSE changed

\* A faulty send: a target that is unblocked is not woken either.
KicksNever(t, n, b) == FALSE

\* The interrupt is neither blocked nor awaited: the native transport is needed.
Kicks(t, n, b) ==
  n = Interrupt /\ n \notin b.mask /\ n \notin wait_mask[t] /\ t \in bound

\* The compare-exchange; if it fails, the conditions are tested again.
SendExchange(s) ==
  LET f == main[s]
      t == f.target
  IN /\ Runs(s, "send")
     /\ \/ /\ CanExchange(t, f.old)
           /\ bits' = [bits EXCEPT ![t] = Enqueued(f.old, f.signal)]
           /\ owed' = Owing(t, f.signal)
           /\ changed' = Notified(t)
           /\ IF Kicks(t, f.signal, f.old)
              THEN /\ main' = [main EXCEPT ![s].pc = "kick", ![s].old = Clear]
                   /\ UNCHANGED lock
              ELSE main' = [main EXCEPT ![s] = InGuest] /\ lock' = None
        \/ /\ ~CanExchange(t, f.old)
           /\ IF Accepts(t, f.signal, bits[t])
              THEN main' = [main EXCEPT ![s].old = bits[t]] /\ UNCHANGED lock
              ELSE main' = [main EXCEPT ![s] = InGuest] /\ lock' = None
           /\ UNCHANGED <<bits, changed, owed>>
     /\ UNCHANGED <<life, attached, bound, wait_mask, handler, wake>>

\* notify: the native thread is signalled.
SendKick(s) ==
  /\ Runs(s, "kick")
  /\ wake' = wake \cup {main[s].target}
  /\ main' = [main EXCEPT ![s] = InGuest] /\ lock' = None
  /\ UNCHANGED <<life, attached, bits, bound, wait_mask, handler, changed, owed>>

----------------------------------------------------------------------------
(* rt_sigprocmask, from guest code and from a handler.                     *)

\* A faulty mask change: signals that nothing could deliver are exposed.
RefusesNever(t, f) == FALSE

\* Standard signals cannot be delivered, an interrupt only if there is a binding.
MaskRefused(t, f) ==
  LET x == Exposed(Masked(f.old, f.how, f.set))
  IN x # {} /\ (t \notin bound \/ x \ {Interrupt} # {})

Tells(f) == Exposed(Masked(f.old, f.how, f.set)) # {}

MaskLoad(t, how, set) ==
  /\ Runs(t, "guest") /\ Does(t, "mask")
  /\ main' = [main EXCEPT ![t] =
       [InGuest EXCEPT !.pc = "mask", !.how = how, !.set = set, !.old = bits[t]]]
  /\ UNCHANGED <<life, attached, bits, bound, wait_mask, lock, handler, wake, changed, owed>>

MaskExchange(t) ==
  LET f == main[t]
      refused == MaskRefused(t, f)
  IN /\ Runs(t, "mask")
     /\ \/ /\ refused
           /\ main' = [main EXCEPT ![t] = InGuest] /\ UNCHANGED bits
        \/ /\ ~refused /\ CanExchange(t, f.old)
           /\ bits' = [bits EXCEPT ![t] = Masked(f.old, f.how, f.set)]
           /\ main' = [main EXCEPT ![t] =
                IF Tells(f) THEN [InGuest EXCEPT !.pc = "tell"] ELSE InGuest]
        \/ /\ ~refused /\ ~CanExchange(t, f.old)
           /\ main' = [main EXCEPT ![t].old = bits[t]] /\ UNCHANGED bits
     /\ UNCHANGED <<life, attached, bound, wait_mask, lock, handler, wake, changed, owed>>

MaskTell(t) ==
  /\ Runs(t, "tell")
  /\ wake' = wake \cup {t}
  /\ main' = [main EXCEPT ![t] = InGuest]
  /\ UNCHANGED <<life, attached, bits, bound, wait_mask, lock, handler, changed, owed>>

----------------------------------------------------------------------------
(* Host signal handlers.                                                   *)

\* SIGUSR1 reaches its thread: deliver_interrupt begins.
InterruptEnter(t) ==
  /\ Handles(t, "idle") /\ t \in wake
  /\ wake' = wake \ {t}
  /\ handler' = [handler EXCEPT ![t] = [Idle EXCEPT !.pc = "take", !.entry = bits[t].mask]]
  /\ UNCHANGED <<life, attached, bits, bound, wait_mask, lock, main, changed, owed>>

Takable(b) == b.count > 0 /\ Interrupt \notin b.mask

\* artbox_signals_take_interrupt, up to its first load.
TakeLoad(t) ==
  /\ Handles(t, "take")
  /\ handler' = [handler EXCEPT ![t] =
       IF Takable(bits[t]) THEN [@ EXCEPT !.pc = "taking", !.old = bits[t]] ELSE Idle]
  /\ UNCHANGED <<life, attached, bits, bound, wait_mask, lock, main, wake, changed, owed>>

\* The interrupt is taken together with the mask of its action, and the epoch
\* advances.
TakeExchange(t) ==
  LET f == handler[t] IN
  /\ Handles(t, "taking")
  /\ \/ /\ CanExchange(t, f.old)
        /\ bits' = [bits EXCEPT ![t] =
             Dequeued(Masked(f.old, "block", ActionMask \cup {Interrupt}), Interrupt)]
        /\ owed' = Settling(t, Interrupt)
        /\ main' = [main EXCEPT ![t].stale = @ \/ main[t].pc \in {"entered", "asleep", "consume"}]
        /\ handler' = [handler EXCEPT ![t] =
             [@ EXCEPT !.pc = "guest", !.old = Clear, !.saved = f.old.mask]]
     \/ /\ ~CanExchange(t, f.old)
        /\ handler' = [handler EXCEPT ![t] =
             IF Takable(bits[t]) THEN [@ EXCEPT !.old = bits[t]] ELSE Idle]
        /\ UNCHANGED <<bits, owed, main>>
  /\ UNCHANGED <<life, attached, bound, wait_mask, lock, wake, changed>>

\* The guest's code faults: the handler of signal n will run with its action's
\* mask.  A fault whose signal is blocked ends the process.
FaultEnter(t, n) ==
  /\ Handles(t, "idle") /\ main[t].pc = "guest" /\ Does(t, "fault") /\ n \in Faults
  /\ IF n \in bits[t].mask THEN life' = "failed" /\ UNCHANGED handler
     ELSE /\ handler' = [handler EXCEPT ![t] =
               [Idle EXCEPT !.pc = "mask", !.kind = "fault", !.goal = "enter",
                            !.old = bits[t], !.how = "block", !.set = ActionMask \cup {n},
                            !.saved = bits[t].mask, !.entry = bits[t].mask]]
          /\ UNCHANGED life
  /\ UNCHANGED <<attached, bits, bound, wait_mask, lock, main, wake, changed, owed>>

\* The guest's handler changes the mask,
HandlerCall(t, how, set) ==
  /\ Handles(t, "guest") /\ Does(t, "handler mask")
  /\ handler' = [handler EXCEPT ![t] =
       [@ EXCEPT !.pc = "mask", !.goal = "call", !.old = bits[t], !.how = how, !.set = set]]
  /\ UNCHANGED <<life, attached, bits, bound, wait_mask, lock, main, wake, changed, owed>>

\* A faulty return: the handler's own signals stay blocked.
RestoredHowBlock(f) == "block"

RestoredHow(f) == "set"

\* and returns.  The frame of a fault may carry another mask.
HandlerReturn(t) ==
  /\ Handles(t, "guest")
  /\ \E set \in IF handler[t].kind = "fault" THEN Masks \cup {handler[t].saved}
                ELSE {handler[t].saved} :
       handler' = [handler EXCEPT ![t] =
         [@ EXCEPT !.pc = "mask", !.goal = "restore", !.old = bits[t],
                   !.how = RestoredHow(handler[t]), !.set = set]]
  /\ UNCHANGED <<life, attached, bits, bound, wait_mask, lock, main, wake, changed, owed>>

\* Where the handler goes on after a mask change: after a return, an interrupt
\* handler looks for the next interrupt, up to DrainLimit of them.
Continued(f) ==
  IF f.goal # "restore" THEN [f EXCEPT !.pc = "guest", !.old = Clear, !.set = {}, !.how = "block"]
  ELSE IF f.kind = "fault" \/ f.drained + 1 = DrainLimit THEN Idle
  ELSE [Idle EXCEPT !.pc = "take", !.entry = f.entry, !.drained = f.drained + 1]

\* A mask change the registry refuses fails the handler's call, or the whole
\* delivery, which ends the process.
HandlerExchange(t) ==
  LET f == handler[t]
      refused == MaskRefused(t, f)
  IN /\ Handles(t, "mask")
     /\ \/ /\ refused /\ f.goal = "call"
           /\ handler' = [handler EXCEPT ![t] = Continued(f)] /\ UNCHANGED <<bits, life>>
        \/ /\ refused /\ f.goal # "call"
           /\ life' = "failed" /\ UNCHANGED <<bits, handler>>
        \/ /\ ~refused /\ CanExchange(t, f.old)
           /\ bits' = [bits EXCEPT ![t] = Masked(f.old, f.how, f.set)]
           /\ handler' = [handler EXCEPT ![t] =
                IF Tells(f) THEN [@ EXCEPT !.pc = "tell"] ELSE Continued(f)]
           /\ UNCHANGED life
        \/ /\ ~refused /\ ~CanExchange(t, f.old)
           /\ handler' = [handler EXCEPT ![t].old = bits[t]] /\ UNCHANGED <<bits, life>>
     /\ UNCHANGED <<attached, bound, wait_mask, lock, main, wake, changed, owed>>

HandlerTell(t) ==
  /\ Handles(t, "tell")
  /\ wake' = wake \cup {t}
  /\ handler' = [handler EXCEPT ![t] = Continued(@)]
  /\ UNCHANGED <<life, attached, bits, bound, wait_mask, lock, main, changed, owed>>

----------------------------------------------------------------------------
(* rt_sigtimedwait.                                                        *)

\* wait() reads the epoch and its arguments before the mutex.
WaitEnter(t, set, timeout) ==
  /\ Runs(t, "guest") /\ Does(t, "wait")
  /\ WaitUnblocked \/ set \ Unmaskable \subseteq bits[t].mask
  /\ main' = [main EXCEPT ![t] =
       [InGuest EXCEPT !.pc = "entered", !.set = set \ Unmaskable, !.timeout = timeout]]
  /\ UNCHANGED <<life, attached, bits, bound, wait_mask, lock, handler, wake, changed, owed>>

Selected(t) == pending_set(bits[t]) \cap main[t].set

\* Under the mutex: there is a signal, or no time to wait for one, or the wait was
\* interrupted already; else the thread sleeps, and releases the mutex.
WaitLock(t) ==
  /\ Runs(t, "entered") /\ lock = None
  /\ IF Selected(t) # {} \/ main[t].timeout = "zero" \/ main[t].stale
     THEN /\ main' = [main EXCEPT ![t].pc = "consume", ![t].old = bits[t]]
          /\ lock' = t /\ UNCHANGED wait_mask
     ELSE /\ main' = [main EXCEPT ![t].pc = "asleep"]
          /\ wait_mask' = [wait_mask EXCEPT ![t] = main[t].set]
          /\ UNCHANGED lock
  /\ UNCHANGED <<life, attached, bits, bound, handler, wake, changed, owed>>

Available(t) == Selected(t) # {} \/ main[t].stale

\* The sleep ends: on a notification, at the 5 ms poll of a thread that has a
\* binding, or at the deadline.
WaitWake(t) ==
  /\ Runs(t, "asleep") /\ lock = None
  /\ \/ Available(t) /\ t \in changed \cup bound
     \/ main[t].timeout = "finite"
  /\ lock' = t
  /\ main' = [main EXCEPT ![t].pc = "consume", ![t].old = bits[t]]
  /\ wait_mask' = [wait_mask EXCEPT ![t] = {}]
  /\ changed' = changed \ {t}
  /\ UNCHANGED <<life, attached, bits, bound, handler, wake, owed>>

\* A notification for a signal that is not selected.
WaitRecheck(t) ==
  /\ Runs(t, "asleep") /\ lock = None /\ t \in changed /\ ~Available(t)
  /\ changed' = changed \ {t}
  /\ UNCHANGED <<life, attached, bits, bound, wait_mask, lock, main, handler, wake, owed>>

\* The lowest selected signal is consumed, still under the mutex; with none left
\* the wait returns EINTR or EAGAIN.
WaitConsume(t) ==
  LET f == main[t]
      P == pending_set(f.old) \cap f.set
  IN /\ Runs(t, "consume")
     /\ \/ /\ P = {}
           /\ main' = [main EXCEPT ![t] = InGuest] /\ lock' = None
           /\ UNCHANGED <<bits, owed>>
        \/ \E n \in P :
             /\ \A m \in P : n <= m
             /\ CanExchange(t, f.old)
             /\ bits' = [bits EXCEPT ![t] = Dequeued(f.old, n)]
             /\ owed' = Settling(t, n)
             /\ main' = [main EXCEPT ![t] = InGuest] /\ lock' = None
        \/ /\ P # {} /\ ~CanExchange(t, f.old)
           /\ main' = [main EXCEPT ![t].old = bits[t]]
           /\ UNCHANGED <<bits, owed, lock>>
     /\ UNCHANGED <<life, attached, bound, wait_mask, handler, wake, changed>>

----------------------------------------------------------------------------
(* Bindings and threads.                                                   *)

\* The binding is announced what was pending and unblocked before it.
Bind(t) ==
  /\ Runs(t, "guest") /\ Does(t, "bind") /\ lock = None /\ t \notin bound
  /\ bound' = bound \cup {t}
  /\ wake' = IF Takable(bits[t]) THEN wake \cup {t} ELSE wake
  /\ UNCHANGED <<life, attached, bits, wait_mask, lock, main, handler, changed, owed>>

\* A faulty unbind: does not wait for a sender that is about to notify.
UnbindUnlocked(t) ==
  /\ Runs(t, "guest") /\ Does(t, "unbind") /\ t \in bound
  /\ bound' = bound \ {t} /\ wake' = wake \ {t}
  /\ UNCHANGED <<life, attached, bits, wait_mask, lock, main, handler, changed, owed>>

\* unbind_interrupt: with the transport blocked, the binding is removed under the
\* mutex, and a wake that is still pending is drained.
Unbind(t) ==
  /\ Runs(t, "guest") /\ Does(t, "unbind") /\ lock = None /\ t \in bound
  /\ bound' = bound \ {t} /\ wake' = wake \ {t}
  /\ UNCHANGED <<life, attached, bits, wait_mask, lock, main, handler, changed, owed>>

\* The first thread is attached with the mask its descriptor has; the others
\* inherit their parent's mask, and no pending signal.
Attached(t, mask) ==
  /\ t \notin attached /\ lock = None /\ life = "live"
  /\ attached' = attached \cup {t}
  /\ bits' = [bits EXCEPT ![t] = [Clear EXCEPT !.mask = mask \ Unmaskable]]
  /\ UNCHANGED <<life, bound, wait_mask, lock, main, handler, wake, changed, owed>>
Attach(t, mask) == attached = {} /\ Attached(t, mask)
Inherit(p, t) == Runs(p, "guest") /\ Does(p, "inherit") /\ Attached(t, bits[p].mask)

\* The thread has stopped: its state is deleted, unless it is still bound.
Detach(t) ==
  /\ Runs(t, "guest") /\ Does(t, "detach") /\ lock = None /\ t \notin bound
  /\ attached' = attached \ {t}
  /\ bits' = [bits EXCEPT ![t] = Clear]
  /\ owed' = [owed EXCEPT ![t] = [std |-> {}, count |-> 0]]
  /\ UNCHANGED <<life, bound, wait_mask, lock, main, handler, wake, changed>>

Destroy ==
  /\ life = "live" /\ attached = {} /\ lock = None
  /\ life' = "destroyed"
  /\ UNCHANGED <<attached, bits, bound, wait_mask, lock, main, handler, wake, changed, owed>>

----------------------------------------------------------------------------

Hows == {"block", "unblock", "set"}
Timeouts == {"none", "zero", "finite"}

ThreadStep(t) ==
  \/ \E u \in Threads, n \in Signals : SendLoad(t, u, n)
  \/ SendExchange(t) \/ SendKick(t)
  \/ \E how \in Hows, set \in Masks : MaskLoad(t, how, set) \/ HandlerCall(t, how, set)
  \/ MaskExchange(t) \/ MaskTell(t)
  \/ \E set \in Waits, timeout \in Timeouts : WaitEnter(t, set, timeout)
  \/ WaitLock(t) \/ WaitWake(t) \/ WaitRecheck(t) \/ WaitConsume(t)
  \/ InterruptEnter(t) \/ TakeLoad(t) \/ TakeExchange(t)
  \/ \E n \in Faults : FaultEnter(t, n)
  \/ HandlerReturn(t) \/ HandlerExchange(t) \/ HandlerTell(t)
  \/ Bind(t) \/ Unbind(t) \/ Detach(t)
  \/ \E set \in Masks : Attach(t, set)
  \/ \E u \in Threads : Inherit(t, u)

Next == Destroy \/ \E t \in Threads : ThreadStep(t)

Spec == Init /\ [][Next]_vars

\* A thread inside a call of the registry goes on, a handler goes on and returns,
\* SIGUSR1 reaches its thread, and the host mutex does not starve a thread that
\* waits for it.  Nothing is assumed of what guest code does next.
Fairness ==
  \A t \in Threads :
    /\ WF_vars(SendExchange(t) \/ SendKick(t) \/ MaskExchange(t) \/ MaskTell(t)
               \/ WaitConsume(t))
    /\ WF_vars(TakeLoad(t) \/ TakeExchange(t) \/ HandlerExchange(t) \/ HandlerTell(t))
    /\ SF_vars(HandlerReturn(t)) /\ WF_vars(InterruptEnter(t))
    /\ SF_vars(WaitLock(t) \/ WaitWake(t) \/ WaitRecheck(t))
FairSpec == Spec /\ Fairness

----------------------------------------------------------------------------
(* Properties.                                                             *)

\* Every variable has its type; in particular the interrupt count stays within
\* the capacity that was configured.
TypeOK ==
  /\ life \in {"live", "failed", "destroyed"}
  /\ attached \subseteq Threads /\ bound \subseteq Threads
  /\ wake \subseteq Threads /\ changed \subseteq Threads
  /\ bits \in [Threads -> Bits] /\ wait_mask \in [Threads -> SUBSET Signals]
  /\ lock \in Threads \cup {None}
  /\ main \in [Threads -> Main] /\ handler \in [Threads -> Handler]

\* "A bounded count retains every accepted send" (DECISIONS 0087): whatever mask
\* calls, handlers and waits do at the same time, what is pending is exactly what
\* was accepted and has not been consumed, and the count within its capacity.
SendsKept ==
  \A t \in Threads : /\ bits[t].std = owed[t].std /\ bits[t].count = owed[t].count
                     /\ bits[t].count <= Capacity

\* "A successful enqueue and an unblock that strands it cannot both commit"
\* (docs/m3-signals.md): a standard signal, which nothing can deliver, is never
\* pending and unblocked, except for a thread that is consuming it in a wait.
NotStranded ==
  \A t \in attached : \A n \in bits[t].std \ bits[t].mask :
    \/ n \in wait_mask[t]
    \/ main[t].pc = "consume" /\ n \in main[t].set

\* "A signal racing with unmask cannot disappear", "scheduling another wake for any
\* unblocked remainder": an interrupt that a bound thread could take has a wake
\* pending, or about to be issued, or a handler that is going to look for it.
WakeComing ==
  \A t \in bound : Takable(bits[t]) =>
    \/ t \in wake
    \/ handler[t].pc \in {"take", "taking", "tell"} \/ main[t].pc = "tell"
    \/ \E s \in Threads : main[s].pc = "kick" /\ main[s].target = t

\* No accepted signal is out of reach: a standard one waits to be unblocked or waited
\* for, an interrupt has its wake.
Reachable == NotStranded /\ WakeComing

\* "The registry lock protects send-versus-unbind lifetime": the native transport
\* only ever signals a thread that is attached and bound, now and after every
\* sender is done.
WakesBound ==
  /\ wake \subseteq bound /\ bound \subseteq attached
  /\ \A s \in Threads : main[s].pc = "kick" => main[s].target \in bound
  /\ \A s \in Threads : main[s].pc = "send" => main[s].target \in attached

\* The code an interrupt handler interrupted finds the mask it had, however many
\* interrupts were drained and whatever the handlers did to the mask.
MaskRestored ==
  [][\A t \in Threads :
       handler[t].pc # "idle" /\ handler[t].kind = "interrupt" /\ handler'[t].pc = "idle" =>
         bits'[t].mask = handler[t].entry]_vars

\* An interrupt that a bound thread could take is taken, blocked or unbound, unless
\* the thread faults for ever: SIGUSR1 is blocked while a fault is delivered.
InterruptTaken ==
  \A t \in Threads :
    \/ []<>(handler[t].kind = "fault" /\ handler[t].pc # "idle")
    \/ t \in bound /\ Takable(bits[t]) /\ life = "live" ~>
         t \notin bound \/ ~Takable(bits[t]) \/ life # "live"

\* A wait for which there is a signal, or that was interrupted, returns, unless one
\* interrupt after the other keeps its thread in the handler.
WaitReturns ==
  \A t \in Threads :
    main[t].pc = "asleep" /\ (Selected(t) # {} \/ main[t].stale) /\ life = "live" ~>
      main[t].pc # "asleep" \/ handler[t].pc # "idle" \/ life # "live"
=============================================================================
